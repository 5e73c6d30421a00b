--------------------------- MODULE PollCycleProofs ---------------------------
(***************************************************************************)
(* Proofs about PollCycle, for every strike limit and every failure bound. *)
(***************************************************************************)
EXTENDS PollCycle, TLAPS

(* What the safety properties rest on.  The two latches of an outage are   *)
(* tied to its failure counter: conn_error and the probe latch are set     *)
(* only above zero, so the `if self.consecutive_failures > 0` that guards  *)
(* their reset can skip nothing.  Nothing is "fetched" or "served" without *)
(* last_update_success_time.                                               *)
ProbesMatchLatch == probes = IF probeDone THEN 1 ELSE 0
LatchMeansFailure == failures = 0 => ~probeDone
RepairMeansStrikes == connRepair => failures >= REPAIR_CONN_STRIKE_LIMIT
RepairMeansError   == connRepair => health.severity = "error"
NoDataNotUpdated == data = "none" => ~updated

-----------------------------------------------------------------------------
(* Ending a poll leaves the polling state well typed.                      *)
PollTypeOK ==
  /\ pc \in [Slots -> {"idle", "fetching", "retrying", "probing"}]
  /\ wasPaused \in [Slots -> BOOLEAN]
  /\ timer \in BOOLEAN /\ cooldown \in {"off", "on", "again"}
  /\ forceOnce \in BOOLEAN /\ followUp \in BOOLEAN /\ paused \in BOOLEAN
  /\ available \in BOOLEAN
  /\ router \in {"unsteady", "up"}

OutageTypeOK ==
  /\ data \in {"none", "empty", "fetched"}
  /\ failures \in Nat /\ probeDone \in BOOLEAN /\ fault \in Faults
  /\ health \in Verdict
  /\ connRepair \in BOOLEAN /\ authRepair \in BOOLEAN
  /\ updated \in BOOLEAN /\ probes \in Nat

LEMMA EndPollType ==
  ASSUME PollTypeOK, NEW s \in Slots, NEW success \in BOOLEAN,
         NEW authFailed \in BOOLEAN, EndPoll(s, success, authFailed)
  PROVE  PollTypeOK'
BY DEF PollTypeOK, EndPoll, Slots

(* A counted failure leaves the counter above zero and never lowers it,    *)
(* at the model's bound as well.                                           *)
LEMMA CountedFailure ==
  ASSUME failures \in Nat, CountFailure
  PROVE  /\ failures' \in Nat /\ failures' > 0 /\ failures' >= failures
         /\ failures' \in {failures, failures + 1}
BY LimitsAssumption DEF CountFailure

(* What a failed poll publishes: an error from the strike limit on or on a *)
(* cold start, and otherwise only if the verdict could not be computed.    *)
LEMMA FailedVerdictPublished ==
  ASSUME NEW n \in Nat, NEW coldStart \in BOOLEAN, NEW known \in Faults,
         NEW probed \in BOOLEAN,
         UpdateHealth(FailedVerdict(n, coldStart, known, probed))
  PROVE  /\ health' \in Verdict
         /\ coldStart \/ n >= FETCH_STRIKE_LIMIT => health'.severity = "error"
         /\ health'.severity = "error"
              => \/ health'.issue = "uncomputed"
                 \/ coldStart \/ n >= FETCH_STRIKE_LIMIT
<1>1. CASE health' = UncomputedVerdict
  BY <1>1 DEF UncomputedVerdict, Verdict
<1>2. CASE health' = FailedVerdict(n, coldStart, known, probed)
  <2>1. FailedVerdict(n, coldStart, known, probed) \in Verdict
    BY DEF FailedVerdict, FaultEnd, Verdict, Faults
  <2>2. QED
    BY <1>2, <2>1, LimitsAssumption DEF FailedVerdict
<1>3. QED
  BY <1>1, <1>2 DEF UpdateHealth

(* What is left of the invariant when the polling state is set aside.      *)
OutageInv ==
  /\ OutageTypeOK
  /\ ProbesMatchLatch
  /\ LatchMeansFailure
  /\ RepairMeansStrikes
  /\ RepairMeansError
  /\ NoDataNotUpdated
  /\ ErrorVerdictIsCurrent

IInv == PollTypeOK /\ OutageInv

(* A step that touches neither outage, data nor history keeps OutageInv.   *)
LEMMA OutageFrame ==
  ASSUME OutageInv, UNCHANGED <<data, outage, history>>
  PROVE  OutageInv'
BY DEF OutageInv, OutageTypeOK, ProbesMatchLatch, LatchMeansFailure,
       RepairMeansStrikes, RepairMeansError, NoDataNotUpdated,
       ErrorVerdictIsCurrent, outage, history

-----------------------------------------------------------------------------
LEMMA InitInv == Init => IInv
<1> SUFFICES ASSUME Init PROVE IInv
  OBVIOUS
<1>1. PollTypeOK
  BY DEF Init, PollTypeOK, Slots
<1>2. OutageTypeOK
  BY DEF Init, OutageTypeOK, Faults, Verdict
<1>3. QED
  BY <1>1, <1>2 DEF Init, IInv, OutageInv, ProbesMatchLatch, LatchMeansFailure,
     RepairMeansStrikes, RepairMeansError, NoDataNotUpdated,
     ErrorVerdictIsCurrent

(* A failure held within the strike budget.                                *)
LEMMA HoldInv ==
  ASSUME IInv, NEW s \in Slots, CountFailure, HoldValues(s)
  PROVE  IInv'
<1>1. PollTypeOK /\ OutageInv
  BY DEF IInv
<1>2. PollTypeOK'
  BY <1>1, EndPollType DEF HoldValues
<1>3. /\ failures \in Nat /\ failures' \in Nat
      /\ failures' > 0 /\ failures' >= failures
      /\ UNCHANGED <<data, probeDone, fault, connRepair, authRepair, history>>
      /\ UpdateHealth(FailedVerdict(failures', FALSE, fault, probeDone))
  BY <1>1, CountedFailure DEF OutageInv, OutageTypeOK, HoldValues, history
<1>4. /\ health' \in Verdict
      /\ failures' >= FETCH_STRIKE_LIMIT => health'.severity = "error"
      /\ health'.severity = "error"
           => health'.issue = "uncomputed" \/ failures' >= FETCH_STRIKE_LIMIT
  BY <1>1, <1>3, FailedVerdictPublished DEF OutageInv, OutageTypeOK
<1>5. OutageTypeOK'
  BY <1>1, <1>3, <1>4 DEF OutageInv, OutageTypeOK, history
<1>6. ProbesMatchLatch' /\ LatchMeansFailure'
  BY <1>1, <1>3 DEF OutageInv, OutageTypeOK, ProbesMatchLatch,
     LatchMeansFailure, history
<1>7. RepairMeansStrikes' /\ RepairMeansError'
  <2>1. connRepair' = connRepair
    BY <1>3
  <2>2. CASE connRepair
    <3>1. failures >= REPAIR_CONN_STRIKE_LIMIT
      BY <1>1, <2>2 DEF OutageInv, RepairMeansStrikes
    <3>2. /\ failures' >= REPAIR_CONN_STRIKE_LIMIT
          /\ failures' >= FETCH_STRIKE_LIMIT
      BY <1>3, <3>1, LimitsAssumption
    <3>3. QED
      BY <1>4, <3>2 DEF RepairMeansStrikes, RepairMeansError
  <2>3. CASE ~connRepair
    BY <2>1, <2>3 DEF RepairMeansStrikes, RepairMeansError
  <2>4. QED
    BY <2>2, <2>3
<1>8. NoDataNotUpdated' /\ ErrorVerdictIsCurrent'
  BY <1>1, <1>3, <1>4, LimitsAssumption DEF OutageInv, OutageTypeOK,
     NoDataNotUpdated, ErrorVerdictIsCurrent, history
<1>9. QED
  BY <1>2, <1>5, <1>6, <1>7, <1>8 DEF IInv, OutageInv

(* The end of a failed poll, from a counter that any poll may have moved.  *)
LEMMA UpdateFailedInv ==
  ASSUME IInv, NEW s \in Slots, RaiseUpdateFailed(s),
         failures' \in {failures, failures + 1},
         UNCHANGED <<probeDone, updated, probes>>,
         fault' \in Faults
  PROVE  IInv'
<1>1. PollTypeOK /\ OutageInv
  BY DEF IInv
<1>2. PollTypeOK'
  BY <1>1, EndPollType DEF RaiseUpdateFailed
<1>3. /\ failures \in Nat /\ failures' \in Nat /\ failures' >= failures
      /\ connRepair' = (connRepair \/ failures' >= REPAIR_CONN_STRIKE_LIMIT)
      /\ UNCHANGED <<data, authRepair>>
      /\ UpdateHealth(FailedVerdict(failures', data = "none", fault', probeDone'))
  BY <1>1 DEF OutageInv, OutageTypeOK, RaiseUpdateFailed, OutageDue
<1>4. /\ health' \in Verdict
      /\ failures' >= FETCH_STRIKE_LIMIT => health'.severity = "error"
      /\ health'.severity = "error"
           => \/ health'.issue = "uncomputed"
              \/ data = "none" \/ failures' >= FETCH_STRIKE_LIMIT
  BY <1>1, <1>3, FailedVerdictPublished DEF OutageInv, OutageTypeOK
<1>5. OutageTypeOK'
  BY <1>1, <1>3, <1>4 DEF OutageInv, OutageTypeOK
<1>6. RepairMeansStrikes' /\ RepairMeansError' /\ ErrorVerdictIsCurrent'
  BY <1>1, <1>3, <1>4, LimitsAssumption DEF OutageInv, OutageTypeOK,
     RepairMeansStrikes, RepairMeansError, NoDataNotUpdated,
     ErrorVerdictIsCurrent
<1>7. ProbesMatchLatch' /\ LatchMeansFailure' /\ NoDataNotUpdated'
  BY <1>1, <1>3 DEF OutageInv, OutageTypeOK, ProbesMatchLatch,
     LatchMeansFailure, NoDataNotUpdated
<1>8. QED
  BY <1>2, <1>5, <1>6, <1>7 DEF IInv, OutageInv

(* A counted failure that goes on to the diagnosis.                        *)
LEMMA ReportInv ==
  ASSUME IInv, NEW s \in Slots, CountFailure, ReportUnreachable(s)
  PROVE  IInv'
<1>1. PollTypeOK /\ OutageInv
  BY DEF IInv
<1>2. CASE StartProbe(s)
  <2>1. PollTypeOK'
    BY <1>1, <1>2 DEF PollTypeOK, StartProbe, flags
  <2>2. OutageInv'
    BY <1>1, <1>2, CountedFailure, LimitsAssumption DEF OutageInv, OutageTypeOK,
       StartProbe, ProbesMatchLatch, LatchMeansFailure, RepairMeansStrikes,
       RepairMeansError, NoDataNotUpdated, ErrorVerdictIsCurrent
  <2>3. QED
    BY <2>1, <2>2 DEF IInv
<1>3. CASE probeDone /\ RaiseUpdateFailed(s)
             /\ UNCHANGED <<probeDone, fault, history>>
  <2>1. /\ failures' \in {failures, failures + 1}
        /\ UNCHANGED <<probeDone, updated, probes>>
        /\ fault' \in Faults
    BY <1>1, <1>3, CountedFailure DEF OutageInv, OutageTypeOK, history
  <2>2. QED
    BY <1>3, <2>1, UpdateFailedInv
<1>4. QED
  BY <1>2, <1>3 DEF ReportUnreachable

LEMMA ServedInv ==
  ASSUME IInv, NEW s \in Slots, FetchServed(s)
  PROVE  IInv'
<1>1. PollTypeOK /\ OutageInv
  BY DEF IInv
<1>2. PollTypeOK'
  BY <1>1, EndPollType DEF FetchServed
<1>3. /\ health' \in Verdict
      /\ health'.severity = "error" => health'.issue = "uncomputed"
  BY DEF FetchServed, UpdateHealth, ServedVerdict, UncomputedVerdict, Verdict
<1>4. CASE failures > 0
  <2>1. /\ failures' = 0 /\ connRepair' = FALSE /\ probeDone' = FALSE
        /\ fault' \in Faults /\ probes' = 0
        /\ data' = "fetched" /\ updated' = TRUE
        /\ UNCHANGED authRepair
    BY <1>4 DEF FetchServed, EndOutage, Faults
  <2>2. OutageTypeOK'
    BY <1>1, <1>3, <2>1 DEF OutageInv, OutageTypeOK
  <2>3. QED
    BY <1>2, <1>3, <2>1, <2>2 DEF IInv, OutageInv, ProbesMatchLatch,
       LatchMeansFailure, RepairMeansStrikes, RepairMeansError,
       NoDataNotUpdated, ErrorVerdictIsCurrent
<1>5. CASE ~(failures > 0)
  <2>1. failures = 0 /\ UNCHANGED <<connRepair, probeDone, fault, probes>>
    BY <1>1, <1>5 DEF OutageInv, OutageTypeOK, FetchServed, EndOutage
  <2>2. ~connRepair
    BY <1>1, <2>1, LimitsAssumption DEF OutageInv, RepairMeansStrikes
  <2>3. QED
    BY <1>1, <1>2, <1>3, <2>1, <2>2 DEF IInv, OutageInv, OutageTypeOK,
       FetchServed, ProbesMatchLatch, LatchMeansFailure, RepairMeansStrikes,
       RepairMeansError, NoDataNotUpdated, ErrorVerdictIsCurrent
<1>6. QED
  BY <1>4, <1>5

LEMMA RefusedInv ==
  ASSUME IInv, NEW s \in Slots, FetchRefused(s)
  PROVE  IInv'
<1>1. PollTypeOK /\ OutageInv
  BY DEF IInv
<1>2. CASE HoldValues(s)
  BY <1>2, HoldInv DEF FetchRefused
<1>3. CASE ~HoldValues(s)
  <2>1. /\ ~MayHold(failures') /\ CountFailure
        /\ authRepair' = TRUE
        /\ UpdateHealth(FailedVerdict(failures', data = "none", fault, probeDone))
        /\ EndPoll(s, FALSE, TRUE)
        /\ UNCHANGED <<data, probeDone, fault, connRepair, history>>
    BY <1>3 DEF FetchRefused
  <2>2. PollTypeOK'
    BY <1>1, <2>1, EndPollType
  <2>3. /\ failures \in Nat /\ failures' \in Nat
        /\ failures' > 0 /\ failures' >= failures
    BY <1>1, <2>1, CountedFailure DEF OutageInv, OutageTypeOK
  <2>4. /\ health' \in Verdict
        /\ failures' >= FETCH_STRIKE_LIMIT => health'.severity = "error"
        /\ health'.severity = "error"
             => \/ health'.issue = "uncomputed"
                \/ data = "none" \/ failures' >= FETCH_STRIKE_LIMIT
    BY <1>1, <2>1, <2>3, FailedVerdictPublished DEF OutageInv, OutageTypeOK
  <2>5. OutageInv'
    BY <1>1, <2>1, <2>3, <2>4, LimitsAssumption DEF OutageInv, OutageTypeOK,
       ProbesMatchLatch, LatchMeansFailure, RepairMeansStrikes,
       RepairMeansError, NoDataNotUpdated, ErrorVerdictIsCurrent, history
  <2>6. QED
    BY <2>2, <2>5 DEF IInv
<1>4. QED
  BY <1>2, <1>3

LEMMA TimedOutInv ==
  ASSUME IInv, NEW s \in Slots, FetchTimedOut(s)
  PROVE  IInv'
BY HoldInv, ReportInv DEF FetchTimedOut

(* `return {}` ends a poll with data that are neither absent nor fetched.  *)
LEMMA StartEmptyInv ==
  ASSUME IInv, NEW s \in Slots, CountFailure, ~MayHold(failures'),
         StartEmpty(s)
  PROVE  IInv'
<1>1. PollTypeOK /\ OutageInv
  BY DEF IInv
<1>2. PollTypeOK'
  BY <1>1, EndPollType DEF StartEmpty
<1>3. /\ failures \in Nat /\ failures' \in Nat
      /\ failures' > 0 /\ failures' >= failures
      /\ data' = "empty" /\ (data = "none" \/ failures' > FETCH_STRIKE_LIMIT)
      /\ UNCHANGED <<probeDone, fault, connRepair, authRepair, history>>
      /\ UpdateHealth(FailedVerdict(failures', TRUE, fault, probeDone))
  <2>1. /\ failures \in Nat /\ failures' \in Nat
        /\ failures' > 0 /\ failures' >= failures
    BY <1>1, CountedFailure DEF OutageInv, OutageTypeOK
  <2>2. data = "none" \/ failures' > FETCH_STRIKE_LIMIT
    BY <2>1, LimitsAssumption DEF MayHold
  <2>3. QED
    BY <2>1, <2>2 DEF StartEmpty
<1>4. health' \in Verdict /\ health'.severity = "error"
  BY <1>1, <1>3, FailedVerdictPublished DEF OutageInv, OutageTypeOK
<1>5. OutageTypeOK'
  BY <1>1, <1>3, <1>4 DEF OutageInv, OutageTypeOK, history
<1>6. ProbesMatchLatch' /\ LatchMeansFailure'
  BY <1>1, <1>3 DEF OutageInv, OutageTypeOK, ProbesMatchLatch,
     LatchMeansFailure, history
<1>7. RepairMeansStrikes' /\ RepairMeansError'
  <2>1. connRepair' = connRepair
    BY <1>3
  <2>2. CASE connRepair
    <3>1. failures >= REPAIR_CONN_STRIKE_LIMIT
      BY <1>1, <2>2 DEF OutageInv, RepairMeansStrikes
    <3>2. /\ failures' >= REPAIR_CONN_STRIKE_LIMIT
          /\ failures' >= FETCH_STRIKE_LIMIT
      BY <1>3, <3>1, LimitsAssumption
    <3>3. QED
      BY <1>4, <3>2 DEF RepairMeansStrikes, RepairMeansError
  <2>3. CASE ~connRepair
    BY <2>1, <2>3 DEF RepairMeansStrikes, RepairMeansError
  <2>4. QED
    BY <2>2, <2>3
<1>8. NoDataNotUpdated' /\ ErrorVerdictIsCurrent'
  <2>1. updated' = updated
    BY <1>3 DEF history
  <2>2. ~updated' \/ failures' >= FETCH_STRIKE_LIMIT
    BY <1>1, <1>3, <2>1, LimitsAssumption DEF OutageInv, NoDataNotUpdated
  <2>3. QED
    BY <1>3, <2>2 DEF NoDataNotUpdated, ErrorVerdictIsCurrent
<1>9. QED
  BY <1>2, <1>5, <1>6, <1>7, <1>8 DEF IInv, OutageInv

LEMMA FailedInv ==
  ASSUME IInv, NEW s \in Slots, FetchFailed(s)
  PROVE  IInv'
BY HoldInv, ReportInv, StartEmptyInv DEF FetchFailed

LEMMA ProbeAnswersInv ==
  ASSUME IInv, NEW s \in Slots, ProbeAnswers(s)
  PROVE  IInv'
<1>1. /\ RaiseUpdateFailed(s)
      /\ failures' \in {failures, failures + 1}
      /\ UNCHANGED <<probeDone, updated, probes>>
      /\ fault' \in Faults
  BY DEF ProbeAnswers, Faults, IInv, OutageInv, OutageTypeOK
<1>2. QED
  BY <1>1, UpdateFailedInv

(* Starting a poll, asking for one, and every step of Home Assistant's     *)
(* timers leave the outage alone.                                          *)
LEMMA BeginPollType ==
  ASSUME PollTypeOK, NEW s \in Slots, NEW forced \in BOOLEAN,
         NEW isPaused \in BOOLEAN, BeginPoll(s, forced, isPaused),
         followUp' \in BOOLEAN, paused' \in BOOLEAN, UNCHANGED router
  PROVE  PollTypeOK'
BY DEF PollTypeOK, BeginPoll, Slots

LEMMA ForceRefreshType ==
  ASSUME PollTypeOK, NEW isPaused \in BOOLEAN, ForceRefresh(isPaused),
         followUp' \in BOOLEAN, paused' \in BOOLEAN, UNCHANGED router
  PROVE  PollTypeOK'
<1>1. CASE BeginPoll("request", TRUE, isPaused)
  BY <1>1, BeginPollType DEF Slots
<1>2. CASE ~BeginPoll("request", TRUE, isPaused)
  BY <1>2 DEF PollTypeOK, ForceRefresh
<1>3. QED
  BY <1>1, <1>2

LEMMA SchedulingInv ==
  ASSUME IInv,
         \/ TimerPoll \/ CooldownEnds
         \/ UserRefresh \/ PausePolling \/ ResumePolling
         \/ ScheduleFollowUp \/ FollowUpFires \/ SliderCancelsRefresh
         \/ RouterSettles
  PROVE  IInv'
<1>1. PollTypeOK /\ OutageInv
  BY DEF IInv
<1>2. UNCHANGED <<data, outage, history>>
  BY DEF TimerPoll, CooldownEnds, UserRefresh, PausePolling, ResumePolling,
     ScheduleFollowUp, FollowUpFires, SliderCancelsRefresh, RouterSettles
<1>3. PollTypeOK'
  <2>1. CASE TimerPoll
    BY <1>1, <2>1, BeginPollType DEF TimerPoll, PollTypeOK, Slots
  <2>2. CASE CooldownEnds
    <3>1. CASE BeginPoll("request", forceOnce, paused)
      BY <1>1, <2>2, <3>1, BeginPollType DEF CooldownEnds, PollTypeOK, Slots
    <3>2. CASE ~BeginPoll("request", forceOnce, paused)
      BY <1>1, <2>2, <3>2 DEF CooldownEnds, PollTypeOK
    <3>3. QED
      BY <3>1, <3>2
  <2>3. CASE UserRefresh
    BY <1>1, <2>3, ForceRefreshType DEF UserRefresh, PollTypeOK
  <2>4. CASE PausePolling
    BY <1>1, <2>4 DEF PausePolling, PollTypeOK, flags
  <2>5. CASE ResumePolling
    BY <1>1, <2>5, ForceRefreshType DEF ResumePolling, PollTypeOK
  <2>6. CASE ScheduleFollowUp
    BY <1>1, <2>6 DEF ScheduleFollowUp, PollTypeOK, flags
  <2>7. CASE FollowUpFires
    BY <1>1, <2>7, ForceRefreshType DEF FollowUpFires, PollTypeOK
  <2>8. CASE SliderCancelsRefresh
    BY <1>1, <2>8, EndPollType DEF SliderCancelsRefresh, PollTypeOK, Slots
  <2>9. CASE RouterSettles
    BY <1>1, <2>9 DEF RouterSettles, PollTypeOK, flags
  <2>10. QED
    BY <2>1, <2>2, <2>3, <2>4, <2>5, <2>6, <2>7, <2>8, <2>9
<1>4. QED
  BY <1>1, <1>2, <1>3, OutageFrame DEF IInv

LEMMA NextInv == IInv /\ [Next]_vars => IInv'
<1> SUFFICES ASSUME IInv, [Next]_vars PROVE IInv'
  OBVIOUS
<1>1. ASSUME NEW s \in Slots, PollStep(s) PROVE IInv'
  <2>1. CASE FetchServed(s)
    BY <2>1, ServedInv
  <2>2. CASE FetchRetried(s)
    <3>1. PollTypeOK /\ OutageInv
      BY DEF IInv
    <3>2. PollTypeOK'
      BY <2>2, <3>1 DEF FetchRetried, PollTypeOK, flags
    <3>3. QED
      BY <2>2, <3>1, <3>2, OutageFrame DEF IInv, FetchRetried
  <2>3. CASE FetchRefused(s)
    BY <2>3, RefusedInv
  <2>4. CASE FetchTimedOut(s)
    BY <2>4, TimedOutInv
  <2>5. CASE FetchFailed(s)
    BY <2>5, FailedInv
  <2>6. CASE ProbeAnswers(s)
    BY <2>6, ProbeAnswersInv
  <2>7. QED
    BY <1>1, <2>1, <2>2, <2>3, <2>4, <2>5, <2>6 DEF PollStep
<1>2. CASE UNCHANGED vars
  <2>1. PollTypeOK /\ OutageInv
    BY DEF IInv
  <2>2. PollTypeOK'
    BY <1>2, <2>1 DEF vars, flags, PollTypeOK
  <2>3. QED
    BY <1>2, <2>1, <2>2, OutageFrame DEF IInv, vars
<1>3. QED
  BY <1>1, <1>2, SchedulingInv DEF Next

(* The invariant holds of every behaviour of the polls.                    *)
LEMMA Invariance == Spec => []IInv
  BY InitInv, NextInv, PTL DEF Spec

-----------------------------------------------------------------------------
(* Every variable keeps its type.                                          *)
THEOREM TypeCorrect == Spec => []TypeOK
<1>1. IInv => TypeOK
  BY DEF IInv, PollTypeOK, OutageInv, OutageTypeOK, TypeOK
<1>2. QED
  BY <1>1, Invariance, PTL

(* The conn_error repair stands only during the outage that raised it.     *)
THEOREM ConnRepairSafe == Spec => []ConnRepairMeansOutage
<1>1. IInv => ConnRepairMeansOutage
  BY DEF IInv, OutageInv, RepairMeansStrikes, ConnRepairMeansOutage
<1>2. QED
  BY <1>1, Invariance, PTL

(* While it stands, Integration Health says "error" as well.               *)
THEOREM ConnRepairVerdict == Spec => []ConnRepairHasVerdict
<1>1. IInv => ConnRepairHasVerdict
  BY DEF IInv, OutageInv, RepairMeansError, ConnRepairHasVerdict
<1>2. QED
  BY <1>1, Invariance, PTL

(* Between two recoveries the router sees at most one liveness probe.      *)
THEOREM ProbeSafe == Spec => []OneProbePerOutage
<1>1. IInv => OneProbePerOutage
  BY DEF IInv, OutageInv, OutageTypeOK, ProbesMatchLatch, LatchMeansFailure, OneProbePerOutage
<1>2. QED
  BY <1>1, Invariance, PTL

(* Integration Health never keeps or regains an outage that was withdrawn: *)
(* any other error is a verdict that could not be computed.                *)
THEOREM VerdictSafe == Spec => []ErrorVerdictIsCurrent
<1>1. IInv => ErrorVerdictIsCurrent
  BY DEF IInv, OutageInv
<1>2. QED
  BY <1>1, Invariance, PTL

(* Whichever slot the force flag reaches, the poll that takes it fetches.  *)
ForceFlagStep ==
  forceOnce /\ ~forceOnce'
    => \E s \in Slots : pc[s] = "idle" /\ pc'[s] = "fetching"

LEMMA ForcedBegin ==
  ASSUME PollTypeOK, NEW s \in Slots, NEW isPaused,
         BeginPoll(s, TRUE, isPaused)
  PROVE  \E t \in Slots : pc[t] = "idle" /\ pc'[t] = "fetching"
BY DEF PollTypeOK, BeginPoll, ServeFromCache, InFlight

THEOREM ForceFlagBuys == Spec => ForceFlagBuysFetch
<1>1. IInv /\ [Next]_vars => [ForceFlagStep]_vars
  <2> SUFFICES ASSUME IInv, Next, forceOnce, ~forceOnce'
               PROVE  \E s \in Slots : pc[s] = "idle" /\ pc'[s] = "fetching"
    BY DEF ForceFlagStep
  <2>1. PollTypeOK
    BY DEF IInv
  <2>2. ASSUME NEW isPaused, ForceRefresh(isPaused)
        PROVE  \E s \in Slots : pc[s] = "idle" /\ pc'[s] = "fetching"
    BY <2>1, <2>2, ForcedBegin DEF ForceRefresh, Slots
  <2>3. CASE TimerPoll
    <3>1. forceOnce = TRUE
      BY <2>1 DEF PollTypeOK
    <3>2. BeginPoll("timer", TRUE, paused)
      BY <2>3, <3>1 DEF TimerPoll
    <3>3. QED
      BY <2>1, <3>2, ForcedBegin DEF Slots
  <2>4. CASE CooldownEnds
    <3>1. forceOnce = TRUE
      BY <2>1 DEF PollTypeOK
    <3>2. BeginPoll("request", TRUE, paused)
      BY <2>4, <3>1 DEF CooldownEnds
    <3>3. QED
      BY <2>1, <3>2, ForcedBegin DEF Slots
  <2>5. CASE UserRefresh \/ ResumePolling \/ FollowUpFires
    BY <2>2, <2>5 DEF UserRefresh, ResumePolling, FollowUpFires
  <2>6. CASE PausePolling \/ ScheduleFollowUp \/ RouterSettles
    BY <2>6 DEF PausePolling, ScheduleFollowUp, RouterSettles, flags
  <2>7. CASE SliderCancelsRefresh
    BY <2>7 DEF SliderCancelsRefresh, EndPoll
  <2>8. ASSUME NEW s \in Slots, PollStep(s)
        PROVE  UNCHANGED forceOnce
    BY <2>8 DEF PollStep, FetchServed, FetchRetried, FetchRefused,
       FetchTimedOut, FetchFailed, ProbeAnswers, HoldValues, StartEmpty,
       ReportUnreachable, StartProbe, RaiseUpdateFailed, EndPoll, flags
  <2>9. QED
    BY <2>3, <2>4, <2>5, <2>6, <2>7, <2>8 DEF Next
<1>2. Spec => [][ForceFlagStep]_vars
  BY <1>1, Invariance, PTL DEF Spec
<1>3. QED
  BY <1>2 DEF ForceFlagStep, ForceFlagBuysFetch
=============================================================================
