------------------------ MODULE EndpointHealthProofs ------------------------
(***************************************************************************)
(* Safety of EndpointHealth for any number of endpoints, any limit and any *)
(* library.  The verdict is sound because the strikes lie between two      *)
(* histories: every loss is a strike and every strike is a miss.           *)
(***************************************************************************)
EXTENDS EndpointHealth, TLAPS

Bracket == \A e \in Optional : lost[e] <= strikes[e] /\ strikes[e] <= missed[e]

SnapshotExact ==
  /\ \A e \in snapshot.degraded : strikes[e] >= HEALTH_DRIFT_STRIKE_LIMIT
  /\ \A e \in Optional :
       lost[e] >= HEALTH_DRIFT_STRIKE_LIMIT => e \in snapshot.degraded

PremiseSound ==
  /\ premise = "refused" => ~anonymous
  /\ at = "rereading" => ~anonymous

Judging == {"checking", "rereading", "concluding"}

(* What is judged is an endpoint the loop asked for, after the first.      *)
JudgesAsked == at \in Judging => next \in Optional

IInv == TypeOK /\ Bracket /\ SnapshotExact /\ PremiseSound /\ JudgesAsked

-----------------------------------------------------------------------------

(* Counting up to the bound stays within it and keeps an order.            *)
LEMMA CountedOrder ==
  ASSUME NEW m \in 0..MaxStrikes, NEW n \in 0..MaxStrikes
  PROVE  /\ Counted(n) \in 0..MaxStrikes
         /\ m <= n => Counted(m) <= Counted(n)
         /\ m <= n => m <= Counted(n)
BY EndpointsAssumption DEF Counted

(* Forgetting a poll leaves its locals typed.                              *)
LEMMA ForgetTyped ==
  ASSUME Forget
  PROVE  /\ next' \in 1..(Count + 1) /\ clock' \in {"early", "late", "over"}
         /\ reread' \in BOOLEAN /\ outcome' \in [Endpoints -> Outcomes]
<1>1. next' \in 1..(Count + 1)
  BY EndpointsAssumption DEF Forget, Critical
<1>2. clock' \in {"early", "late", "over"} /\ reread' \in BOOLEAN
  BY DEF Forget
<1>3. outcome' \in [Endpoints -> Outcomes]
  BY DEF Forget, Outcomes
<1> QED
  BY <1>1, <1>2, <1>3

(* A recorded outcome leaves the map and the position typed.               *)
LEMMA RecordTyped ==
  ASSUME TypeOK, NEW e \in Endpoints, e = next, NEW o \in Outcomes, Record(e, o)
  PROVE  next' \in 1..(Count + 1) /\ outcome' \in [Endpoints -> Outcomes]
BY EndpointsAssumption DEF TypeOK, Record, Endpoints

LEMMA InitSound == Init => IInv
<1> SUFFICES ASSUME Init PROVE IInv
  OBVIOUS
<1>1. TypeOK
  <2>1. serves \subseteq Endpoints /\ Critical \in serves
    BY EndpointsAssumption DEF Init, Endpoints, Critical, Optional, Supported
  <2>2. oldLibrary \in BOOLEAN /\ anonymous \in BOOLEAN
    BY DEF Init
  <2>3. /\ router \in {"unsteady", "steady"} /\ session \in {"none", "live", "ended"}
        /\ at \in {"idle", "start", "fetching", "checking", "rereading", "concluding"}
        /\ clock \in {"early", "late", "over"}
        /\ premise \in {"none", "refused", "served"}
    BY DEF Init
  <2>4. again \in BOOLEAN /\ reread \in BOOLEAN
    BY DEF Init
  <2>5. next \in 1..(Count + 1) /\ answered \subseteq Endpoints
    BY EndpointsAssumption DEF Init, Critical
  <2>6. outcome \in [Endpoints -> Outcomes]
    BY DEF Init, Outcomes
  <2>7. snapshot \in Snapshot
    BY DEF Init, Snapshot
  <2>8. /\ strikes \in [Optional -> 0..MaxStrikes]
        /\ missed \in [Optional -> 0..MaxStrikes]
        /\ lost \in [Optional -> 0..MaxStrikes]
    BY EndpointsAssumption DEF Init
  <2> QED
    BY <2>1, <2>2, <2>3, <2>4, <2>5, <2>6, <2>7, <2>8 DEF TypeOK
<1>2. Bracket /\ SnapshotExact /\ PremiseSound /\ JudgesAsked
  BY EndpointsAssumption DEF Init, Bracket, SnapshotExact, PremiseSound,
     JudgesAsked, Judging
<1> QED
  BY <1>1, <1>2 DEF IInv

(* A step that serves no poll keeps the verdict, and with it what the      *)
(* histories say.                                                          *)
LEMMA VerdictKept ==
  ASSUME IInv, UNCHANGED verdict
  PROVE  /\ Bracket' /\ SnapshotExact'
         /\ strikes' \in [Optional -> 0..MaxStrikes]
         /\ snapshot' \in Snapshot
         /\ missed' \in [Optional -> 0..MaxStrikes]
         /\ lost' \in [Optional -> 0..MaxStrikes]
BY DEF IInv, TypeOK, verdict, Bracket, SnapshotExact

(* Whatever ends a poll without a verdict.                                 *)
LEMMA PollEnds ==
  ASSUME IInv, Forget, ResetClient, UNCHANGED <<env, answered, verdict>>,
         at' \in {"idle", "start"}, again' \in BOOLEAN
  PROVE  IInv'
<1>1. TypeOK'
  BY ForgetTyped, VerdictKept, EndpointsAssumption
     DEF IInv, TypeOK, env, ResetClient, Supported, Unsupported
<1>2. PremiseSound' /\ JudgesAsked'
  BY DEF PremiseSound, JudgesAsked, Judging, ResetClient
<1> QED
  BY <1>1, <1>2, VerdictKept DEF IInv

LEMMA ExpireSound == ASSUME IInv, Expire PROVE IInv'
<1>1. at' \in {"idle", "start"} /\ again' \in BOOLEAN
  BY DEF IInv, TypeOK, Expire
<1> QED
  BY <1>1, PollEnds DEF Expire

LEMMA PollFailsSound == ASSUME IInv, PollFails PROVE IInv'
<1>1. again' \in BOOLEAN
  BY DEF PollFails
<1> QED
  BY <1>1, PollEnds DEF PollFails

(* A step between two requests of a poll, or of the router: no verdict,    *)
(* and the premise and the re-read stay sound.                             *)
LEMMA QuietStep ==
  ASSUME IInv, TypeOK', UNCHANGED verdict, PremiseSound', JudgesAsked'
  PROVE  IInv'
BY VerdictKept DEF IInv

LEMMA RouterSound ==
  ASSUME IInv, SessionEnds \/ RouterChanges \/ TimePasses \/ RouterSettles
  PROVE  IInv'
<1> USE DEF IInv
<1>1. CASE SessionEnds
  <2>1. TypeOK'
    BY <1>1 DEF TypeOK, SessionEnds, env, poll, verdict, Supported, Unsupported
  <2> QED
    BY <1>1, <2>1, QuietStep DEF SessionEnds, env, poll, PremiseSound, JudgesAsked
<1>2. CASE RouterChanges
  <2>1. PICK e \in Supported :
          serves' = IF e \in serves THEN serves \ {e} ELSE serves \cup {e}
    BY <1>2 DEF RouterChanges
  <2>2. e \in Endpoints /\ e # Critical
    BY <2>1, EndpointsAssumption DEF Supported, Optional, Endpoints, Critical
  <2>3. serves' \subseteq Endpoints /\ Critical \in serves'
    BY <2>1, <2>2 DEF TypeOK
  <2>4. TypeOK'
    BY <1>2, <2>3 DEF TypeOK, RouterChanges, poll, verdict
  <2> QED
    BY <1>2, <2>4, QuietStep DEF RouterChanges, poll, PremiseSound, JudgesAsked
<1>3. CASE TimePasses
  <2>1. TypeOK'
    BY <1>3 DEF TypeOK, TimePasses, env, verdict
  <2> QED
    BY <1>3, <2>1, QuietStep DEF TimePasses, env, PremiseSound, JudgesAsked
<1>4. CASE RouterSettles
  <2>1. TypeOK'
    BY <1>4 DEF TypeOK, RouterSettles, poll, verdict
  <2> QED
    BY <1>4, <2>1, QuietStep DEF RouterSettles, poll, PremiseSound, JudgesAsked
<1> QED
  BY <1>1, <1>2, <1>3, <1>4

LEMMA BeginSound == ASSUME IInv, BeginPoll \/ Connect PROVE IInv'
<1> USE DEF IInv
<1>1. CASE BeginPoll
  <2>1. TypeOK'
    BY <1>1 DEF TypeOK, BeginPoll, env, verdict
  <2> QED
    BY <1>1, <2>1, QuietStep DEF BeginPoll, env, PremiseSound, JudgesAsked, Judging
<1>2. CASE Connect
  <2>1. session' \in {"none", "live", "ended"} /\ premise' \in {"none", "refused", "served"}
    BY <1>2 DEF TypeOK, Connect
  <2>2. outcome' \in [Endpoints -> Outcomes]
    BY <1>2 DEF Connect, Outcomes
  <2>3. next' \in 1..(Count + 1)
    BY <1>2, EndpointsAssumption DEF Connect, Critical
  <2>4. TypeOK'
    BY <1>2, <2>1, <2>2, <2>3 DEF TypeOK, Connect, env, verdict
  <2> QED
    BY <1>2, <2>4, QuietStep DEF Connect, env, PremiseSound, JudgesAsked, Judging
<1> QED
  BY <1>1, <1>2

(* An endpoint's outcome is recorded and the loop goes on.                 *)
LEMMA RecordSound ==
  ASSUME IInv, NEW o \in Outcomes, next \in Endpoints, Record(next, o),
         at' = "fetching", reread' \in BOOLEAN, answered' \subseteq Endpoints,
         UNCHANGED <<env, session, again, clock, premise, verdict>>
  PROVE  IInv'
<1>1. TypeOK'
  BY RecordTyped DEF IInv, TypeOK, env, verdict
<1>2. PremiseSound' /\ JudgesAsked'
  BY DEF IInv, PremiseSound, JudgesAsked, Judging, env
<1> QED
  BY <1>1, <1>2, QuietStep

LEMMA AnswersSound ==
  ASSUME IInv, NEW e \in Endpoints, EndpointAnswers(e) \/ EndpointMissing(e)
  PROVE  IInv'
<1>1. e = next /\ at = "fetching"
  BY DEF EndpointAnswers, EndpointMissing, Asks
<1>2. PICK o \in Outcomes : Record(next, o)
  BY <1>1 DEF EndpointAnswers, EndpointMissing, Outcomes
<1>3. at' = "fetching" /\ reread' \in BOOLEAN /\ answered' \subseteq Endpoints
  BY <1>1 DEF EndpointAnswers, EndpointMissing, IInv, TypeOK
<1>4. UNCHANGED <<env, session, again, clock, premise, verdict>>
  BY DEF EndpointAnswers, EndpointMissing
<1> QED
  BY <1>1, <1>2, <1>3, <1>4, RecordSound

LEMMA SignalsSound ==
  ASSUME IInv, NEW e \in Endpoints, EndpointSignals(e)
  PROVE  IInv'
<1>1. at' \in Judging /\ (at' = "rereading" => premise = "refused")
  BY DEF EndpointSignals, Judge, Judging, IInv, TypeOK
<1>2. next' \in Optional
  BY DEF EndpointSignals, Asks, Supported
<1>3. TypeOK'
  BY <1>1 DEF EndpointSignals, IInv, TypeOK, Judging, env, verdict
<1>4. PremiseSound' /\ JudgesAsked'
  BY <1>1, <1>2 DEF EndpointSignals, IInv, PremiseSound, JudgesAsked, env
<1> QED
  BY <1>3, <1>4, QuietStep DEF EndpointSignals

LEMMA ReadPremiseSound == ASSUME IInv, ReadPremise PROVE IInv'
<1>1. PICK seen \in {"served", "refused", "unknown"} :
        /\ seen = "refused" => ~anonymous
        /\ premise' = Kept(seen) /\ at' = Judge(seen)
  BY DEF ReadPremise, IInv, TypeOK
<1>2. premise' \in {"none", "refused", "served"} /\ at' \in Judging
  BY <1>1 DEF Kept, Judge, Judging, IInv, TypeOK
<1>3. TypeOK'
  BY <1>2 DEF ReadPremise, IInv, TypeOK, Judging, env, verdict
<1>4. PremiseSound'
  BY <1>1 DEF ReadPremise, Kept, Judge, IInv, PremiseSound, env
<1>5. JudgesAsked'
  BY DEF ReadPremise, IInv, JudgesAsked, Judging
<1> QED
  BY <1>3, <1>4, <1>5, QuietStep DEF ReadPremise

LEMMA JudgedSound ==
  ASSUME IInv, at \in Judging, JudgedRefused, reread' \in BOOLEAN
  PROVE  IInv'
<1>1. next \in Endpoints
  BY DEF IInv, JudgesAsked, Optional, Endpoints
<1>2. answered' \subseteq Endpoints
  BY DEF JudgedRefused, IInv, TypeOK
<1>3. "refused" \in Outcomes
  BY DEF Outcomes
<1> QED
  BY <1>1, <1>2, <1>3, RecordSound DEF JudgedRefused

LEMMA JudgementSound == ASSUME IInv, Reread \/ JudgeByHistory PROVE IInv'
<1>1. CASE Reread
  BY <1>1, ExpireSound, JudgedSound DEF Reread, Judging
<1>2. CASE JudgeByHistory
  BY <1>2, ExpireSound, JudgedSound DEF JudgeByHistory, Judging, IInv, TypeOK
<1> QED
  BY <1>1, <1>2

-----------------------------------------------------------------------------
(* The one step that writes the verdict.                                   *)

(* The health of a typed outcome map keeps the strikes between the         *)
(* histories and the verdict exact.                                        *)
LEMMA HealthSound ==
  ASSUME IInv, NEW o \in [Endpoints -> Outcomes], ComputeHealth(o)
  PROVE  /\ Bracket' /\ SnapshotExact'
         /\ strikes' \in [Optional -> 0..MaxStrikes]
         /\ snapshot' \in Snapshot
         /\ missed' \in [Optional -> 0..MaxStrikes]
         /\ lost' \in [Optional -> 0..MaxStrikes]
<1> DEFINE limit == HEALTH_DRIFT_STRIKE_LIMIT
<1>1. 0 \in 0..MaxStrikes
  BY EndpointsAssumption
<1>2. ASSUME NEW e \in Optional
      PROVE  /\ strikes[e] \in 0..MaxStrikes /\ missed[e] \in 0..MaxStrikes
             /\ lost[e] \in 0..MaxStrikes
             /\ lost[e] <= strikes[e] /\ strikes[e] <= missed[e]
  BY DEF IInv, TypeOK, Bracket
<1>3. ASSUME NEW e \in Optional
      PROVE  /\ strikes'[e] = Strike(e, o)
             /\ missed'[e] = IF e \in Missing(o) THEN Counted(missed[e]) ELSE 0
             /\ lost'[e] = IF e \in Missing(o) \cap answered THEN Counted(lost[e]) ELSE 0
  BY DEF ComputeHealth
<1>4. NotServed(o) = {e \in Missing(o) : o[e] = "refused" /\ e \notin answered}
  BY DEF NotServed
<1>5. ASSUME NEW e \in Optional
      PROVE  /\ strikes'[e] \in 0..MaxStrikes /\ missed'[e] \in 0..MaxStrikes
             /\ lost'[e] \in 0..MaxStrikes
             /\ lost'[e] <= strikes'[e] /\ strikes'[e] <= missed'[e]
             /\ lost'[e] # 0 => e \notin NotServed(o)
  <2>1. CASE e \in NotServed(o)
    <3>1. e \in Missing(o) /\ e \notin answered
      BY <2>1, <1>4
    <3>2. strikes'[e] = strikes[e] /\ missed'[e] = Counted(missed[e]) /\ lost'[e] = 0
      BY <1>3, <2>1, <3>1 DEF Strike
    <3> QED
      BY <1>1, <1>2, <3>2, CountedOrder
  <2>2. CASE e \in Missing(o) \ NotServed(o)
    <3>1. strikes'[e] = Counted(strikes[e]) /\ missed'[e] = Counted(missed[e])
      BY <1>3, <2>2 DEF Strike
    <3>2. lost'[e] \in {Counted(lost[e]), 0}
      BY <1>3
    <3>3. /\ Counted(lost[e]) \in 0..MaxStrikes /\ Counted(strikes[e]) \in 0..MaxStrikes
          /\ Counted(missed[e]) \in 0..MaxStrikes
          /\ Counted(lost[e]) <= Counted(strikes[e])
          /\ Counted(strikes[e]) <= Counted(missed[e])
      BY <1>2, CountedOrder
    <3> QED
      BY <1>1, <2>2, <3>1, <3>2, <3>3
  <2>3. CASE e \notin Missing(o)
    <3>1. strikes'[e] = 0 /\ missed'[e] = 0 /\ lost'[e] = 0
      BY <1>3, <1>4, <2>3 DEF Strike
    <3> QED
      BY <1>1, <3>1
  <2> QED
    BY <2>1, <2>2, <2>3, <1>4
<1>6. /\ strikes' \in [Optional -> 0..MaxStrikes]
      /\ missed' \in [Optional -> 0..MaxStrikes]
      /\ lost' \in [Optional -> 0..MaxStrikes]
  <2>1. /\ strikes' = [e \in Optional |-> strikes'[e]]
        /\ missed' = [e \in Optional |-> missed'[e]]
        /\ lost' = [e \in Optional |-> lost'[e]]
    BY DEF ComputeHealth
  <2> QED
    BY <1>5, <2>1
<1>7. Bracket'
  BY <1>5 DEF Bracket
<1>8. snapshot'.degraded = {e \in Optional \ NotServed(o) : strikes'[e] >= limit}
  BY DEF ComputeHealth
<1>9. SnapshotExact'
  <2>1. \A e \in snapshot'.degraded : strikes'[e] >= limit
    BY <1>8
  <2>2. ASSUME NEW e \in Optional, lost'[e] >= limit PROVE e \in snapshot'.degraded
    <3>1. strikes'[e] >= limit /\ lost'[e] # 0
      BY <1>5, <2>2, EndpointsAssumption
    <3> QED
      BY <1>5, <1>8, <3>1
  <2> QED
    BY <2>1, <2>2 DEF SnapshotExact
<1>10. snapshot' \in Snapshot
  <2>1. snapshot'.degraded \subseteq Optional /\ NotServed(o) \subseteq Optional
    BY <1>8 DEF NotServed, Missing
  <2>2. Severity(snapshot'.degraded, o) \in {"ok", "degraded", "warning"}
    BY DEF Severity
  <2>3. snapshot' = [severity |-> Severity(snapshot'.degraded, o),
                     degraded |-> snapshot'.degraded, not_served |-> NotServed(o)]
    BY DEF ComputeHealth
  <2> HIDE DEF limit
  <2> QED
    BY <2>1, <2>2, <2>3 DEF Snapshot
<1> QED
  BY <1>6, <1>7, <1>9, <1>10

LEMMA ServeSound == ASSUME IInv, ServePoll PROVE IInv'
<1> DEFINE final == [e \in Endpoints |-> IF e >= next THEN "skipped" ELSE outcome[e]]
<1>1. final \in [Endpoints -> Outcomes]
  BY DEF IInv, TypeOK, Outcomes
<1>2. ComputeHealth(final)
  BY DEF ServePoll
<1>3. TypeOK'
  <2> HIDE DEF final
  <2> QED
    BY <1>1, <1>2, HealthSound, ForgetTyped
       DEF ServePoll, IInv, TypeOK, env, Supported, Unsupported
<1>4. PremiseSound' /\ JudgesAsked'
  BY DEF ServePoll, IInv, PremiseSound, JudgesAsked, Judging, env
<1> HIDE DEF final
<1> QED
  BY <1>1, <1>2, <1>3, <1>4, HealthSound DEF IInv

-----------------------------------------------------------------------------
(* The theorems.                                                           *)

LEMMA StepSound == ASSUME IInv, [Next]_vars PROVE IInv'
<1>1. CASE SessionEnds \/ RouterChanges \/ TimePasses \/ RouterSettles
  BY <1>1, RouterSound
<1>2. CASE PollFails
  BY <1>2, PollFailsSound
<1>3. CASE BeginPoll \/ Connect
  BY <1>3, BeginSound
<1>4. CASE \E e \in Endpoints :
             EndpointAnswers(e) \/ EndpointMissing(e) \/ EndpointSignals(e)
  BY <1>4, AnswersSound, SignalsSound
<1>5. CASE CriticalSignals
  BY <1>5, ExpireSound DEF CriticalSignals
<1>6. CASE ReadPremise
  BY <1>6, ReadPremiseSound
<1>7. CASE Reread \/ JudgeByHistory
  BY <1>7, JudgementSound
<1>8. CASE ServePoll
  BY <1>8, ServeSound
<1>9. CASE UNCHANGED vars
  <2>1. UNCHANGED verdict /\ TypeOK' /\ PremiseSound' /\ JudgesAsked'
    BY <1>9 DEF vars, env, poll, verdict, IInv, TypeOK, PremiseSound,
       JudgesAsked, Supported, Unsupported
  <2> QED
    BY <2>1, QuietStep
<1> QED
  BY <1>1, <1>2, <1>3, <1>4, <1>5, <1>6, <1>7, <1>8, <1>9 DEF Next, PollStep

THEOREM Inductive == Spec => []IInv
<1>1. Init => IInv
  BY InitSound
<1>2. IInv /\ [Next]_vars => IInv'
  BY StepSound
<1> QED
  BY <1>1, <1>2, PTL DEF Spec

(* Every variable of a fetch and of the verdict keeps its type.            *)
THEOREM TypeCorrect == Spec => []TypeOK
<1>1. IInv => TypeOK
  BY DEF IInv
<1> QED
  BY <1>1, Inductive, PTL

(* Integration Health calls an endpoint degraded only after as many misses *)
(* in a row as the limit says.                                             *)
THEOREM NoFalseAlarm == Spec => []DegradedWasMissed
<1>1. IInv => DegradedWasMissed
  <2> SUFFICES ASSUME IInv, NEW e \in snapshot.degraded
               PROVE  missed[e] >= HEALTH_DRIFT_STRIKE_LIMIT
    BY DEF DegradedWasMissed
  <2>1. e \in Optional
    BY DEF IInv, TypeOK, Snapshot
  <2>2. strikes[e] >= HEALTH_DRIFT_STRIKE_LIMIT /\ strikes[e] <= missed[e]
    BY <2>1 DEF IInv, SnapshotExact, Bracket
  <2>3. strikes[e] \in Nat /\ missed[e] \in Nat
    BY <2>1, EndpointsAssumption DEF IInv, TypeOK
  <2> QED
    BY <2>2, <2>3, EndpointsAssumption
<1> QED
  BY <1>1, Inductive, PTL

(* An endpoint that answered and was then missing that often is degraded.  *)
THEOREM NoSilentLoss == Spec => []LossReported
<1>1. IInv => LossReported
  BY DEF IInv, SnapshotExact, LossReported
<1> QED
  BY <1>1, Inductive, PTL

(* The re-read finds every session that has ended.                         *)
THEOREM RereadFindsEnd == Spec => RereadIsSound
<1>1. IInv /\ [Next]_vars
        => [Reread /\ ~reread /\ session = "ended" => session' = "none"]_vars
  <2> SUFFICES ASSUME IInv, Reread, ~reread, session = "ended"
               PROVE  session' = "none"
    OBVIOUS
  <2>1. ~Answers(Critical)
    BY DEF Answers, Reachable, Reread, IInv, PremiseSound
  <2> QED
    BY <2>1 DEF Reread, Expire, ResetClient
<1> QED
  BY <1>1, Inductive, PTL DEF Spec, RereadIsSound
=============================================================================
