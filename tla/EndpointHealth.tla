--------------------------- MODULE EndpointHealth ---------------------------
(***************************************************************************)
(* One poll's fetch, endpoint by endpoint (`get_data` of api.py), and the  *)
(* health computed from it (`_compute_health` of coordinator.py).          *)
(*                                                                         *)
(* The router answers 100003 both to a read it refuses and to every read   *)
(* of a session that has ended.  The fetch tells the two apart with an     *)
(* anonymous check of `device_information` (the premise), a second read of *)
(* it (the re-read), or the history of what has answered; each is a        *)
(* request, so sessions end and time passes between them.                  *)
(*                                                                         *)
(* Endpoints are numbered in the order the fetch asks for them.  Threads   *)
(* orphaned by a timeout are the business of ApiSession, and the verdicts  *)
(* of failed polls that of PollCycle.                                      *)
(***************************************************************************)
EXTENDS Naturals

CONSTANTS
  Count,                      \* the endpoints a poll reads
  Signal,                     \* device_signal
  Added,                      \* those a recent library adds
  HEALTH_DRIFT_STRIKE_LIMIT,
  MaxStrikes                  \* bound on the strikes counted

ASSUME EndpointsAssumption ==
  /\ Count \in Nat \ {0} /\ Signal \in 2..Count
  /\ Added \subseteq 2..Count /\ Signal \notin Added
  /\ HEALTH_DRIFT_STRIKE_LIMIT \in Nat \ {0}
  /\ MaxStrikes \in Nat /\ MaxStrikes >= HEALTH_DRIFT_STRIKE_LIMIT

VARIABLES
  oldLibrary,  \* the loaded library predates them
  serves,      \* the endpoints the router serves
  anonymous,   \* `device_information` is served without a login
  router,      \* "steady": no more faults of any kind
  session,     \* our client: "none", or its session "live" or "ended"
  at,          \* where the poll is suspended
  again,       \* this is the second get_data of the poll
  next,        \* the endpoint to be asked, or whose signal is judged
  clock,       \* "early" within ADJUDICATION_BUDGET, "over" FETCH_DEADLINE
  reread,      \* reread_live
  outcome,     \* endpoint_outcomes
  premise,     \* _premise_cache
  answered,    \* _answered
  strikes,     \* _endpoint_strikes
  snapshot,    \* health_snapshot of the last poll served
  missed,      \* history: consecutive polls without the endpoint
  lost         \* history: those of them after it had answered

env     == <<oldLibrary, serves, anonymous, router>>
poll    == <<at, again, next, clock, reread, outcome>>
verdict == <<strikes, snapshot, missed, lost>>
vars    == <<env, session, poll, premise, answered, verdict>>

Endpoints == 1..Count
Critical  == 1         \* device_information
Optional  == 2..Count
Unsupported == IF oldLibrary THEN Added ELSE {}
Supported   == Optional \ Unsupported

Outcomes == {"none", "answered", "blank", "refused", "unavailable",
             "unsupported", "skipped"}

Snapshot == [severity   : {"ok", "degraded", "warning"},
             degraded   : SUBSET Optional,
             not_served : SUBSET Optional]

TypeOK ==
  /\ serves \subseteq Endpoints /\ Critical \in serves
  /\ oldLibrary \in BOOLEAN /\ anonymous \in BOOLEAN
  /\ router \in {"unsteady", "steady"}
  /\ session \in {"none", "live", "ended"}
  /\ at \in {"idle", "start", "fetching", "checking", "rereading",
            "concluding"}
  /\ again \in BOOLEAN
  /\ next \in 1..(Count + 1)
  /\ clock \in {"early", "late", "over"} /\ reread \in BOOLEAN
  /\ outcome \in [Endpoints -> Outcomes]
  /\ premise \in {"none", "refused", "served"}
  /\ answered \subseteq Endpoints
  /\ strikes \in [Optional -> 0..MaxStrikes]
  /\ snapshot \in Snapshot
  /\ missed \in [Optional -> 0..MaxStrikes]
  /\ lost \in [Optional -> 0..MaxStrikes]

Init ==
  /\ oldLibrary \in BOOLEAN
  /\ serves \in {Endpoints \ S : S \in SUBSET Supported}
  /\ anonymous \in BOOLEAN /\ router = "unsteady"
  /\ session = "none"
  /\ at = "idle" /\ again = FALSE
  /\ next = Critical /\ clock = "early" /\ reread = FALSE
  /\ outcome = [e \in Endpoints |-> "none"]
  /\ premise = "none" /\ answered = {}
  /\ strikes = [e \in Optional |-> 0]
  /\ snapshot = [severity |-> "ok", degraded |-> {}, not_served |-> {}]
  /\ missed = [e \in Optional |-> 0] /\ lost = [e \in Optional |-> 0]

-----------------------------------------------------------------------------
(* The surroundings: until the router is steady, another login may end our *)
(* session, a firmware may change what is served, and requests take time.  *)

Unsteady == router = "unsteady"

SessionEnds ==
  /\ Unsteady /\ session = "live" /\ session' = "ended"
  /\ UNCHANGED <<env, poll, premise, answered, verdict>>

RouterChanges ==
  /\ Unsteady
  /\ \E e \in Supported :
       serves' = IF e \in serves THEN serves \ {e} ELSE serves \cup {e}
  /\ UNCHANGED <<oldLibrary, anonymous, router, session, poll, premise, answered,
                 verdict>>

TimePasses ==
  /\ Unsteady /\ at = "fetching" /\ clock # "over"
  /\ clock' = IF clock = "early" THEN "late" ELSE "over"
  /\ UNCHANGED <<env, session, at, again, next, reread, outcome,
                 premise, answered, verdict>>

RouterSettles ==
  /\ Unsteady /\ router' = "steady"
  /\ UNCHANGED <<oldLibrary, serves, anonymous, session, poll, premise, answered,
                 verdict>>

-----------------------------------------------------------------------------
(* A poll begins, with the client it has or with a new one.                *)

BeginPoll ==
  /\ at = "idle" /\ at' = "start" /\ again' = FALSE
  /\ UNCHANGED <<env, session, next, clock, reread, outcome, premise,
                 answered, verdict>>

(* `_ensure_client`: any client may have been idle for 100 s.              *)
Connect ==
  /\ at = "start" /\ at' = "fetching"
  /\ \/ session # "none" /\ UNCHANGED <<session, premise>>
     \/ session' = "live" /\ premise' = "none"
  /\ next' = Critical /\ clock' = "early" /\ reread' = FALSE
  /\ outcome' = [e \in Endpoints |-> "none"]
  /\ UNCHANGED <<env, again, answered, verdict>>

ResetClient == session' = "none" /\ premise' = "none"

(* What a poll keeps for itself goes with it.  (The outcome map stays for  *)
(* the diagnostics until the next fetch clears it.)                        *)
Forget ==
  /\ next' = Critical /\ clock' = "early"
  /\ reread' = FALSE /\ outcome' = [e \in Endpoints |-> "none"]

ExpireKeepsClient ==                   \* mutant: the client is not reset
  /\ Forget /\ UNCHANGED <<session, premise>>
  /\ again' = ~again
  /\ at' = IF again THEN "idle" ELSE "start"
  /\ UNCHANGED <<env, answered, verdict>>

(* HuaweiAuthError: the coordinator calls get_data once more.              *)
Expire ==
  /\ ResetClient /\ Forget
  /\ again' = ~again
  /\ at' = IF again THEN "idle" ELSE "start"
  /\ UNCHANGED <<env, answered, verdict>>

(* A login or `device_information` fails, or a timeout ends the poll.      *)
PollFails ==
  /\ Unsteady /\ at # "idle" /\ at' = "idle" /\ again' = FALSE
  /\ ResetClient /\ Forget
  /\ UNCHANGED <<env, answered, verdict>>

-----------------------------------------------------------------------------
(* The fetch loop.                                                         *)

(* A refusal comes with a code of its own, or with a signal (100003,       *)
(* 125002, 125003) like every answer to an ended session.                  *)
Reachable(e) == session = "live" \/ (e = Critical /\ anonymous)

Answers(e) == Reachable(e) /\ e \in serves
Signals(e) == ~Reachable(e) \/ e \notin serves
Refuses(e) == Reachable(e) /\ e \notin serves

(* The deadline is checked before each endpoint but the first.             *)
Asks(e) ==
  /\ at = "fetching" /\ e = next
  /\ e # Critical => clock # "over"

Record(e, o) ==
  /\ outcome' = [outcome EXCEPT ![e] = o]
  /\ next' = next + 1

EndpointAnswers(e) ==
  /\ Asks(e) /\ e \notin Unsupported /\ Answers(e)
  /\ \/ Record(e, "answered")
     \/ e = Signal /\ Unsteady /\ Record(e, "blank")
  /\ answered' = answered \cup {e}
  /\ UNCHANGED <<env, session, at, again, clock, reread, premise,
                 verdict>>

EndpointMissing(e) ==
  /\ Asks(e) /\ e # Critical
  /\ \/ e \in Unsupported /\ Record(e, "unsupported")
     \/ e \notin Unsupported /\ Refuses(e) /\ Record(e, "refused")
     \/ e \notin Unsupported /\ Unsteady /\ Record(e, "unavailable")
  /\ UNCHANGED <<env, session, at, again, clock, reread, premise,
                 answered, verdict>>

(* From `device_information` a signal is always an expiry.                 *)
CriticalSignals == Asks(Critical) /\ Signals(Critical) /\ Expire

-----------------------------------------------------------------------------
(* `_judge_signal`: the premise is read if it is unknown, and the re-read  *)
(* made where it holds, if there is time; otherwise the history decides.   *)

JudgeUnconfirmed(p) == "rereading"     \* mutant: the premise is not asked for
Judge(p) == IF p = "refused" THEN "rereading" ELSE "concluding"

EndpointSignals(e) ==
  /\ Asks(e) /\ e \in Supported /\ Signals(e)
  /\ at' = CASE clock = "early" /\ premise = "none" -> "checking"
             [] clock = "early" /\ premise # "none" -> Judge(premise)
             [] clock # "early" -> "concluding"
  /\ UNCHANGED <<env, session, again, next, clock, reread, outcome, premise,
                 answered, verdict>>

(* What the anonymous read shows is kept for the session; that it failed   *)
(* is not.                                                                 *)
KeptUnknown(seen) == seen              \* mutant: a failed check is kept
Kept(seen) == IF seen = "unknown" THEN premise ELSE seen

ReadPremise ==
  /\ at = "checking"
  /\ \E seen \in {IF anonymous THEN "served" ELSE "refused"}
                   \cup (IF Unsteady THEN {"unknown"} ELSE {}) :
       premise' = Kept(seen) /\ at' = Judge(seen)
  /\ UNCHANGED <<env, session, again, next, clock, reread, outcome,
                 answered, verdict>>

JudgedRefused ==
  /\ at' = "fetching"
  /\ Record(next, "refused")
  /\ UNCHANGED <<env, session, again, clock, premise, answered, verdict>>

(* One re-read a poll: once it has answered, the session counts as live.   *)
Reread ==
  /\ at = "rereading"
  /\ \/ (reread \/ Answers(Critical)) /\ reread' = TRUE /\ JudgedRefused
     \/ ~reread /\ Signals(Critical) /\ Expire

HistorySaysExpired == FALSE            \* mutant: a signal is an expiry
HistorySaysRefused == next \notin answered

JudgeByHistory ==
  /\ at = "concluding"
  /\ \/ HistorySaysRefused /\ JudgedRefused /\ UNCHANGED reread
     \/ ~HistorySaysRefused /\ Expire

-----------------------------------------------------------------------------
(* The poll is served: what the deadline left is skipped, and the health   *)
(* computed (`_compute_health`).                                           *)

Missing(o) == {e \in Optional : o[e] \in {"refused", "unavailable", "skipped"}}

NotServedEver(o) ==                    \* mutant: what answered once is as well
  {e \in Missing(o) : o[e] = "refused"}
NotServed(o) == {e \in Missing(o) : o[e] = "refused" /\ e \notin answered}

Counted(n) == IF n < MaxStrikes THEN n + 1 ELSE n

StrikeKept(e, o) ==                    \* mutant: an answer clears nothing
  IF e \in Missing(o) \ NotServed(o) THEN Counted(strikes[e]) ELSE strikes[e]
Strike(e, o) ==
  IF e \in NotServed(o) THEN strikes[e]
  ELSE IF e \in Missing(o) THEN Counted(strikes[e]) ELSE 0

Severity(degraded, o) ==
  IF o[Signal] = "blank" THEN "warning"
  ELSE IF degraded # {} THEN "degraded" ELSE "ok"

ComputeHealth(o) ==
  /\ strikes' = [e \in Optional |-> Strike(e, o)]
  /\ LET degraded == {e \in Optional \ NotServed(o) :
                        strikes'[e] >= HEALTH_DRIFT_STRIKE_LIMIT}
     IN  snapshot' = [severity |-> Severity(degraded, o), degraded |-> degraded,
                      not_served |-> NotServed(o)]
  /\ missed' = [e \in Optional |-> IF e \in Missing(o) THEN Counted(missed[e]) ELSE 0]
  /\ lost' = [e \in Optional |->
                IF e \in Missing(o) \cap answered THEN Counted(lost[e]) ELSE 0]

ServePoll ==
  /\ at = "fetching" /\ next # Critical
  /\ next > Count \/ clock = "over"
  /\ ComputeHealth([e \in Endpoints |-> IF e >= next THEN "skipped" ELSE outcome[e]])
  /\ at' = "idle" /\ again' = FALSE /\ Forget
  /\ UNCHANGED <<env, session, premise, answered>>

-----------------------------------------------------------------------------

PollStep ==
  \/ BeginPoll \/ Connect
  \/ \E e \in Endpoints :
       EndpointAnswers(e) \/ EndpointMissing(e) \/ EndpointSignals(e)
  \/ CriticalSignals \/ ReadPremise \/ Reread \/ JudgeByHistory
  \/ ServePoll

Next ==
  \/ SessionEnds \/ RouterChanges \/ TimePasses \/ RouterSettles
  \/ PollFails \/ PollStep

(* Polls recur, and every request of one ends.                             *)
Spec == Init /\ [][Next]_vars /\ WF_vars(PollStep)

-----------------------------------------------------------------------------
(* Safety properties.                                                      *)

(* No false alarm: what Integration Health calls degraded was missing from *)
(* as many polls in a row as the limit asks, whatever the outcomes between *)
(* them were.                                                              *)
DegradedWasMissed ==
  \A e \in snapshot.degraded : missed[e] >= HEALTH_DRIFT_STRIKE_LIMIT

(* No silent loss: an endpoint that has answered and was then missing from *)
(* that many polls in a row is reported, though refusals take no strike of *)
(* an endpoint that is not served.                                         *)
LossReported ==
  \A e \in Optional : lost[e] >= HEALTH_DRIFT_STRIKE_LIMIT => e \in snapshot.degraded

(* A session that has ended is not taken for a refusal by a re-read, since *)
(* only one that needs a login counts; the later signals of the poll rely  *)
(* on it (docs/huawei_how_to_access.md).                                   *)
RereadIsSound ==
  [][Reread /\ ~reread /\ session = "ended" => session' = "none"]_vars

-----------------------------------------------------------------------------
(* Liveness.                                                               *)

(* A session that has ended is replaced, where `device_information` needs  *)
(* one.                                                                    *)
EndedSessionReplaced == session = "ended" /\ ~anonymous ~> session # "ended"

(* Once the router is steady the verdict becomes the truth for good: what  *)
(* it serves is neither degraded nor not_served, what it refuses is one of *)
(* them.  Where `device_information` is served anonymously two things      *)
(* prevent it, since the history alone decides: an ended session that      *)
(* every endpoint is taken to refuse, and an endpoint that answered once   *)
(* and is refused now, which fails every poll.                             *)
Truthful ==
  /\ snapshot.degraded \cup snapshot.not_served = Supported \ serves
  /\ snapshot.severity # "warning"

Undecidable == anonymous /\ (session = "ended" \/ answered \ serves # {})

HealthSettles == router = "steady" ~> [](Truthful \/ Undecidable)
=============================================================================
