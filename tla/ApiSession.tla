----------------------------- MODULE ApiSession -----------------------------
(***************************************************************************)
(* HuaweiRouter5GAPI of api.py: the one session with the router, the       *)
(* asyncio lock in front of it and the worker threads behind it.           *)
(*                                                                         *)
(* A call is one invocation of a public method.  Between two awaits it is  *)
(* alone on the event loop; it suspends for the lock, for a login, for a   *)
(* worker thread, or while the radio settles.  A timeout imposed from      *)
(* outside cancels the await and never the thread: the thread becomes an   *)
(* orphan and may still reach the router.                                  *)
(*                                                                         *)
(* A login is named by the generation its own reset began, so a client and *)
(* the login that made it have the same number, and 0 is no client.  The   *)
(* two resets of a stale client (inactivity, then login) are counted once: *)
(* generations are only compared.  The lock is granted to any waiter; its  *)
(* FIFO order is left out.                                                 *)
(*                                                                         *)
(* Of the router's own state the model has the network mode, which         *)
(* `set_net_mode` reads back.  A command takes effect when the router      *)
(* accepts it; for a moment the router may still show the mode before it.  *)
(***************************************************************************)
EXTENDS Naturals

CONSTANTS Calls,   \* the invocations
          Ops,     \* the methods they may be
          Probes,  \* how many DIAGNOSTIC_PROBES there are
          NoCall,  \* nobody holds the lock
          Modes,   \* the network modes
          StartMode \* the one the router begins in

AllOps == {"poll", "write", "reboot", "reconnect", "netmode", "read_back",
           "modes", "login", "logout", "sweep"}

ASSUME CallsAssumption ==
  /\ NoCall \notin Calls
  /\ Probes \in Nat \ {0}
  /\ Ops \subseteq AllOps
  /\ StartMode \in Modes

VARIABLES
  call,        \* call[c]: the progress of invocation c
  holder,      \* _lock_owner, the task inside _locked
  client,      \* _client: 0 or the login it came from
  generation,  \* _generation
  premise,     \* _premise_cache: 0 or the generation it was measured in
  mode,        \* the router's NetworkMode, ...
  before,      \* ... and the one a first read after a change may show
  overtaken    \* history: the generations of the workers that stood between
               \* their check of the generation and their write at the last reset

vars == <<call, holder, client, generation, premise, mode, before, overtaken>>

Steps == {"none", "fetch", "bands", "disconnect", "command", "confirm",
          "reconfirm", "read", "login", "logout", "probe", "check", "repeat"}

CallState ==
  [op      : AllOps \cup {"none"},
   at      : {"idle", "waiting", "login", "working", "settling", "done"},
   step    : Steps,         \* what the worker is asked to do
   again   : BOOLEAN,       \* the one retry is spent
   mine    : Nat,           \* the client in use, or the login under way
   gen     : Nat,           \* the generation a fetch began on
   orphan  : {"none", "login", "working"},
   probe   : Nat,           \* the sweep: the probe it is at, ...
   lost    : Nat,           \* ... and its sweep_sessions_lost
   checked : BOOLEAN,       \* its worker is about to write the premise
   verdict : {"none", "ok", "unverified", "failed", "rebuilt"},
   target  : Modes,         \* the mode a netmode call asks for
   applied : Nat]           \* history: times the command took effect

TypeOK ==
  /\ call \in [Calls -> CallState]
  /\ \A c \in Calls :
       call[c].at \in {"waiting", "login", "working"} => call[c].step # "none"
  /\ holder \in Calls \cup {NoCall}
  /\ client \in Nat /\ generation \in Nat /\ premise \in Nat
  /\ mode \in Modes /\ before \in Modes /\ overtaken \subseteq Nat

Fresh == [op |-> "none", at |-> "idle", step |-> "none", again |-> FALSE,
          mine |-> 0, gen |-> 0, orphan |-> "none", probe |-> 0, lost |-> 0,
          checked |-> FALSE, verdict |-> "none",
          target |-> StartMode, applied |-> 0]

Init ==
  /\ call = [c \in Calls |-> Fresh]
  /\ holder = NoCall
  /\ client = 0 /\ generation = 0 /\ premise = 0
  /\ mode = StartMode /\ before = StartMode /\ overtaken = {}

Writes    == {"write", "reboot", "reconnect", "netmode"}
InLibrary == {"login", "working"}
SweepSteps == {"probe", "check", "repeat"}

FirstStepForgotten(op) ==                      \* mutant: reads have no step
  IF op = "poll" THEN "fetch" ELSE IF op \in Writes THEN "command" ELSE "none"

FirstStep(op) ==
  CASE op = "poll"                -> "fetch"
    [] op \in {"write", "reboot"} -> "command"
    [] op = "reconnect"           -> "disconnect"
    [] op = "netmode"             -> "bands"
    [] op = "sweep"               -> "probe"
    [] OTHER                      -> "read"

-----------------------------------------------------------------------------
(* What the handlers are made of.                                          *)

(* A call goes on as s.  A mode change that takes effect by it, or by the  *)
(* thread it left behind, gives the router the mode of that call.          *)
TakesMode(c, s) == s.op = "netmode" /\ s.applied > call[c].applied

Update(c, s) ==
  /\ call' = [call EXCEPT ![c] = s]
  /\ mode' = IF TakesMode(c, s) THEN s.target ELSE mode
  /\ before' = IF TakesMode(c, s) THEN mode ELSE before

Release(c) == holder' = IF holder = c THEN NoCall ELSE holder

(* `_reset_client`                                                         *)
Reset ==
  /\ generation' = generation + 1 /\ client' = 0 /\ premise' = 0
  /\ overtaken' = {call[c].gen : c \in {d \in Calls : call[d].checked}}
SameSession == UNCHANGED <<generation, client, premise, overtaken>>

(* A worker is started; a fetch and the sweep note the generation.         *)
Work(c, step, mine, again) ==
  Update(c, [call[c] EXCEPT
    !.at = "working", !.step = step, !.mine = mine, !.again = again,
    !.gen = IF step \in {"fetch"} \cup SweepSteps THEN generation ELSE 0])

(* `_login_internal` up to its thread.                                     *)
Login(c, step, again) ==
  /\ Reset
  /\ Update(c, [call[c] EXCEPT !.at = "login", !.step = step, !.again = again,
                               !.mine = generation + 1])

(* `_ensure_client` and the work after it.  Any client may be 100 s idle.  *)
Proceed(c, step) ==
  LET again == call[c].op = "poll" /\ call[c].again
  IN  \/ client # 0 /\ Work(c, step, client, again) /\ SameSession
      \/ Login(c, step, again)

(* A call that ended keeps what it did to the router and what it reported. *)
Ended(s, verdict) ==
  [s EXCEPT !.at = "done", !.verdict = verdict, !.step = "none",
            !.again = FALSE, !.mine = 0, !.gen = 0, !.probe = 0, !.lost = 0]

Finish(c, verdict) ==
  /\ Update(c, Ended(call[c], verdict))
  /\ Release(c)

(* An exception leaves the worker or the login.  `why` "auth" is           *)
(* HuaweiAuthError, which the coordinator answers with a second get_data.  *)
ResetsOnError(c) == \/ call[c].op \in {"reboot", "reconnect"}
                    \/ call[c].step = "fetch" /\ call[c].at = "working"

Raise(c, why) ==
  \/ /\ call[c].step = "bands"            \* swallowed: the fallback bands
     /\ Proceed(c, "command")
     /\ UNCHANGED holder
  \/ /\ call[c].step # "bands"
     /\ IF ResetsOnError(c) THEN Reset
        ELSE /\ client' = IF call[c].at = "login" THEN 0 ELSE client
             /\ UNCHANGED <<generation, premise, overtaken>>
     /\ \/ /\ call[c].op = "poll" /\ why = "auth" /\ ~call[c].again
           /\ Update(c, [call[c] EXCEPT !.at = "waiting", !.again = TRUE,
                                        !.mine = 0, !.gen = 0])
           /\ Release(c)
        \/ /\ call[c].op = "poll" => why # "auth" \/ call[c].again
           /\ Finish(c, CASE call[c].step \in {"read", "confirm", "reconfirm"} -> "unverified"
                          [] call[c].step = "repeat" -> "ok"   \* what the sweep has
                          [] OTHER -> "failed")

-----------------------------------------------------------------------------
(* A call begins.  Selects run one at a time (PARALLEL_UPDATES).           *)
(* `get_supported_net_modes`, called once by the setup, takes no lock.     *)

Begin(c, op) ==
  /\ call[c].at = "idle"
  /\ op # "modes"
  /\ op = "netmode" => \A d \in Calls : call[d].op # "netmode" \/ call[d].at = "done"
  /\ \E target \in IF op = "netmode" THEN Modes ELSE {StartMode} :
       Update(c, [call[c] EXCEPT !.op = op, !.at = "waiting",
                                 !.step = FirstStep(op), !.target = target])
  /\ SameSession /\ UNCHANGED holder

BeginModes(c) ==
  /\ call[c].at = "idle"
  /\ \A d \in Calls : call[d].op # "modes"
  /\ \/ /\ client # 0
        /\ Update(c, [call[c] EXCEPT !.op = "modes", !.at = "working",
                        !.step = "read", !.mine = client])
        /\ SameSession
     \/ /\ Reset
        /\ Update(c, [call[c] EXCEPT !.op = "modes", !.at = "login",
                        !.step = "read", !.mine = generation + 1])
  /\ UNCHANGED holder

Acquire(c) ==
  /\ call[c].at = "waiting" /\ holder = NoCall
  /\ \/ /\ call[c].op = "login"
        /\ Login(c, "login", FALSE) /\ holder' = c
     \/ /\ call[c].op = "logout" /\ client = 0
        /\ Reset /\ Finish(c, "ok")
     \/ /\ call[c].op = "logout" /\ client # 0
        /\ Work(c, "logout", client, FALSE) /\ SameSession /\ holder' = c
     \/ /\ call[c].op \notin {"login", "logout"}
        /\ Proceed(c, call[c].step) /\ holder' = c

-----------------------------------------------------------------------------
(* A login answers.  A client is adopted whatever happened meanwhile.      *)

LoginSucceeds(c) ==
  /\ call[c].at = "login"
  /\ client' = call[c].mine
  /\ UNCHANGED <<generation, premise, overtaken>>
  /\ \/ call[c].op = "login" /\ Finish(c, "ok")
     \/ call[c].step = "repeat" /\ Finish(c, "ok")    \* past the deadline
     \/ /\ call[c].op # "login"
        /\ Work(c, call[c].step, call[c].mine, call[c].again)
        /\ UNCHANGED holder

LoginFails(c) ==
  /\ call[c].at = "login"
  /\ \E why \in {"auth", "conn"} : Raise(c, why)

-----------------------------------------------------------------------------
(* A worker of `_execute_with_retry` answers.  `hit` says whether the      *)
(* command took effect: never when the router refused it or the session    *)
(* had ended, perhaps when the transport broke or the answer was -1.       *)

Hit(c, hit) == [call[c] EXCEPT !.applied = @ + (IF call[c].step = "command" THEN hit ELSE 0)]

NextStep(c) == CASE call[c].step = "bands"      -> "command"
                 [] call[c].step = "disconnect" -> "command"
                 [] OTHER                       -> "none"

WorkAnswers(c) ==
  /\ call[c].at = "working"
  /\ call[c].step \notin {"fetch", "confirm", "reconfirm"} \cup SweepSteps
  /\ \/ /\ NextStep(c) # "none"
        /\ Proceed(c, NextStep(c)) /\ UNCHANGED holder
     \/ /\ NextStep(c) = "none"
        /\ Update(c, Ended(Hit(c, 1), "ok"))
        /\ Release(c)
        /\ IF call[c].op \in {"reboot", "reconnect", "logout"}
           THEN Reset ELSE SameSession

IsExpiryAny(why) == why \in {"expired", "broken"}  \* mutant: retries any error
IsExpiry(why) == why = "expired"

WorkFails(c) ==
  /\ call[c].at = "working" /\ call[c].step \notin {"fetch", "logout"} \cup SweepSteps
  /\ \E why \in {"expired", "refused", "broken"} :
     \E hit \in {0} \cup (IF why = "broken" THEN {1} ELSE {}) :
       \/ /\ IsExpiry(why) /\ ~call[c].again
          /\ Reset
          /\ Update(c, [Hit(c, hit) EXCEPT !.at = "login", !.again = TRUE,
                                           !.mine = generation + 1])
          /\ UNCHANGED holder
       \/ /\ ~(IsExpiry(why) /\ ~call[c].again)
          /\ hit = 0
          /\ Raise(c, why)
       \/ /\ ~(IsExpiry(why) /\ ~call[c].again)
          /\ hit = 1 /\ call[c].step = "command"
          /\ Update(c, Ended(Hit(c, 1), "failed"))
          /\ Release(c)
          /\ IF ResetsOnError(c) THEN Reset ELSE SameSession

LogoutFails(c) ==
  /\ call[c].at = "working" /\ call[c].step = "logout"
  /\ Reset /\ Finish(c, "ok")

(* The network mode answers -1 while the radio re-registers: the lock is   *)
(* released, the radio settles, and `confirm_write` reads back at most     *)
(* twice.  A read may still show the old value, and a mode the router held *)
(* before, or was given by another call, agrees as well as one just set.   *)
AnswerUnknown(c) ==
  /\ call[c].op = "netmode" /\ call[c].at = "working" /\ call[c].step = "command"
  /\ \E hit \in {0, 1} : Update(c, [Hit(c, hit) EXCEPT !.at = "settling",
                                      !.step = "confirm", !.again = FALSE,
                                      !.mine = 0])
  /\ Release(c)
  /\ SameSession

Settles(c) ==
  /\ call[c].at = "settling"
  /\ Update(c, [call[c] EXCEPT !.at = "waiting"])
  /\ SameSession /\ UNCHANGED holder

AgreesAlways(c, shown) == TRUE                 \* mutant: nothing is compared
Agrees(c, shown) == shown = call[c].target

Shown(c) == IF call[c].step = "confirm" THEN {mode, before} ELSE {mode}

ReadBackAnswers(c) ==
  /\ call[c].at = "working" /\ call[c].step \in {"confirm", "reconfirm"}
  /\ SameSession
  /\ \/ \E shown \in Shown(c) : Agrees(c, shown) /\ Finish(c, "ok")
     \/ /\ call[c].step = "confirm"
        /\ \E shown \in Shown(c) : ~Agrees(c, shown)
        /\ Update(c, [call[c] EXCEPT !.at = "settling", !.step = "reconfirm",
                                     !.again = FALSE, !.mine = 0])
        /\ Release(c)
     \/ call[c].step = "reconfirm" /\ ~Agrees(c, mode) /\ Finish(c, "failed")
     \/ Finish(c, "unverified")           \* the key is missing

-----------------------------------------------------------------------------
(* The fetch of a poll, on a thread of its own.  `_read_premise` measures  *)
(* the premise, compares the generation with the one the fetch began on,   *)
(* and writes: nothing keeps the event loop from a reset between the two.  *)

PremiseGuardDropped(c) == TRUE                 \* mutant: an orphan may write
PremiseGuard(c) == call[c].gen = generation

Fetching(c) == /\ call[c].step = "fetch"
               /\ "working" \in {call[c].at, call[c].orphan}

(* The answer is in, and is dropped if it is late.  The cache was found    *)
(* empty before the measurement: another worker may have filled it since.  *)
FetchChecksPremise(c) ==
  /\ Fetching(c) /\ ~call[c].checked
  /\ PremiseGuard(c)
  /\ Update(c, [call[c] EXCEPT !.checked = TRUE])
  /\ SameSession /\ UNCHANGED holder

FetchKeepsPremise(c) ==
  /\ call[c].checked
  /\ premise' = call[c].gen
  /\ Update(c, [call[c] EXCEPT !.checked = FALSE])
  /\ UNCHANGED <<holder, client, generation, overtaken>>

FetchAnswers(c) ==
  /\ call[c].at = "working" /\ call[c].step = "fetch" /\ ~call[c].checked
  /\ \/ Finish(c, "ok") /\ SameSession
     \/ \E why \in {"auth", "conn"} : Raise(c, why)

-----------------------------------------------------------------------------
(* The sweep of the diagnostics download asks every probe once, under the  *)
(* lock, on a client it keeps for itself, and stops when FETCH_DEADLINE    *)
(* has passed or that client was reset: by a poll that timed out while it  *)
(* waited for the sweep, or by the probe of one that failed before.        *)

ClientResetNever(c) == FALSE                   \* mutant: only the deadline
ClientReset(c) == call[c].gen # generation

(* The loop goes round, or the sweep returns what it has.                  *)
NextProbe(c) ==
  \/ /\ call[c].probe + 1 < Probes /\ ~ClientReset(c)
     /\ Update(c, [call[c] EXCEPT !.step = "probe", !.probe = @ + 1])
     /\ UNCHANGED holder
  \/ Finish(c, "ok")

(* A probe answers, its session proves sound, or its repetition ends.      *)
ProbeSettled(c) ==
  /\ call[c].at = "working" /\ call[c].step \in SweepSteps
  /\ NextProbe(c)
  /\ SameSession

(* It does not answer, and `_session_is_lost` reads device_information.    *)
ProbeUnanswered(c) ==
  /\ call[c].at = "working" /\ call[c].step = "probe"
  /\ ~ClientReset(c)
  /\ Update(c, [call[c] EXCEPT !.step = "check"])
  /\ SameSession /\ UNCHANGED holder

(* 100003: `_relogin_for_sweep`, twice at most.                            *)
SessionLost(c) ==
  /\ call[c].at = "working" /\ call[c].step = "check" /\ call[c].lost < 2
  /\ Reset
  /\ Update(c, [call[c] EXCEPT !.at = "login", !.step = "repeat", !.lost = @ + 1,
                               !.mine = generation + 1])
  /\ UNCHANGED holder

-----------------------------------------------------------------------------
(* The timeouts.                                                           *)

(* LOCK_TIMEOUT raises.  A poll never reaches it: FETCH_TIMEOUT is half.   *)
LockTimeoutNever(c) == FALSE                   \* mutant: wait for ever
LockTimeout(c) ==
  /\ call[c].at = "waiting" /\ call[c].op # "poll"
  /\ holder # NoCall
  /\ Finish(c, "failed")
  /\ SameSession

Abandon(c, verdict) ==
  Update(c, IF call[c].at \in InLibrary
            THEN [call[c] EXCEPT !.at = "done", !.verdict = verdict,
                                 !.orphan = call[c].at]
            ELSE Ended(call[c], verdict))

(* FETCH_TIMEOUT of the coordinator, which then calls `invalidate`.        *)
PollTimeoutKeepsClient(c) ==                   \* mutant: no invalidate
  /\ call[c].op = "poll" /\ call[c].at \in InLibrary \cup {"waiting"}
  /\ Abandon(c, "failed") /\ Release(c)
  /\ SameSession

PollTimeout(c) ==
  /\ call[c].op = "poll" /\ call[c].at \in InLibrary \cup {"waiting"}
  /\ Abandon(c, "failed") /\ Release(c)
  /\ Reset

(* A failed poll may go on to `probe_liveness`, which takes no lock and     *)
(* opens a connection of its own.  Unless that fails too, the connection   *)
(* is rebuilt, under whatever call is then at work.                        *)
ProbeLiveness(c) ==
  /\ call[c].op = "poll" /\ call[c].at = "done" /\ call[c].verdict = "failed"
  /\ Update(c, [call[c] EXCEPT !.verdict = "rebuilt"])
  /\ Reset
  /\ UNCHANGED holder

(* WRITE_TIMEOUT of `_write_deadline`: not an error.  The wait for the     *)
(* first lock ends at LOCK_TIMEOUT, before it.                             *)
WriteDeadlineKeepsLock(c) ==                   \* mutant: the lock stays held
  /\ call[c].op \in Writes
  /\ \/ call[c].at \in InLibrary \cup {"settling"}
     \/ call[c].at = "waiting" /\ call[c].step \in {"confirm", "reconfirm"}
  /\ Abandon(c, "unverified")
  /\ SameSession /\ UNCHANGED holder

WriteDeadline(c) ==
  /\ call[c].op \in Writes
  /\ \/ call[c].at \in InLibrary \cup {"settling"}
     \/ call[c].at = "waiting" /\ call[c].step \in {"confirm", "reconfirm"}
  /\ Abandon(c, "unverified") /\ Release(c)
  /\ SameSession

(* An orphaned thread runs to its end and its result is dropped.           *)
OrphanReturns(c) ==
  /\ call[c].orphan # "none" /\ ~call[c].checked
  /\ \E hit \in {0, 1} :
       /\ hit = 1 => call[c].orphan = "working" /\ call[c].step = "command"
       /\ Update(c, Ended([Hit(c, hit) EXCEPT !.orphan = "none"], call[c].verdict))
  /\ SameSession /\ UNCHANGED holder

Timeout(c) == LockTimeout(c) \/ PollTimeout(c) \/ WriteDeadline(c)

CallStep(c) ==
  \/ Acquire(c) \/ LoginSucceeds(c) \/ LoginFails(c)
  \/ WorkAnswers(c) \/ WorkFails(c) \/ LogoutFails(c)
  \/ AnswerUnknown(c) \/ Settles(c) \/ ReadBackAnswers(c)
  \/ FetchChecksPremise(c) \/ FetchKeepsPremise(c)
  \/ FetchAnswers(c)
  \/ ProbeSettled(c) \/ ProbeUnanswered(c) \/ SessionLost(c)
  \/ ProbeLiveness(c) \/ Timeout(c) \/ OrphanReturns(c)

Next == \E c \in Calls :
  \/ \E op \in Ops \ {"modes"} : Begin(c, op)
  \/ "modes" \in Ops /\ BeginModes(c)
  \/ CallStep(c)

(* The event loop runs what is runnable and its timers fire.  No worker    *)
(* thread and no router owes an answer.                                    *)
LoopStep(c) == Acquire(c) \/ Settles(c) \/ Timeout(c)

Fairness == \A c \in Calls : WF_vars(LoopStep(c))

Spec == Init /\ [][Next]_vars /\ Fairness

-----------------------------------------------------------------------------
(* Safety properties.                                                      *)

(* The lock is held exactly by the call that is logging in or waiting for  *)
(* its worker under it: it is given back on every way out, among them the  *)
(* cancellations, a settling radio does not hold it, and no path waits for *)
(* a lock it already owns.                                                 *)
LockSound == \A c \in Calls :
  holder = c <=> call[c].at \in InLibrary /\ call[c].op # "modes"

(* A command with a real-world effect (an SMS, a reboot) takes effect at   *)
(* most once per call, through the retry, the deadline and its orphan.     *)
AtMostOnce == \A c \in Calls : call[c].applied <= 1

(* A write that returns without complaint took effect.  A network mode     *)
(* confirmed after a -1 may be one the router had, or was given by another *)
(* call, an abandoned one included; it is never one nobody set.            *)
SetByAnother(c) ==
  \/ call[c].target = StartMode
  \/ \E d \in Calls \ {c} : /\ call[d].op = "netmode" /\ call[d].applied = 1
                            /\ call[d].target = call[c].target

OkMeansApplied == \A c \in Calls :
  call[c].op \in Writes /\ call[c].verdict = "ok"
    => \/ call[c].applied = 1
       \/ call[c].op = "netmode" /\ SetByAnother(c)

(* The client a timed-out poll left its worker on is never used again.     *)
WedgedClientDropped == \A c \in Calls :
  call[c].op = "poll" /\ call[c].orphan # "none" => client # call[c].mine

(* The premise kept was measured since the last reset: an orphan's answer  *)
(* does not stand for a router that was restarted since.  Only a reset     *)
(* that falls between a worker's check of the generation and its write     *)
(* lets an older one through.                                              *)
PremiseIsCurrent ==
  premise # 0 => premise = generation \/ premise \in overtaken

(* A request of the sweep goes out on the client the API holds and never   *)
(* on one that was dropped under it, although it keeps a reference of its  *)
(* own across awaits (the mode list of the setup, which takes no lock,     *)
(* apart).                                                                 *)
SweepAsksCurrent == \A c \in Calls :
  /\ call'[c].op = "sweep" /\ call'[c].at = "working" /\ call'[c] # call[c]
  /\ \A d \in Calls : call'[d].op # "modes"
  => call'[c].mine = client'
SweepOnCurrentClient == [][SweepAsksCurrent]_vars

-----------------------------------------------------------------------------
(* Liveness: a worker that never answers.                                  *)

(* Polls and writes give the lock back although no thread ever returns.    *)
WedgedWorkerFreesLock == \A c \in Calls :
  holder = c /\ call[c].op \in Writes \cup {"poll"} ~> holder # c

(* Nobody waits for the lock for ever.                                     *)
EveryWaitEnds == \A c \in Calls :
  call[c].at = "waiting" ~> call[c].at # "waiting"
=============================================================================
