-------------------------- MODULE ApiSessionProofs --------------------------
(***************************************************************************)
(* Proofs of the safety of ApiSession for every set of calls.              *)
(*                                                                         *)
(* Every action replaces the record of one call.  The inductive invariant  *)
(* therefore has two parts: what one record may be (CallSound), and how    *)
(* the records relate to the session (SessionSound, WorkerSound), to the   *)
(* router (ModeSound) and to the premise (CheckSound).  SoundStep shows    *)
(* once that a sound new record and legal moves of session, lock and mode  *)
(* preserve the invariant; each action is                                  *)
(* then shown to be such a step.                                           *)
(***************************************************************************)
EXTENDS ApiSession, TLAPS

(* A write that is under way is on one of the steps of a write.            *)
WriteSteps == {"bands", "disconnect", "command", "confirm", "reconfirm"}

(* The command has not been answered: nothing has taken effect yet.        *)
Uncommitted(s) == /\ s.step \notin {"confirm", "reconfirm"}
                  /\ s.at # "done" \/ s.orphan # "none"

CallSound(s) ==
  /\ s \in CallState
  /\ s.at = "idle" => s = Fresh
  /\ s.at \notin {"idle", "done"} =>
       s.step # "none" /\ (s.op \in Writes <=> s.step \in WriteSteps)
  /\ s.op = "modes" => s.at \in InLibrary \cup {"done"}
  /\ s.at # "done" => s.verdict = "none" /\ s.orphan = "none"
  /\ s.orphan # "none" => s.verdict # "ok"
  /\ s.at \in InLibrary \/ s.orphan # "none" => s.mine # 0
  /\ s.applied <= 1
  /\ Uncommitted(s) => s.applied = 0
  /\ s.op \in Writes \ {"netmode"} /\ s.verdict = "ok" => s.applied = 1
  /\ s.step = "fetch" => s.op = "poll"
  /\ s.step \in {"confirm", "reconfirm"} => s.op = "netmode"
  /\ s.checked => s.step = "fetch" /\ "working" \in {s.at, s.orphan}

(* A mode somebody is accountable for: the first one, or one that one of   *)
(* the calls in f set.                                                     *)
Given(f, m) ==
  \/ m = StartMode
  \/ \E d \in Calls : f[d].op = "netmode" /\ f[d].applied = 1 /\ f[d].target = m

ModeSound ==
  /\ mode \in Modes /\ before \in Modes
  /\ Given(call, mode) /\ Given(call, before)
  /\ \A c \in Calls : call[c].op = "netmode" /\ call[c].verdict = "ok"
                        => Given(call, call[c].target)

(* A worker about to write the premise measured it in this generation, or  *)
(* the last reset fell between its check and its write.                    *)
CheckSound == \A c \in Calls :
  call[c].checked => call[c].gen = generation \/ call[c].gen \in overtaken

(* Logins are numbered by the generation that began them, and the number   *)
(* of a login under way belongs to nobody else.                            *)
SessionSound ==
  /\ client \in Nat /\ generation \in Nat /\ premise \in Nat
  /\ client <= generation
  /\ \A c \in Calls : call[c].mine <= generation /\ call[c].gen <= generation
  /\ \A d \in Calls : call[d].at = "login" =>
       /\ client # call[d].mine
       /\ \A c \in Calls \ {d} : call[c].mine # call[d].mine

(* A worker that began in this generation was given the client the API     *)
(* holds: only a holder of the lock adopts another, the mode list apart.   *)
WorkerSound == (\A d \in Calls : call[d].op # "modes") =>
  \A c \in Calls : call[c].at = "working" /\ call[c].gen = generation =>
                   client = call[c].mine

IInv ==
  /\ call \in [Calls -> CallState]
  /\ \A c \in Calls : CallSound(call[c])
  /\ SessionSound
  /\ holder \in Calls \cup {NoCall}
  /\ LockSound
  /\ WedgedClientDropped
  /\ PremiseIsCurrent
  /\ WorkerSound
  /\ ModeSound
  /\ overtaken \in SUBSET Nat /\ CheckSound

(* How a step of call c to record s may move the session, ...              *)
SessionMove(c, s) ==
  \/ SameSession /\ s.at # "login" /\ s.mine \in {0, call[c].mine, client}
  \/ Reset /\ s.at # "login" /\ s.mine \in {0, call[c].mine}
  \/ Reset /\ s.at = "login" /\ s.mine = generation + 1
  \/ /\ s.at # "login" /\ s.mine \in {0, call[c].mine}
     /\ UNCHANGED <<generation, premise, overtaken>>
     /\ call[c].at = "login" /\ client' \in {0, call[c].mine}
  \/ /\ s.at # "login" /\ s.mine \in {0, call[c].mine}
     /\ UNCHANGED <<client, generation, overtaken>>
     /\ call[c].checked /\ premise' = call[c].gen

(* ... the worker the call waits for, ...                                  *)
WorkerMove(c, s) ==
  /\ s.gen \in {0, call[c].gen, generation}
  /\ s.op = call[c].op \/ call[c].op = "none"
  /\ s.at = "working" =>
       \/ s.mine = client'
       \/ /\ UNCHANGED <<client, generation>> /\ call[c].at = "working"
          /\ s.gen = call[c].gen /\ s.mine = call[c].mine
  /\ s.checked => \/ call[c].checked /\ s.gen = call[c].gen
                  \/ SameSession /\ s.gen = generation

(* ... the mode of the router, ...                                         *)
ModeMove(c, s) ==
  /\ s.target = call[c].target \/ call[c].op = "none"
  /\ s.applied >= call[c].applied
  /\ s.op = "netmode" /\ s.verdict = "ok" => s.applied = 1 \/ Given(call, s.target)

(* ... and the lock.                                                       *)
LockMove(c, s) ==
  /\ \/ holder' = holder
     \/ holder \in {c, NoCall} /\ holder' \in {c, NoCall}
  /\ holder' = c <=> s.at \in InLibrary /\ s.op # "modes"

-----------------------------------------------------------------------------
(* The one argument all the actions share.                                 *)

LEMMA SoundStep ==
  ASSUME IInv, NEW c \in Calls, NEW s, Update(c, s), CallSound(s),
         SessionMove(c, s), WorkerMove(c, s), LockMove(c, s), ModeMove(c, s),
         s.op = "poll" /\ s.orphan # "none" =>
           \/ Reset
           \/ /\ UNCHANGED client /\ s.mine = call[c].mine
              /\ call[c].op = "poll" /\ call[c].orphan # "none"
  PROVE  IInv'
<1>1. /\ call' = [call EXCEPT ![c] = s]
      /\ s \in CallState /\ call \in [Calls -> CallState]
  BY DEF Update, CallSound, IInv
<1>2. /\ call' \in [Calls -> CallState]
      /\ call'[c] = s
      /\ \A d \in Calls : d # c => call'[d] = call[d]
  BY <1>1
<1>3. \A d \in Calls : call[d] \in CallState /\ call'[d] \in CallState
  BY <1>1, <1>2
<1>4. \A d \in Calls : CallSound(call'[d])
  BY <1>2 DEF IInv
<1>5. \A d \in Calls : /\ call[d].mine \in Nat /\ call'[d].mine \in Nat
                        /\ call[d].gen \in Nat
  BY <1>3 DEF CallState
<1>6. \A d \in Calls :
        call'[d].at \in InLibrary \/ call'[d].orphan # "none" => call'[d].mine # 0
  BY <1>4 DEF CallSound
<1>7. client \in Nat /\ generation \in Nat /\ premise \in Nat /\ client <= generation
  BY DEF IInv, SessionSound
<1>8. \A d \in Calls : call[d].mine <= generation /\ call[d].gen <= generation
  BY DEF IInv, SessionSound
<1>9. client' \in Nat /\ generation' \in Nat /\ premise' \in Nat
      /\ client' <= generation' /\ generation <= generation'
      /\ s.mine <= generation' /\ s.gen <= generation'
  BY <1>2, <1>5, <1>7, <1>8 DEF SessionMove, SameSession, Reset, WorkerMove
<1>10. \A d \in Calls : call'[d].mine <= generation' /\ call'[d].gen <= generation'
  BY <1>2, <1>5, <1>7, <1>8, <1>9
<1>11. \A d \in Calls : d # c /\ call'[d].at = "login" =>
         client' # call'[d].mine /\ s.mine # call'[d].mine
  <2>1. SUFFICES ASSUME NEW d \in Calls, d # c, call[d].at = "login"
                 PROVE  client' # call[d].mine /\ s.mine # call[d].mine
    BY <1>2
  <2>2. /\ client # call[d].mine /\ call[c].mine # call[d].mine
        /\ call[d].mine # 0 /\ call[d].mine <= generation
        /\ call[d].mine \in Nat
    <3>1. call[d].mine # 0
      BY <1>2, <1>6, <2>1 DEF InLibrary
    <3>2. QED
      BY <1>5, <1>8, <2>1, <3>1 DEF IInv, SessionSound
  <2>3. QED
    BY <1>7, <2>2 DEF SessionMove, SameSession, Reset
<1>12. s.at = "login" =>
         /\ client' # s.mine
         /\ \A d \in Calls : d # c => call'[d].mine # s.mine
  BY <1>2, <1>5, <1>7, <1>8 DEF SessionMove, Reset
<1>13. SessionSound'
  <2>1. ASSUME NEW d \in Calls, call'[d].at = "login"
        PROVE  /\ client' # call'[d].mine
               /\ \A e \in Calls \ {d} : call'[e].mine # call'[d].mine
    <3>1. CASE d = c
      BY <1>2, <1>12, <2>1, <3>1
    <3>2. CASE d # c
      <4>1. client' # call'[d].mine /\ call'[c].mine # call'[d].mine
        BY <1>2, <1>11, <2>1, <3>2
      <4>2. ASSUME NEW e \in Calls, e # d, e # c
            PROVE  call'[e].mine # call'[d].mine
        BY <1>2, <2>1, <3>2, <4>2 DEF IInv, SessionSound
      <4>3. QED
        BY <4>1, <4>2
    <3>3. QED
      BY <3>1, <3>2
  <2>2. QED
    BY <1>9, <1>10, <2>1 DEF SessionSound
<1>14. holder' \in Calls \cup {NoCall} /\ LockSound'
  BY <1>2, CallsAssumption DEF IInv, LockMove, LockSound
<1>15. WedgedClientDropped'
  <2>1. SUFFICES ASSUME NEW d \in Calls, call'[d].op = "poll",
                        call'[d].orphan # "none"
                 PROVE  client' # call'[d].mine
    BY DEF WedgedClientDropped
  <2>2. call'[d].mine # 0
    BY <1>6, <2>1
  <2>3. CASE d = c
    BY <1>2, <2>1, <2>2, <2>3 DEF Reset, IInv, WedgedClientDropped
  <2>4. CASE d # c
    <3>1. client # call[d].mine /\ call'[d].mine = call[d].mine
      BY <1>2, <2>1, <2>4 DEF IInv, WedgedClientDropped
    <3>2. call[c].at = "login" => call[c].mine # call[d].mine
      BY <2>4 DEF IInv, SessionSound
    <3>3. QED
      BY <2>2, <3>1, <3>2 DEF SessionMove, SameSession, Reset
  <2>5. QED
    BY <2>3, <2>4
<1>16. PremiseIsCurrent'
  BY DEF IInv, PremiseIsCurrent, CheckSound, SessionMove, SameSession, Reset
<1>17. WorkerSound'
  <2>1. SUFFICES ASSUME \A d \in Calls : call'[d].op # "modes",
                        NEW d \in Calls, call'[d].at = "working",
                        call'[d].gen = generation'
                 PROVE  client' = call'[d].mine
    BY DEF WorkerSound
  <2>2. \A e \in Calls : call[e].op # "modes"
    BY <1>2, <2>1 DEF WorkerMove
  <2>3. \A e \in Calls : call[e].at = "working" /\ call[e].gen = generation =>
                          client = call[e].mine
    BY <2>2 DEF IInv, WorkerSound
  <2>4. CASE d = c
    BY <1>2, <2>1, <2>3, <2>4 DEF WorkerMove
  <2>5. CASE d # c
    <3>1. call'[d] = call[d] /\ call[d].gen <= generation /\ call[d].gen \in Nat
      BY <1>2, <1>5, <1>8, <2>5
    <3>2. CASE UNCHANGED <<client, generation>>
      BY <2>1, <2>3, <3>1, <3>2
    <3>3. CASE Reset
      BY <1>7, <2>1, <3>1, <3>3 DEF Reset
    <3>4. CASE call[c].at = "login"
      <4>1. holder = c /\ holder = d
        BY <2>1, <2>2, <3>1, <3>4 DEF IInv, LockSound, InLibrary
      <4>2. QED
        BY <2>5, <4>1
    <3>5. QED
      BY <3>2, <3>3, <3>4 DEF SessionMove, SameSession
  <2>6. QED
    BY <2>4, <2>5
<1>18. ModeSound'
  <2>1. /\ s.applied \in {0, 1} /\ call[c].applied \in {0, 1}
        /\ s.applied >= call[c].applied /\ s.target \in Modes
    <3>1. s.applied \in Nat /\ call[c].applied \in Nat /\ s.target \in Modes
      BY <1>1 DEF CallState
    <3>2. s.applied <= 1 /\ call[c].applied <= 1
      BY DEF CallSound, IInv
    <3>3. QED
      BY <3>1, <3>2 DEF ModeMove
  <2>2. \A m : Given(call, m) => Given(call', m)
    BY <1>2, <2>1 DEF Given, WorkerMove, ModeMove
  <2>3. s.op = "netmode" /\ s.applied = 1 => Given(call', s.target)
    BY <1>2 DEF Given
  <2>4. mode' \in Modes /\ before' \in Modes
        /\ Given(call', mode') /\ Given(call', before')
    <3>1. /\ mode \in Modes /\ before \in Modes
          /\ Given(call', mode) /\ Given(call', before)
      BY <2>2 DEF IInv, ModeSound
    <3>2. TakesMode(c, s) => Given(call', s.target)
      BY <2>1, <2>3 DEF TakesMode
    <3>3. QED
      BY <2>1, <3>1, <3>2 DEF Update
  <2>5. ASSUME NEW d \in Calls, call'[d].op = "netmode", call'[d].verdict = "ok"
        PROVE  Given(call', call'[d].target)
    BY <1>2, <2>2, <2>3, <2>5 DEF ModeMove, IInv, ModeSound
  <2>6. QED
    BY <2>4, <2>5 DEF ModeSound
<1>19. overtaken' \in SUBSET Nat /\ CheckSound'
  <2>1. overtaken' \in SUBSET Nat
    <3>1. {call[d].gen : d \in {e \in Calls : call[e].checked}} \in SUBSET Nat
      BY <1>5
    <3>2. QED
      BY <3>1 DEF SessionMove, SameSession, Reset, IInv
  <2>2. SUFFICES ASSUME NEW d \in Calls, call'[d].checked
                 PROVE  call'[d].gen = generation' \/ call'[d].gen \in overtaken'
    BY <2>1 DEF CheckSound
  <2>3. \/ call[d].checked /\ call'[d].gen = call[d].gen
        \/ SameSession /\ call'[d].gen = generation
    BY <1>2, <2>2 DEF WorkerMove
  <2>4. QED
    BY <2>3 DEF SessionMove, SameSession, Reset, IInv, CheckSound
<1>20. QED
  BY <1>2, <1>4, <1>13, <1>14, <1>15, <1>16, <1>17, <1>18, <1>19 DEF IInv

-----------------------------------------------------------------------------
(* The operators the handlers are made of.                                 *)

(* A call that goes on in the library has the lock or is just granted it.  *)
HasLock(c) ==
  \/ call[c].at \in InLibrary /\ UNCHANGED holder
  \/ call[c].op # "modes" /\ holder = NoCall /\ holder' = c

(* A step that call c may be asked for, with nothing applied so far.       *)
StepFits(c, step) ==
  /\ step \in Steps \ {"none"}
  /\ call[c].op \in Writes <=> step \in WriteSteps
  /\ step \notin {"confirm", "reconfirm"} => call[c].applied = 0
  /\ step = "fetch" => call[c].op = "poll"
  /\ step \in {"confirm", "reconfirm"} => call[c].op = "netmode"

LEMMA CallFacts ==
  ASSUME IInv, NEW c \in Calls
  PROVE  CallSound(call[c]) /\ call[c] \in CallState
BY DEF IInv, CallSound

LEMMA WorkSound ==
  ASSUME IInv, NEW c \in Calls, NEW step, NEW mine, NEW again \in BOOLEAN,
         call[c].at \notin {"idle", "done"}, StepFits(c, step), HasLock(c),
         ~call[c].checked, mine \in Nat \ {0}, Work(c, step, mine, again),
         \/ SameSession /\ mine = client
         \/ /\ call[c].at = "login" /\ mine = call[c].mine
            /\ client' = mine /\ UNCHANGED <<generation, premise, overtaken>>
  PROVE  IInv'
<1> DEFINE gen == IF step \in {"fetch"} \cup SweepSteps THEN generation ELSE 0
<1> DEFINE s == [call[c] EXCEPT !.at = "working", !.step = step, !.mine = mine,
                                !.again = again, !.gen = gen]
<1>1. CallSound(call[c]) /\ call[c] \in CallState /\ generation \in Nat
  BY CallFacts DEF IInv, SessionSound
<1>10. Update(c, s)
  BY DEF Work
<1>3. s \in CallState
  <2>1. step \in Steps /\ gen \in Nat
    BY <1>1 DEF StepFits
  <2> HIDE DEF gen
  <2>2. QED
    BY <1>1, <2>1 DEF CallState
<1>4. /\ s.at = "working" /\ s.step = step /\ s.mine = mine /\ s.gen \in {0, generation}
      /\ s.op = call[c].op /\ s.orphan = call[c].orphan
      /\ s.verdict = call[c].verdict /\ s.applied = call[c].applied
      /\ s.target = call[c].target /\ s.checked = call[c].checked
  BY <1>1 DEF CallState
<1>5. CallSound(s)
  BY <1>1, <1>3, <1>4 DEF CallSound, StepFits, Uncommitted, InLibrary
<1>6. SessionMove(c, s) /\ WorkerMove(c, s)
  BY <1>4 DEF SessionMove, WorkerMove, SameSession
<1>7. LockMove(c, s)
  BY <1>4 DEF LockMove, HasLock, IInv, LockSound, InLibrary
<1>20. ModeMove(c, s)
  BY <1>1, <1>4 DEF ModeMove, CallSound, CallState
<1>8. s.orphan = "none"
  BY <1>1, <1>4 DEF CallSound
<1> HIDE DEF s
<1>11. QED
  BY <1>5, <1>6, <1>7, <1>8, <1>10, <1>20, SoundStep

LEMMA LoginSound ==
  ASSUME IInv, NEW c \in Calls, NEW step, NEW again \in BOOLEAN,
         call[c].at \notin {"idle", "done"}, StepFits(c, step), HasLock(c),
         ~call[c].checked, Login(c, step, again)
  PROVE  IInv'
<1> DEFINE s == [call[c] EXCEPT !.at = "login", !.step = step, !.again = again,
                                !.mine = generation + 1]
<1>1. CallSound(call[c]) /\ call[c] \in CallState /\ generation \in Nat
  BY CallFacts DEF IInv, SessionSound
<1>2. generation + 1 \in Nat /\ generation + 1 # 0
  BY <1>1
<1>3. s \in CallState
  BY <1>1, <1>2 DEF StepFits, CallState, Steps
<1>4. /\ s.at = "login" /\ s.step = step /\ s.mine = generation + 1
      /\ s.gen = call[c].gen
      /\ s.op = call[c].op /\ s.orphan = call[c].orphan
      /\ s.verdict = call[c].verdict /\ s.applied = call[c].applied
      /\ s.target = call[c].target /\ s.checked = call[c].checked
  BY <1>1 DEF CallState
<1>5. CallSound(s)
  BY <1>1, <1>2, <1>3, <1>4 DEF CallSound, StepFits, Uncommitted, InLibrary
<1>6. SessionMove(c, s) /\ WorkerMove(c, s)
  BY <1>4 DEF SessionMove, Login, WorkerMove
<1>7. LockMove(c, s)
  BY <1>4 DEF LockMove, HasLock, IInv, LockSound, InLibrary
<1>20. ModeMove(c, s)
  BY <1>1, <1>4 DEF ModeMove, CallSound, CallState
<1>8. s.orphan = "none"
  BY <1>1, <1>4 DEF CallSound
<1>10. Update(c, s)
  BY DEF Login
<1> HIDE DEF s
<1>11. QED
  BY <1>5, <1>6, <1>7, <1>8, <1>10, <1>20, SoundStep

LEMMA ProceedSound ==
  ASSUME IInv, NEW c \in Calls, NEW step, call[c].at \notin {"idle", "done"},
         StepFits(c, step), HasLock(c), ~call[c].checked, Proceed(c, step)
  PROVE  IInv'
<1> DEFINE again == call[c].op = "poll" /\ call[c].again
<1>1. again \in BOOLEAN /\ client \in Nat
  BY CallFacts DEF CallState, IInv, SessionSound
<1>2. CASE client # 0 /\ Work(c, step, client, again) /\ SameSession
  BY <1>1, <1>2, WorkSound
<1>3. CASE Login(c, step, again)
  BY <1>1, <1>3, LoginSound
<1>4. QED
  BY <1>2, <1>3 DEF Proceed

(* How the end of a call may leave the session.                            *)
EndMove(c) ==
  \/ SameSession
  \/ Reset
  \/ /\ UNCHANGED <<generation, premise, overtaken>>
     /\ call[c].at = "login" /\ client' \in {0, call[c].mine}

LEMMA EndSound ==
  ASSUME IInv, NEW c \in Calls, NEW n \in {0, 1},
         NEW verdict \in {"ok", "unverified", "failed"},
         Update(c, Ended([call[c] EXCEPT !.applied = n], verdict)),
         call[c].orphan = "none", ~call[c].checked, n >= call[c].applied,
         call[c].op \in Writes /\ verdict = "ok" =>
           \/ n = 1
           \/ call[c].op = "netmode" /\ Given(call, call[c].target),
         Release(c), EndMove(c)
  PROVE  IInv'
<1> DEFINE t == [call[c] EXCEPT !.applied = n]
<1> DEFINE s == Ended(t, verdict)
<1>1. CallSound(call[c]) /\ call[c] \in CallState
  BY CallFacts
<1>2. t \in CallState
  BY <1>1 DEF CallState
<1>9. s \in CallState
  <2> HIDE DEF t
  <2>1. QED
    BY <1>2 DEF Ended, CallState, Steps
<1>3. /\ s.at = "done" /\ s.step = "none" /\ s.mine = 0 /\ s.gen = 0
      /\ s.op = call[c].op /\ s.orphan = "none"
      /\ s.verdict = verdict /\ s.applied = n
      /\ s.target = call[c].target /\ ~s.checked
  BY <1>1 DEF Ended, CallState
<1>4. CallSound(s)
  BY <1>3, <1>9 DEF CallSound, Uncommitted, InLibrary
<1>5. SessionMove(c, s) /\ WorkerMove(c, s)
  BY <1>3 DEF SessionMove, EndMove, WorkerMove
<1>6. LockMove(c, s)
  BY <1>3, CallsAssumption DEF LockMove, Release, InLibrary
<1>20. ModeMove(c, s)
  BY <1>3 DEF ModeMove, Writes
<1>10. Update(c, s)
  OBVIOUS
<1> HIDE DEF s
<1>8. QED
  BY <1>3, <1>4, <1>5, <1>6, <1>10, <1>20, SoundStep

LEMMA FinishSound ==
  ASSUME IInv, NEW c \in Calls, NEW verdict \in {"ok", "unverified", "failed"},
         Finish(c, verdict), call[c].orphan = "none", ~call[c].checked,
         call[c].op \in Writes /\ verdict = "ok" =>
           \/ call[c].applied = 1
           \/ call[c].op = "netmode" /\ Given(call, call[c].target),
         EndMove(c)
  PROVE  IInv'
<1>1. call[c] \in CallState /\ call[c].applied \in {0, 1}
  BY CallFacts DEF CallSound, CallState
<1>2. call[c] = [call[c] EXCEPT !.applied = call[c].applied]
  BY <1>1 DEF CallState
<1>3. call[c].applied >= call[c].applied
  BY <1>1
<1>4. Update(c, Ended([call[c] EXCEPT !.applied = call[c].applied], verdict))
      /\ Release(c)
  BY <1>2 DEF Finish
<1>5. QED
  BY <1>1, <1>3, <1>4, EndSound

LEMMA RaiseSound ==
  ASSUME IInv, NEW c \in Calls, NEW why, call[c].at \in InLibrary,
         ~call[c].checked, Raise(c, why)
  PROVE  IInv'
<1>1. CallSound(call[c]) /\ call[c] \in CallState
  BY CallFacts
<1>2. call[c].at \notin {"idle", "done"} /\ call[c].orphan = "none"
  BY <1>1 DEF CallSound, InLibrary
<1>3. CASE call[c].step = "bands" /\ Proceed(c, "command") /\ UNCHANGED holder
  <2>1. StepFits(c, "command") /\ HasLock(c)
    BY <1>1, <1>2, <1>3 DEF StepFits, HasLock, Steps, CallSound, Uncommitted,
       WriteSteps
  <2>2. QED
    BY <1>2, <1>3, <2>1, ProceedSound
<1>4. ASSUME call[c].step # "bands",
             IF ResetsOnError(c) THEN Reset
             ELSE /\ client' = IF call[c].at = "login" THEN 0 ELSE client
                  /\ UNCHANGED <<generation, premise, overtaken>>
      PROVE  EndMove(c)
  BY <1>4 DEF EndMove, SameSession
<1>5. ASSUME NEW verdict \in {"ok", "unverified", "failed"}, EndMove(c),
             Finish(c, verdict),
             verdict = "ok" => call[c].step = "repeat"
      PROVE  IInv'
  <2>1. verdict = "ok" => call[c].op \notin Writes
    BY <1>1, <1>2, <1>5 DEF CallSound, WriteSteps
  <2>2. QED
    BY <1>2, <1>5, <2>1, FinishSound
<1>8. CASE Finish(c, CASE call[c].step \in {"read", "confirm", "reconfirm"} -> "unverified"
                       [] call[c].step = "repeat" -> "ok"
                       [] OTHER -> "failed") /\ EndMove(c)
  BY <1>5, <1>8
<1>6. ASSUME EndMove(c), call[c].op = "poll", Release(c),
             Update(c, [call[c] EXCEPT !.at = "waiting", !.again = TRUE,
                                  !.mine = 0, !.gen = 0]),
             IF ResetsOnError(c) THEN Reset
             ELSE /\ client' = IF call[c].at = "login" THEN 0 ELSE client
                  /\ UNCHANGED <<generation, premise, overtaken>>
      PROVE  IInv'
  <2> DEFINE s == [call[c] EXCEPT !.at = "waiting", !.again = TRUE,
                                  !.mine = 0, !.gen = 0]
  <2>1. s \in CallState
    BY <1>1 DEF CallState
  <2>2. /\ s.at = "waiting" /\ s.step = call[c].step /\ s.mine = 0 /\ s.gen = 0
        /\ s.op = call[c].op /\ s.orphan = "none"
        /\ s.verdict = call[c].verdict /\ s.applied = call[c].applied
        /\ s.target = call[c].target /\ s.checked = call[c].checked
    BY <1>1, <1>2 DEF CallState
  <2>3. CallSound(s)
    BY <1>1, <1>2, <1>6, <2>1, <2>2 DEF CallSound, Uncommitted, InLibrary
  <2>4. SessionMove(c, s) /\ WorkerMove(c, s)
    BY <1>6, <2>2 DEF SessionMove, SameSession, WorkerMove
  <2>5. LockMove(c, s)
    BY <1>6, <2>2, CallsAssumption DEF LockMove, Release, InLibrary
  <2>20. ModeMove(c, s)
    BY <1>1, <1>6, <2>2 DEF ModeMove, CallSound, CallState
  <2>6. Update(c, s)
    BY <1>6
  <2> HIDE DEF s
  <2>7. QED
    BY <2>2, <2>3, <2>4, <2>5, <2>6, <2>20, SoundStep
<1>7. QED
  BY <1>3, <1>4, <1>6, <1>8 DEF Raise

-----------------------------------------------------------------------------
(* The actions.                                                            *)

LEMMA BeginSound ==
  ASSUME IInv, NEW c \in Calls, NEW op \in Ops, Begin(c, op)
  PROVE  IInv'
<1>0. PICK target \in Modes :
        Update(c, [call[c] EXCEPT !.op = op, !.at = "waiting",
                                  !.step = FirstStep(op), !.target = target])
  BY CallsAssumption DEF Begin
<1> DEFINE s == [call[c] EXCEPT !.op = op, !.at = "waiting",
                                !.step = FirstStep(op), !.target = target]
<1>1. /\ call[c] = Fresh /\ call[c] \in CallState
      /\ op \in AllOps /\ op # "modes"
  BY CallFacts, CallsAssumption DEF Begin, CallSound
<1>2. /\ FirstStep(op) \in Steps \ {"none"}
      /\ op \in Writes <=> FirstStep(op) \in WriteSteps
      /\ FirstStep(op) = "fetch" => op = "poll"
      /\ FirstStep(op) \notin {"confirm", "reconfirm"}
  BY <1>1 DEF FirstStep, Steps, AllOps, Writes, WriteSteps
<1>3. s \in CallState
  BY <1>1, <1>2 DEF CallState
<1>4. /\ s.op = op /\ s.at = "waiting" /\ s.step = FirstStep(op) /\ s.mine = 0
      /\ s.gen = 0 /\ call[c].op = "none"
      /\ s.orphan = "none" /\ s.verdict = "none" /\ s.applied = 0 /\ ~s.checked
      /\ call[c].applied = 0
  BY <1>1 DEF CallState, Fresh
<1>5. CallSound(s)
  <2> HIDE DEF s
  <2>1. QED
    BY <1>1, <1>2, <1>3, <1>4 DEF CallSound, Uncommitted, InLibrary
<1>6. /\ Update(c, s)
      /\ SameSession /\ UNCHANGED holder
  BY <1>0 DEF Begin, SameSession
<1> HIDE DEF s
<1>7. SessionMove(c, s) /\ WorkerMove(c, s)
  BY <1>4, <1>6 DEF SessionMove, WorkerMove
<1>8. LockMove(c, s)
  BY <1>1, <1>4, <1>6 DEF LockMove, IInv, LockSound, InLibrary, Fresh
<1>20. ModeMove(c, s)
  BY <1>1, <1>4, <1>6 DEF ModeMove, CallSound, CallState
<1>9. QED
  BY <1>4, <1>5, <1>6, <1>7, <1>8, <1>20, SoundStep

LEMMA BeginModesSound ==
  ASSUME IInv, NEW c \in Calls, BeginModes(c)
  PROVE  IInv'
<1>1. /\ call[c] = Fresh /\ call[c] \in CallState
      /\ client \in Nat /\ generation \in Nat
  BY CallFacts DEF BeginModes, CallSound, IInv, SessionSound
<1>2. UNCHANGED holder
  BY DEF BeginModes, IInv
<1>3. CASE /\ client # 0 /\ SameSession
           /\ Update(c, [call[c] EXCEPT !.op = "modes", !.at = "working",
                           !.step = "read", !.mine = client])
  <2> DEFINE s == [call[c] EXCEPT !.op = "modes", !.at = "working",
                     !.step = "read", !.mine = client]
  <2>1. /\ s.op = "modes" /\ s.at = "working" /\ s.step = "read"
        /\ s.mine = client /\ s.orphan = "none" /\ s.verdict = "none"
        /\ s.applied = 0 /\ s.gen = 0 /\ call[c].op = "none" /\ ~s.checked
        /\ call[c].applied = 0
    BY <1>1 DEF CallState, Fresh
  <2>2. Update(c, s)
    BY <1>3
  <2>3. s \in CallState
    BY <1>1 DEF CallState, Steps, AllOps
  <2> HIDE DEF s
  <2>4. CallSound(s)
    BY <1>3, <2>1, <2>3 DEF CallSound, Uncommitted, InLibrary, Writes, WriteSteps
  <2>5. SessionMove(c, s) /\ WorkerMove(c, s)
    BY <1>3, <2>1 DEF SessionMove, WorkerMove, SameSession
  <2>6. LockMove(c, s)
    BY <1>1, <1>2, <2>1 DEF LockMove, IInv, LockSound, InLibrary, Fresh
  <2>20. ModeMove(c, s)
    BY <1>1, <1>2, <2>1 DEF ModeMove, CallSound, CallState
  <2>7. QED
    BY <1>2, <2>1, <2>2, <2>4, <2>5, <2>6, <2>20, SoundStep
<1>4. CASE /\ Reset
           /\ Update(c, [call[c] EXCEPT !.op = "modes", !.at = "login",
                           !.step = "read", !.mine = generation + 1])
  <2> DEFINE s == [call[c] EXCEPT !.op = "modes", !.at = "login",
                     !.step = "read", !.mine = generation + 1]
  <2>1. /\ s.op = "modes" /\ s.at = "login" /\ s.step = "read"
        /\ s.mine = generation + 1 /\ s.orphan = "none" /\ s.verdict = "none"
        /\ s.applied = 0 /\ s.gen = 0 /\ call[c].op = "none" /\ ~s.checked
        /\ call[c].applied = 0
    BY <1>1 DEF CallState, Fresh
  <2>2. Update(c, s)
    BY <1>4
  <2>8. generation + 1 \in Nat
    BY <1>1
  <2>3. s \in CallState
    BY <1>1, <2>8 DEF CallState, Steps, AllOps
  <2> HIDE DEF s
  <2>4. CallSound(s)
    BY <1>1, <2>1, <2>3 DEF CallSound, Uncommitted, InLibrary, Writes, WriteSteps
  <2>5. SessionMove(c, s) /\ WorkerMove(c, s)
    BY <1>4, <2>1 DEF SessionMove, WorkerMove
  <2>6. LockMove(c, s)
    BY <1>1, <1>2, <2>1 DEF LockMove, IInv, LockSound, InLibrary, Fresh
  <2>20. ModeMove(c, s)
    BY <1>1, <1>2, <2>1 DEF ModeMove, CallSound, CallState
  <2>7. QED
    BY <1>2, <2>1, <2>2, <2>4, <2>5, <2>6, <2>20, SoundStep
<1>5. QED
  BY <1>3, <1>4 DEF BeginModes

LEMMA AcquireSound ==
  ASSUME IInv, NEW c \in Calls, Acquire(c)
  PROVE  IInv'
<1>1. CallSound(call[c]) /\ call[c] \in CallState /\ client \in Nat
  BY CallFacts DEF IInv, SessionSound
<1>2. /\ call[c].at = "waiting" /\ call[c].orphan = "none" /\ holder = NoCall
      /\ call[c].at \notin {"idle", "done"} /\ ~call[c].checked
  BY <1>1 DEF Acquire, CallSound
<1>3. ASSUME call[c].op \in {"login", "logout"}
      PROVE  StepFits(c, "login") /\ StepFits(c, "logout") /\ call[c].op \notin Writes
  BY <1>1, <1>2, <1>3
  DEF CallSound, Uncommitted, StepFits, Steps, Writes, WriteSteps
<1>4. CASE call[c].op = "login" /\ Login(c, "login", FALSE) /\ holder' = c
  <2>1. HasLock(c)
    BY <1>2, <1>4 DEF HasLock
  <2>2. QED
    BY <1>2, <1>3, <1>4, <2>1, LoginSound
<1>5. CASE call[c].op = "logout" /\ client = 0 /\ Reset /\ Finish(c, "ok")
  BY <1>2, <1>3, <1>5, FinishSound DEF EndMove
<1>6. CASE /\ call[c].op = "logout" /\ client # 0
           /\ Work(c, "logout", client, FALSE) /\ SameSession /\ holder' = c
  <2>1. HasLock(c) /\ client \in Nat \ {0}
    BY <1>1, <1>2, <1>6 DEF HasLock
  <2>2. QED
    BY <1>2, <1>3, <1>6, <2>1, WorkSound
<1>7. CASE /\ call[c].op \notin {"login", "logout"}
           /\ Proceed(c, call[c].step) /\ holder' = c
  <2>1. StepFits(c, call[c].step)
    BY <1>1, <1>2 DEF StepFits, CallSound, CallState, Uncommitted
  <2>2. HasLock(c)
    BY <1>1, <1>2, <1>7 DEF HasLock, CallSound, InLibrary
  <2>3. QED
    BY <1>2, <1>7, <2>1, <2>2, ProceedSound
<1>8. QED
  BY <1>4, <1>5, <1>6, <1>7 DEF Acquire

LEMMA LoginSucceedsSound ==
  ASSUME IInv, NEW c \in Calls, LoginSucceeds(c)
  PROVE  IInv'
<1>1. CallSound(call[c]) /\ call[c] \in CallState
  BY CallFacts
<1>2. /\ call[c].at = "login" /\ call[c].orphan = "none"
      /\ call[c].at \in InLibrary /\ call[c].at \notin {"idle", "done"}
      /\ client' = call[c].mine /\ UNCHANGED <<generation, premise, overtaken>>
      /\ ~call[c].checked
  BY <1>1 DEF LoginSucceeds, CallSound, InLibrary
<1>3. CASE call[c].op = "login" /\ Finish(c, "ok")
  BY <1>2, <1>3, FinishSound DEF EndMove, Writes
<1>6. CASE call[c].step = "repeat" /\ Finish(c, "ok")
  BY <1>1, <1>2, <1>6, FinishSound DEF EndMove, CallSound, WriteSteps
<1>4. CASE /\ Work(c, call[c].step, call[c].mine, call[c].again)
           /\ UNCHANGED holder
  <2>1. /\ StepFits(c, call[c].step) /\ HasLock(c)
        /\ call[c].mine \in Nat \ {0} /\ call[c].again \in BOOLEAN
    BY <1>1, <1>2, <1>4
    DEF StepFits, HasLock, CallSound, CallState, Uncommitted
  <2>2. QED
    BY <1>2, <1>4, <2>1, WorkSound
<1>5. QED
  BY <1>3, <1>4, <1>6 DEF LoginSucceeds

LEMMA LoginFailsSound ==
  ASSUME IInv, NEW c \in Calls, LoginFails(c)
  PROVE  IInv'
<1>1. call[c].at \in InLibrary /\ ~call[c].checked
  BY CallFacts DEF LoginFails, InLibrary, CallSound
<1>2. QED
  BY <1>1, RaiseSound DEF LoginFails

(* A command counts at most once, whatever the answer.                     *)
LEMMA HitFacts ==
  ASSUME IInv, NEW c \in Calls, NEW hit \in {0, 1}, call[c].at = "working"
  PROVE  \E n \in {0, 1} :
           /\ Hit(c, hit) = [call[c] EXCEPT !.applied = n]
           /\ call[c].step = "command" => n = hit
           /\ call[c].step # "command" => n = call[c].applied
           /\ n >= call[c].applied
<1>1. CallSound(call[c]) /\ call[c] \in CallState
  BY CallFacts
<1>2. call[c].applied \in {0, 1}
  BY <1>1 DEF CallSound, CallState
<1>3. call[c].step = "command" => call[c].applied = 0
  BY <1>1 DEF CallSound, Uncommitted
<1>4. CASE call[c].step = "command"
  <2>1. Hit(c, hit) = [call[c] EXCEPT !.applied = hit]
    BY <1>3, <1>4 DEF Hit
  <2>2. QED
    BY <1>3, <1>4, <2>1
<1>5. CASE call[c].step # "command"
  <2>1. Hit(c, hit) = [call[c] EXCEPT !.applied = call[c].applied]
    BY <1>2, <1>5 DEF Hit
  <2>2. QED
    BY <1>2, <1>5, <2>1
<1>6. QED
  BY <1>4, <1>5

LEMMA WorkAnswersSound ==
  ASSUME IInv, NEW c \in Calls, WorkAnswers(c)
  PROVE  IInv'
<1>1. CallSound(call[c]) /\ call[c] \in CallState
  BY CallFacts
<1>2. /\ call[c].at = "working" /\ call[c].orphan = "none"
      /\ call[c].at \in InLibrary /\ call[c].at \notin {"idle", "done"}
      /\ call[c].step \notin {"fetch", "confirm", "reconfirm"}
      /\ ~call[c].checked
  BY <1>1 DEF WorkAnswers, CallSound, InLibrary
<1>3. CASE /\ NextStep(c) # "none" /\ Proceed(c, NextStep(c))
           /\ UNCHANGED holder
  <2>1. NextStep(c) = "command" /\ call[c].step \in {"bands", "disconnect"}
    BY <1>3 DEF NextStep
  <2>2. StepFits(c, NextStep(c)) /\ HasLock(c)
    BY <1>1, <1>2, <1>3, <2>1
    DEF StepFits, HasLock, CallSound, Uncommitted, Steps, WriteSteps
  <2>3. QED
    BY <1>2, <1>3, <2>2, ProceedSound
<1>4. CASE /\ NextStep(c) = "none"
           /\ Update(c, Ended(Hit(c, 1), "ok"))
           /\ Release(c)
           /\ IF call[c].op \in {"reboot", "reconnect", "logout"}
              THEN Reset ELSE SameSession
  <2>1. call[c].op \in Writes => call[c].step = "command"
    BY <1>1, <1>2, <1>4 DEF CallSound, NextStep, WriteSteps
  <2>2. PICK n \in {0, 1} :
          /\ Hit(c, 1) = [call[c] EXCEPT !.applied = n]
          /\ call[c].step = "command" => n = 1
          /\ n >= call[c].applied
    BY <1>2, HitFacts
  <2>3. Update(c, Ended([call[c] EXCEPT !.applied = n], "ok")) /\ EndMove(c)
    BY <1>4, <2>2 DEF EndMove
  <2>4. QED
    BY <1>2, <1>4, <2>1, <2>2, <2>3, EndSound
<1>5. QED
  BY <1>3, <1>4 DEF WorkAnswers

LEMMA WorkFailsSound ==
  ASSUME IInv, NEW c \in Calls, WorkFails(c)
  PROVE  IInv'
<1>1. /\ CallSound(call[c]) /\ call[c] \in CallState
      /\ generation + 1 \in Nat /\ generation + 1 # 0
  BY CallFacts DEF IInv, SessionSound
<1>2. /\ call[c].at = "working" /\ call[c].orphan = "none"
      /\ call[c].at \in InLibrary /\ call[c].at \notin {"idle", "done"}
      /\ call[c].step # "fetch" /\ ~call[c].checked
  BY <1>1 DEF WorkFails, CallSound, InLibrary
<1>3. PICK why \in {"expired", "refused", "broken"}, hit \in {0, 1} :
       \/ /\ IsExpiry(why) /\ ~call[c].again /\ hit = 0
          /\ Reset
          /\ Update(c, [Hit(c, hit) EXCEPT !.at = "login", !.again = TRUE,
                                           !.mine = generation + 1])
          /\ UNCHANGED holder
       \/ hit = 0 /\ Raise(c, why)
       \/ /\ call[c].step = "command"
          /\ Update(c, Ended(Hit(c, 1), "failed"))
          /\ Release(c)
          /\ IF ResetsOnError(c) THEN Reset ELSE SameSession
  BY DEF WorkFails, IsExpiry
<1>4. CASE /\ hit = 0 /\ Reset
           /\ Update(c, [Hit(c, hit) EXCEPT !.at = "login", !.again = TRUE,
                                            !.mine = generation + 1])
           /\ UNCHANGED holder
  <2>2. Hit(c, hit) = call[c]
    <3>1. PICK n \in {0, 1} :
            /\ Hit(c, 0) = [call[c] EXCEPT !.applied = n]
            /\ call[c].step = "command" => n = 0
            /\ call[c].step # "command" => n = call[c].applied
      BY <1>2, HitFacts
    <3>2. n = call[c].applied
      BY <1>1, <1>2, <3>1 DEF CallSound, Uncommitted
    <3>3. QED
      BY <1>1, <1>4, <3>1, <3>2 DEF CallState
  <2> DEFINE s == [call[c] EXCEPT !.at = "login", !.again = TRUE,
                                  !.mine = generation + 1]
  <2>3. s \in CallState
    BY <1>1 DEF CallState
  <2>4. /\ s.at = "login" /\ s.step = call[c].step /\ s.mine = generation + 1
        /\ s.gen = call[c].gen
        /\ s.op = call[c].op /\ s.orphan = "none"
        /\ s.verdict = call[c].verdict /\ s.applied = call[c].applied
        /\ s.target = call[c].target /\ s.checked = call[c].checked
    BY <1>1, <1>2 DEF CallState
  <2>5. Update(c, s)
    BY <1>4, <2>2 DEF IInv
  <2> HIDE DEF s
  <2>6. CallSound(s)
    BY <1>1, <1>2, <2>3, <2>4 DEF CallSound, Uncommitted, InLibrary
  <2>7. SessionMove(c, s) /\ WorkerMove(c, s)
    BY <1>4, <2>4 DEF SessionMove, WorkerMove
  <2>8. LockMove(c, s)
    BY <1>2, <1>4, <2>4 DEF LockMove, IInv, LockSound, InLibrary
  <2>20. ModeMove(c, s)
    BY <1>1, <1>2, <1>4, <2>4 DEF ModeMove, CallSound, CallState
  <2>9. QED
    BY <2>4, <2>5, <2>6, <2>7, <2>8, <2>20, SoundStep
<1>5. CASE Raise(c, why)
  BY <1>2, <1>5, RaiseSound
<1>6. CASE /\ call[c].step = "command"
           /\ Update(c, Ended(Hit(c, 1), "failed"))
           /\ Release(c)
           /\ IF ResetsOnError(c) THEN Reset ELSE SameSession
  <2>1. PICK n \in {0, 1} : /\ Hit(c, 1) = [call[c] EXCEPT !.applied = n]
                             /\ n >= call[c].applied
    BY <1>2, HitFacts
  <2>2. Update(c, Ended([call[c] EXCEPT !.applied = n], "failed")) /\ EndMove(c)
    BY <1>6, <2>1 DEF EndMove
  <2>3. QED
    BY <1>2, <1>6, <2>1, <2>2, EndSound
<1>7. QED
  BY <1>3, <1>4, <1>5, <1>6

LEMMA LogoutFailsSound ==
  ASSUME IInv, NEW c \in Calls, LogoutFails(c)
  PROVE  IInv'
<1>1. call[c].op \notin Writes /\ call[c].orphan = "none" /\ ~call[c].checked
  BY CallFacts DEF LogoutFails, CallSound, WriteSteps
<1>2. QED
  BY <1>1, FinishSound DEF LogoutFails, EndMove

(* A confirmation only moves the record of its call between settling,      *)
(* waiting and the next read: the session stays as it is.                  *)
LEMMA ConfirmStep ==
  ASSUME IInv, NEW c \in Calls, NEW at \in {"settling", "waiting"},
         NEW step \in {"confirm", "reconfirm"}, NEW n \in {0, 1},
         NEW again \in BOOLEAN,
         call[c].op = "netmode", call[c].orphan = "none",
         call[c].verdict = "none",
         n >= call[c].applied, ~call[c].checked,
         Update(c, [call[c] EXCEPT !.at = at, !.step = step, !.again = again,
                                   !.mine = 0, !.applied = n]),
         Release(c), SameSession
  PROVE  IInv'
<1> DEFINE s == [call[c] EXCEPT !.at = at, !.step = step, !.again = again,
                                !.mine = 0, !.applied = n]
<1>1. call[c] \in CallState
  BY CallFacts
<1>2. s \in CallState
  <2>1. /\ n \in Nat
        /\ at \in {"idle", "waiting", "login", "working", "settling", "done"}
        /\ step \in Steps
    BY DEF Steps
  <2>2. QED
    BY <1>1, <2>1 DEF CallState
<1>3. /\ s.at = at /\ s.step = step /\ s.mine = 0 /\ s.gen = call[c].gen
      /\ s.op = call[c].op /\ s.orphan = "none" /\ s.verdict = "none"
      /\ s.applied = n /\ s.target = call[c].target /\ ~s.checked
  BY <1>1 DEF CallState
<1>4. Update(c, s)
  BY DEF IInv
<1> HIDE DEF s
<1>5. CallSound(s)
  BY <1>2, <1>3
  DEF CallSound, Uncommitted, InLibrary, Writes, WriteSteps
<1>6. SessionMove(c, s) /\ WorkerMove(c, s)
  BY <1>3 DEF SessionMove, WorkerMove
<1>7. LockMove(c, s)
  BY <1>3, CallsAssumption DEF LockMove, Release, InLibrary
<1>20. ModeMove(c, s)
  BY <1>1, <1>3 DEF ModeMove, CallSound, CallState
<1>8. QED
  BY <1>3, <1>4, <1>5, <1>6, <1>7, <1>20, SoundStep

LEMMA AnswerUnknownSound ==
  ASSUME IInv, NEW c \in Calls, AnswerUnknown(c)
  PROVE  IInv'
<1>1. CallSound(call[c]) /\ call[c] \in CallState
  BY CallFacts
<1>2. /\ call[c].at = "working" /\ call[c].step = "command"
      /\ call[c].op = "netmode" /\ call[c].orphan = "none"
      /\ call[c].verdict = "none" /\ ~call[c].checked
  BY <1>1 DEF AnswerUnknown, CallSound
<1>3. PICK hit \in {0, 1} :
        Update(c, [Hit(c, hit) EXCEPT !.at = "settling", !.step = "confirm",
                                      !.again = FALSE, !.mine = 0])
  BY DEF AnswerUnknown
<1>4. PICK n \in {0, 1} : /\ Hit(c, hit) = [call[c] EXCEPT !.applied = n]
                           /\ n >= call[c].applied
  BY <1>2, HitFacts
<1>5. [Hit(c, hit) EXCEPT !.at = "settling", !.step = "confirm",
                          !.again = FALSE, !.mine = 0]
      = [call[c] EXCEPT !.at = "settling", !.step = "confirm",
                        !.again = FALSE, !.mine = 0, !.applied = n]
  BY <1>1, <1>4 DEF CallState
<1>6. QED
  BY <1>2, <1>3, <1>4, <1>5, ConfirmStep DEF AnswerUnknown

LEMMA SettlesSound ==
  ASSUME IInv, NEW c \in Calls, Settles(c)
  PROVE  IInv'
<1> DEFINE s == [call[c] EXCEPT !.at = "waiting"]
<1>1. CallSound(call[c]) /\ call[c] \in CallState /\ call[c].at = "settling"
  BY CallFacts DEF Settles
<1>2. s \in CallState
  BY <1>1 DEF CallState
<1>3. /\ s.at = "waiting" /\ s.step = call[c].step /\ s.mine = call[c].mine
      /\ s.gen = call[c].gen
      /\ s.op = call[c].op /\ s.orphan = call[c].orphan
      /\ s.verdict = call[c].verdict /\ s.applied = call[c].applied
      /\ s.target = call[c].target /\ s.checked = call[c].checked
  BY <1>1 DEF CallState
<1>4. /\ Update(c, s)
      /\ SameSession /\ UNCHANGED holder
  BY DEF Settles, SameSession, IInv
<1> HIDE DEF s
<1>5. CallSound(s)
  BY <1>1, <1>2, <1>3 DEF CallSound, Uncommitted, InLibrary
<1>6. SessionMove(c, s) /\ WorkerMove(c, s)
  BY <1>3, <1>4 DEF SessionMove, WorkerMove
<1>7. LockMove(c, s)
  BY <1>1, <1>3, <1>4 DEF LockMove, IInv, LockSound, InLibrary
<1>20. ModeMove(c, s)
  BY <1>1, <1>3, <1>4 DEF ModeMove, CallSound, CallState
<1>8. QED
  BY <1>1, <1>3, <1>4, <1>5, <1>6, <1>7, <1>20, SoundStep DEF CallSound

LEMMA ReadBackAnswersSound ==
  ASSUME IInv, NEW c \in Calls, ReadBackAnswers(c)
  PROVE  IInv'
<1>1. CallSound(call[c]) /\ call[c] \in CallState
  BY CallFacts
<1>2. /\ call[c].at = "working" /\ call[c].step \in {"confirm", "reconfirm"}
      /\ call[c].op = "netmode" /\ call[c].orphan = "none"
      /\ call[c].verdict = "none" /\ SameSession /\ ~call[c].checked
      /\ call[c].applied \in {0, 1}
  BY <1>1 DEF ReadBackAnswers, CallSound, CallState
<1>3. ASSUME NEW shown \in Shown(c), Agrees(c, shown), Finish(c, "ok")
      PROVE  IInv'
  <2>1. Given(call, call[c].target)
    BY <1>3 DEF Shown, Agrees, IInv, ModeSound
  <2>2. QED
    BY <1>2, <1>3, <2>1, FinishSound DEF EndMove
<1>4. CASE /\ Update(c, [call[c] EXCEPT !.at = "settling", !.step = "reconfirm",
                                        !.again = FALSE, !.mine = 0])
           /\ Release(c)
  <2>1. [call[c] EXCEPT !.at = "settling", !.step = "reconfirm",
                        !.again = FALSE, !.mine = 0]
        = [call[c] EXCEPT !.at = "settling", !.step = "reconfirm",
                          !.again = FALSE, !.mine = 0, !.applied = call[c].applied]
    BY <1>1 DEF CallState
  <2>2. call[c].applied >= call[c].applied
    BY <1>2
  <2>3. QED
    BY <1>2, <1>4, <2>1, <2>2, ConfirmStep
<1>5. CASE Finish(c, "failed") \/ Finish(c, "unverified")
  BY <1>2, <1>5, FinishSound DEF EndMove
<1>6. QED
  BY <1>3, <1>4, <1>5 DEF ReadBackAnswers

LEMMA FetchAnswersSound ==
  ASSUME IInv, NEW c \in Calls, FetchAnswers(c)
  PROVE  IInv'
<1>1. /\ call[c].at \in InLibrary /\ call[c].orphan = "none"
      /\ call[c].op \notin Writes /\ ~call[c].checked
  BY CallFacts DEF FetchAnswers, CallSound, InLibrary, WriteSteps
<1>2. CASE Finish(c, "ok") /\ SameSession
  BY <1>1, <1>2, FinishSound DEF EndMove
<1>3. QED
  BY <1>1, <1>2, RaiseSound DEF FetchAnswers

(* A worker checks the generation, or writes: its record changes only in   *)
(* that, and the session in the premise.                                   *)
LEMMA FetchPremiseSound ==
  ASSUME IInv, NEW c \in Calls, FetchChecksPremise(c) \/ FetchKeepsPremise(c)
  PROVE  IInv'
<1>1. /\ CallSound(call[c]) /\ call[c] \in CallState
      /\ client \in Nat /\ generation \in Nat
  BY CallFacts DEF IInv, SessionSound
<1>2. PICK b \in BOOLEAN :
        /\ Update(c, [call[c] EXCEPT !.checked = b])
        /\ b => call[c].gen = generation /\ SameSession
        /\ ~b => /\ call[c].checked /\ premise' = call[c].gen
                 /\ UNCHANGED <<client, generation, overtaken>>
  BY DEF FetchChecksPremise, FetchKeepsPremise, PremiseGuard
<1>3. /\ call[c].step = "fetch" /\ call[c].op = "poll" /\ UNCHANGED holder
      /\ "working" \in {call[c].at, call[c].orphan}
  BY <1>1 DEF FetchChecksPremise, FetchKeepsPremise, Fetching, CallSound
<1> DEFINE s == [call[c] EXCEPT !.checked = b]
<1>4. s \in CallState
  BY <1>1 DEF CallState
<1>5. /\ s.at = call[c].at /\ s.step = "fetch" /\ s.mine = call[c].mine
      /\ s.gen = call[c].gen /\ s.op = "poll" /\ s.orphan = call[c].orphan
      /\ s.verdict = call[c].verdict /\ s.applied = call[c].applied
      /\ s.target = call[c].target /\ s.checked = b
  BY <1>1, <1>3 DEF CallState
<1>6. call[c].at # "idle" /\ call[c].at # "login"
  BY <1>1, <1>3 DEF CallSound, Fresh
<1>7. Update(c, s)
  BY <1>2
<1> HIDE DEF s
<1>8. CallSound(s)
  BY <1>1, <1>3, <1>4, <1>5, <1>6 DEF CallSound, Uncommitted, InLibrary, Writes,
     WriteSteps
<1>9. SessionMove(c, s) /\ WorkerMove(c, s)
  BY <1>2, <1>3, <1>5, <1>6 DEF SessionMove, WorkerMove, SameSession
<1>10. LockMove(c, s)
  BY <1>3, <1>5 DEF LockMove, IInv, LockSound, InLibrary
<1>11. ModeMove(c, s)
  BY <1>1, <1>5 DEF ModeMove, CallState
<1>12. UNCHANGED client
  BY <1>2 DEF SameSession
<1>13. QED
  BY <1>3, <1>5, <1>7, <1>8, <1>9, <1>10, <1>11, <1>12, SoundStep

(* The sweep moves on with its own client, or logs in for another.         *)
LEMMA SweepStep ==
  ASSUME IInv, NEW c \in Calls, call[c].at = "working", call[c].step \in SweepSteps,
         NEW step \in SweepSteps, NEW probe \in Nat,
         Update(c, [call[c] EXCEPT !.step = step, !.probe = probe]),
         UNCHANGED holder, SameSession
  PROVE  IInv'
<1> DEFINE s == [call[c] EXCEPT !.step = step, !.probe = probe]
<1>1. CallSound(call[c]) /\ call[c] \in CallState
  BY CallFacts
<1>2. s \in CallState
  BY <1>1 DEF CallState, Steps, SweepSteps
<1>3. /\ s.at = "working" /\ s.step = step /\ s.mine = call[c].mine
      /\ s.gen = call[c].gen /\ s.op = call[c].op /\ s.orphan = call[c].orphan
      /\ s.verdict = call[c].verdict /\ s.applied = call[c].applied
      /\ s.target = call[c].target /\ s.checked = call[c].checked
  BY <1>1 DEF CallState
<1>4. Update(c, s) /\ SameSession
  BY DEF IInv, SameSession
<1> HIDE DEF s
<1>5. CallSound(s)
  BY <1>1, <1>2, <1>3
  DEF CallSound, Uncommitted, InLibrary, WriteSteps, SweepSteps
<1>6. SessionMove(c, s) /\ WorkerMove(c, s)
  BY <1>3, <1>4 DEF SessionMove, WorkerMove, SameSession
<1>7. LockMove(c, s)
  BY <1>3 DEF LockMove, IInv, LockSound, InLibrary
<1>20. ModeMove(c, s)
  BY <1>1, <1>3 DEF ModeMove, CallSound, CallState
<1>8. QED
  BY <1>1, <1>3, <1>4, <1>5, <1>6, <1>7, <1>20, SoundStep DEF CallSound

LEMMA ProbeSettledSound ==
  ASSUME IInv, NEW c \in Calls, ProbeSettled(c)
  PROVE  IInv'
<1>1. CallSound(call[c]) /\ call[c] \in CallState /\ SameSession
  BY CallFacts DEF ProbeSettled
<1>2. CASE /\ Update(c, [call[c] EXCEPT !.step = "probe", !.probe = call[c].probe + 1])
           /\ UNCHANGED holder
  <2>1. call[c].probe + 1 \in Nat
    BY <1>1 DEF CallState
  <2>2. QED
    BY <1>1, <1>2, <2>1, SweepStep DEF ProbeSettled, SweepSteps, SameSession
<1>3. CASE Finish(c, "ok")
  BY <1>1, <1>3, FinishSound
  DEF ProbeSettled, EndMove, CallSound, WriteSteps, SweepSteps
<1>4. QED
  BY <1>2, <1>3 DEF ProbeSettled, NextProbe

LEMMA ProbeUnansweredSound ==
  ASSUME IInv, NEW c \in Calls, ProbeUnanswered(c)
  PROVE  IInv'
<1>1. call[c] \in CallState
  BY CallFacts
<1>2. [call[c] EXCEPT !.step = "check"]
      = [call[c] EXCEPT !.step = "check", !.probe = call[c].probe]
  BY <1>1 DEF CallState
<1>3. call[c].probe \in Nat
  BY <1>1 DEF CallState
<1>4. QED
  BY <1>2, <1>3, SweepStep DEF ProbeUnanswered, SweepSteps

LEMMA SessionLostSound ==
  ASSUME IInv, NEW c \in Calls, SessionLost(c)
  PROVE  IInv'
<1> DEFINE s == [call[c] EXCEPT !.at = "login", !.step = "repeat",
                                !.lost = call[c].lost + 1, !.mine = generation + 1]
<1>1. /\ CallSound(call[c]) /\ call[c] \in CallState
      /\ generation + 1 \in Nat /\ generation + 1 # 0
  BY CallFacts DEF IInv, SessionSound
<1>2. s \in CallState
  <2>1. call[c].lost + 1 \in Nat
    BY <1>1 DEF CallState
  <2>2. QED
    BY <1>1, <2>1 DEF CallState, Steps
<1>3. /\ s.at = "login" /\ s.step = "repeat" /\ s.mine = generation + 1
      /\ s.gen = call[c].gen /\ s.op = call[c].op /\ s.orphan = call[c].orphan
      /\ s.verdict = call[c].verdict /\ s.applied = call[c].applied
      /\ s.target = call[c].target /\ s.checked = call[c].checked
  BY <1>1 DEF CallState
<1>4. /\ call[c].at = "working" /\ call[c].step = "check"
      /\ Reset /\ Update(c, s) /\ UNCHANGED holder
  BY DEF SessionLost, IInv
<1> HIDE DEF s
<1>5. CallSound(s)
  BY <1>1, <1>2, <1>3, <1>4 DEF CallSound, Uncommitted, InLibrary, WriteSteps
<1>6. SessionMove(c, s) /\ WorkerMove(c, s)
  BY <1>3, <1>4 DEF SessionMove, WorkerMove
<1>7. LockMove(c, s)
  BY <1>3, <1>4 DEF LockMove, IInv, LockSound, InLibrary
<1>20. ModeMove(c, s)
  BY <1>1, <1>3, <1>4 DEF ModeMove, CallSound, CallState
<1>8. s.orphan = "none"
  BY <1>1, <1>3, <1>4 DEF CallSound
<1>9. QED
  BY <1>3, <1>4, <1>5, <1>6, <1>7, <1>8, <1>20, SoundStep

LEMMA AbandonSound ==
  ASSUME IInv, NEW c \in Calls, NEW verdict \in {"failed", "unverified"},
         call[c].at \notin {"idle", "done"}, call[c].op # "modes",
         Abandon(c, verdict), Release(c),
         \/ Reset
         \/ SameSession /\ call[c].op # "poll"
  PROVE  IInv'
<1>1. CallSound(call[c]) /\ call[c] \in CallState /\ call[c].orphan = "none"
  BY CallFacts DEF CallSound
<1>2. CASE call[c].at \in InLibrary
  <2> DEFINE s == [call[c] EXCEPT !.at = "done", !.verdict = verdict,
                                  !.orphan = call[c].at]
  <2>1. s \in CallState
    BY <1>1, <1>2 DEF CallState, InLibrary
  <2>2. /\ s.at = "done" /\ s.step = call[c].step /\ s.mine = call[c].mine
        /\ s.gen = call[c].gen
        /\ s.op = call[c].op /\ s.orphan = call[c].at
        /\ s.verdict = verdict /\ s.applied = call[c].applied
        /\ s.target = call[c].target /\ s.checked = call[c].checked
    BY <1>1 DEF CallState
  <2>3. Update(c, s)
    BY <1>2 DEF Abandon, IInv
  <2> HIDE DEF s
  <2>4. CallSound(s)
    BY <1>1, <1>2, <2>1, <2>2 DEF CallSound, Uncommitted, InLibrary
  <2>5. SessionMove(c, s) /\ WorkerMove(c, s)
    BY <2>2 DEF SessionMove, WorkerMove
  <2>6. LockMove(c, s)
    BY <2>2, CallsAssumption DEF LockMove, Release, InLibrary
  <2>20. ModeMove(c, s)
    BY <1>1, <2>2 DEF ModeMove, CallSound, CallState
  <2>7. QED
    BY <2>2, <2>3, <2>4, <2>5, <2>6, <2>20, SoundStep
<1>3. CASE call[c].at \notin InLibrary
  <2>1. /\ call[c].applied \in {0, 1} /\ ~call[c].checked
        /\ call[c].applied >= call[c].applied
    BY <1>1, <1>3 DEF CallSound, CallState, InLibrary
  <2>2. call[c] = [call[c] EXCEPT !.applied = call[c].applied]
    BY <1>1 DEF CallState
  <2>3. Update(c, Ended([call[c] EXCEPT !.applied = call[c].applied], verdict))
        /\ EndMove(c)
    BY <1>3, <2>2 DEF Abandon, EndMove
  <2>4. QED
    BY <1>1, <2>1, <2>3, EndSound
<1>4. QED
  BY <1>2, <1>3

LEMMA TimeoutSound ==
  ASSUME IInv, NEW c \in Calls, Timeout(c)
  PROVE  IInv'
<1>1. CASE LockTimeout(c)
  <2>1. call[c].orphan = "none" /\ ~call[c].checked
    BY <1>1, CallFacts DEF LockTimeout, CallSound
  <2>2. QED
    BY <1>1, <2>1, FinishSound DEF LockTimeout, EndMove
<1>2. CASE PollTimeout(c)
  BY <1>2, AbandonSound DEF PollTimeout, InLibrary
<1>3. CASE WriteDeadline(c)
  BY <1>3, AbandonSound DEF WriteDeadline, Writes, InLibrary
<1>4. QED
  BY <1>1, <1>2, <1>3 DEF Timeout

LEMMA ProbeLivenessSound ==
  ASSUME IInv, NEW c \in Calls, ProbeLiveness(c)
  PROVE  IInv'
<1> DEFINE s == [call[c] EXCEPT !.verdict = "rebuilt"]
<1>1. CallSound(call[c]) /\ call[c] \in CallState
  BY CallFacts
<1>2. s \in CallState
  BY <1>1 DEF CallState
<1>3. /\ s.at = "done" /\ s.step = call[c].step /\ s.mine = call[c].mine
      /\ s.gen = call[c].gen /\ s.op = "poll" /\ s.orphan = call[c].orphan
      /\ s.verdict = "rebuilt" /\ s.applied = call[c].applied
      /\ s.target = call[c].target /\ s.checked = call[c].checked
      /\ call[c].at = "done" /\ call[c].op = "poll"
  BY <1>1 DEF CallState, ProbeLiveness
<1>4. Reset /\ Update(c, s) /\ UNCHANGED holder
  BY DEF ProbeLiveness, IInv
<1> HIDE DEF s
<1>5. CallSound(s)
  BY <1>1, <1>2, <1>3 DEF CallSound, Uncommitted, InLibrary, Writes
<1>6. SessionMove(c, s) /\ WorkerMove(c, s)
  BY <1>3, <1>4 DEF SessionMove, WorkerMove
<1>7. LockMove(c, s)
  BY <1>3, <1>4 DEF LockMove, IInv, LockSound, InLibrary
<1>20. ModeMove(c, s)
  BY <1>1, <1>3, <1>4 DEF ModeMove, CallSound, CallState
<1>8. QED
  BY <1>4, <1>5, <1>6, <1>7, <1>20, SoundStep

LEMMA OrphanReturnsSound ==
  ASSUME IInv, NEW c \in Calls, OrphanReturns(c)
  PROVE  IInv'
<1>1. CallSound(call[c]) /\ call[c] \in CallState
  BY CallFacts
<1>2. /\ call[c].orphan # "none" /\ call[c].at = "done"
      /\ call[c].verdict # "ok" /\ ~call[c].checked
      /\ SameSession /\ UNCHANGED holder
  BY <1>1 DEF OrphanReturns, CallSound, SameSession, IInv
<1>3. PICK hit \in {0, 1} :
        /\ hit = 1 => call[c].step = "command"
        /\ Update(c, Ended([Hit(c, hit) EXCEPT !.orphan = "none"],
                           call[c].verdict))
  BY DEF OrphanReturns
<1> DEFINE n == call[c].applied + (IF call[c].step = "command" THEN hit ELSE 0)
<1>4. n \in {0, 1} /\ n >= call[c].applied
  BY <1>1, <1>2, <1>3 DEF CallSound, CallState, Uncommitted
<1> DEFINE t == [call[c] EXCEPT !.applied = n, !.orphan = "none"]
<1> DEFINE s == Ended(t, call[c].verdict)
<1>5. [Hit(c, hit) EXCEPT !.orphan = "none"] = t
  BY <1>1 DEF Hit, CallState
<1>6. Update(c, s)
  BY <1>3, <1>5
<1> HIDE DEF n
<1>7. /\ t \in CallState /\ t.op = call[c].op /\ t.orphan = "none"
      /\ t.applied = n /\ t.target = call[c].target /\ ~t.checked
  <2>1. n \in Nat
    BY <1>4
  <2>2. QED
    BY <1>1, <1>2, <2>1 DEF CallState
<1> HIDE DEF t
<1>8. /\ s \in CallState
      /\ s.at = "done" /\ s.step = "none" /\ s.mine = 0 /\ s.gen = 0
      /\ s.op = call[c].op /\ s.orphan = "none"
      /\ s.verdict = call[c].verdict /\ s.applied = n
      /\ s.target = call[c].target /\ ~s.checked
  <2>1. call[c].verdict \in {"none", "ok", "unverified", "failed", "rebuilt"}
    BY <1>1 DEF CallState
  <2>2. QED
    BY <1>7, <2>1 DEF Ended, CallState, Steps
<1> HIDE DEF s
<1>9. CallSound(s)
  BY <1>2, <1>4, <1>8 DEF CallSound, Uncommitted, InLibrary
<1>10. SessionMove(c, s) /\ WorkerMove(c, s)
  BY <1>2, <1>8 DEF SessionMove, WorkerMove
<1>11. LockMove(c, s)
  BY <1>2, <1>8 DEF LockMove, IInv, LockSound, InLibrary
<1>20. ModeMove(c, s)
  BY <1>1, <1>2, <1>4, <1>8 DEF ModeMove, CallSound, CallState
<1>12. QED
  BY <1>2, <1>6, <1>8, <1>9, <1>10, <1>11, <1>20, SoundStep

-----------------------------------------------------------------------------
(* The invariant.                                                          *)

LEMMA InitSound == Init => IInv
<1>1. SUFFICES ASSUME Init PROVE IInv
  OBVIOUS
<1>2. Fresh \in CallState
  BY CallsAssumption DEF Fresh, CallState, Steps
<1>3. CallSound(Fresh)
  BY <1>2 DEF CallSound, Fresh, InLibrary
<1>4. \A c \in Calls : call[c] = Fresh
  BY <1>1 DEF Init
<1>5. call \in [Calls -> CallState]
  BY <1>1, <1>2 DEF Init
<1>6. SessionSound
  BY <1>1, <1>4 DEF Init, SessionSound, Fresh
<1>7. LockSound /\ WedgedClientDropped /\ WorkerSound
  BY <1>1, <1>4, CallsAssumption
  DEF Init, LockSound, WedgedClientDropped, WorkerSound, Fresh, InLibrary
<1>8. ModeSound /\ overtaken \in SUBSET Nat /\ CheckSound
  BY <1>1, <1>4, CallsAssumption DEF Init, ModeSound, Given, CheckSound, Fresh
<1>9. QED
  BY <1>1, <1>3, <1>4, <1>5, <1>6, <1>7, <1>8 DEF Init, IInv, PremiseIsCurrent

LEMMA NextSound == IInv /\ [Next]_vars => IInv'
<1>1. SUFFICES ASSUME IInv, [Next]_vars PROVE IInv'
  OBVIOUS
<1>2. CASE UNCHANGED vars
  BY <1>1, <1>2 DEF vars, IInv, SessionSound, LockSound, WedgedClientDropped,
     PremiseIsCurrent, WorkerSound, ModeSound, CheckSound
<1>3. ASSUME NEW c \in Calls, NEW op \in Ops, Begin(c, op)
      PROVE  IInv'
  BY <1>1, <1>3, BeginSound
<1>4. ASSUME NEW c \in Calls, BeginModes(c)
      PROVE  IInv'
  BY <1>1, <1>4, BeginModesSound
<1>5. ASSUME NEW c \in Calls, CallStep(c)
      PROVE  IInv'
  BY <1>1, <1>5, AcquireSound, LoginSucceedsSound, LoginFailsSound,
     WorkAnswersSound, WorkFailsSound, LogoutFailsSound, AnswerUnknownSound,
     SettlesSound, ReadBackAnswersSound, FetchPremiseSound, FetchAnswersSound,
     ProbeSettledSound, ProbeUnansweredSound, SessionLostSound, ProbeLivenessSound, TimeoutSound, OrphanReturnsSound
  DEF CallStep
<1>6. QED
  BY <1>1, <1>2, <1>3, <1>4, <1>5 DEF Next

LEMMA Invariance == Spec => []IInv
BY InitSound, NextSound, PTL DEF Spec

(* Every variable keeps its type and no call waits or works without a      *)
(* step, for every number of calls.                                        *)
THEOREM TypeCorrect == Spec => []TypeOK
<1>1. IInv => TypeOK
  BY DEF IInv, CallSound, SessionSound, ModeSound, TypeOK
<1>2. QED
  BY <1>1, Invariance, PTL

(* `_locked` gives the lock back on every way out of every call.           *)
THEOREM LockSafe == Spec => []LockSound
<1>1. IInv => LockSound
  BY DEF IInv
<1>2. QED
  BY <1>1, Invariance, PTL

(* `_execute_with_retry`, the deadlines and their orphans apply a command  *)
(* at most once per call.                                                  *)
THEOREM CommandOnce == Spec => []AtMostOnce
<1>1. IInv => AtMostOnce
  BY DEF IInv, CallSound, AtMostOnce
<1>2. QED
  BY <1>1, Invariance, PTL

(* A write that reports success took effect, or is a network mode that the *)
(* router showed and that some call set, or that it had from the start.    *)
THEOREM SuccessIsReal == Spec => []OkMeansApplied
<1>1. ASSUME IInv, NEW c \in Calls, call[c].op \in Writes,
             call[c].verdict = "ok", call[c].applied # 1
      PROVE  call[c].op = "netmode" /\ SetByAnother(c)
  <2>1. call[c].op = "netmode"
    BY <1>1 DEF IInv, CallSound
  <2>2. Given(call, call[c].target)
    BY <1>1, <2>1 DEF IInv, ModeSound
  <2>3. QED
    BY <1>1, <2>1, <2>2 DEF Given, SetByAnother
<1>2. IInv => OkMeansApplied
  BY <1>1 DEF OkMeansApplied
<1>3. QED
  BY <1>2, Invariance, PTL

(* `invalidate` keeps the client of a timed-out poll from every later      *)
(* call, whatever logins were under way.                                   *)
THEOREM WedgedClientGone == Spec => []WedgedClientDropped
<1>1. IInv => WedgedClientDropped
  BY DEF IInv
<1>2. QED
  BY <1>1, Invariance, PTL

(* `_read_premise` keeps no answer measured before the last reset, except  *)
(* where the reset fell between its check of the generation and its write. *)
THEOREM PremiseCurrent == Spec => []PremiseIsCurrent
<1>1. IInv => PremiseIsCurrent
  BY DEF IInv
<1>2. QED
  BY <1>1, Invariance, PTL

-----------------------------------------------------------------------------
(* The requests of a sweep.                                                *)

(* A worker that is started is given the client the API holds.             *)
LEMMA ProceedIsCurrent ==
  ASSUME IInv, NEW c \in Calls, NEW step, Proceed(c, step),
         call'[c].at = "working"
  PROVE  call'[c].mine = client'
<1> DEFINE again == call[c].op = "poll" /\ call[c].again
<1>1. call \in [Calls -> CallState] /\ call[c] \in CallState
  BY CallFacts DEF IInv
<1>2. CASE Work(c, step, client, again) /\ SameSession
  BY <1>1, <1>2 DEF Work, Update, SameSession, CallState
<1>3. CASE Login(c, step, again)
  BY <1>1, <1>3 DEF Login, Update, CallState
<1>4. QED
  BY <1>2, <1>3 DEF Proceed

LEMMA EndIsNoRequest ==
  ASSUME IInv, NEW c \in Calls, NEW verdict,
         Finish(c, verdict) \/ Abandon(c, verdict)
  PROVE  call'[c].at # "working"
<1>1. call \in [Calls -> CallState] /\ call[c] \in CallState
  BY CallFacts DEF IInv
<1>2. CASE Update(c, Ended(call[c], verdict))
  BY <1>1, <1>2 DEF Update, Ended, CallState
<1>3. CASE Update(c, [call[c] EXCEPT !.at = "done", !.verdict = verdict,
                                     !.orphan = call[c].at])
  BY <1>1, <1>3 DEF Update, CallState
<1>4. QED
  BY <1>2, <1>3 DEF Finish, Abandon

LEMMA RaiseIsCurrent ==
  ASSUME IInv, NEW c \in Calls, NEW why, Raise(c, why), call'[c].at = "working"
  PROVE  call'[c].mine = client'
<1>1. CASE Proceed(c, "command")
  BY <1>1, ProceedIsCurrent
<1>2. CASE Update(c, [call[c] EXCEPT !.at = "waiting", !.again = TRUE,
                                     !.mine = 0, !.gen = 0])
  BY <1>2, CallFacts DEF IInv, Update, CallState
<1>3. QED
  BY <1>1, <1>2, EndIsNoRequest DEF Raise

LEMMA RequestIsCurrent ==
  ASSUME IInv, NEW c \in Calls, CallStep(c), call'[c] # call[c],
         call'[c].at = "working", call[c].op = "sweep",
         \A d \in Calls : call[d].op # "modes"
  PROVE  call'[c].mine = client'
<1>1. /\ call \in [Calls -> CallState] /\ call[c] \in CallState
      /\ CallSound(call[c])
      /\ \A hit \in {0, 1} : call[c].applied + hit \in Nat
  BY CallFacts DEF IInv, CallState
<1>2. CASE Acquire(c)
  <2>1. CASE Login(c, "login", FALSE) \/ Finish(c, "ok")
    BY <1>1, <2>1, EndIsNoRequest DEF Login, Update, CallState
  <2>2. CASE Work(c, "logout", client, FALSE) /\ SameSession
    BY <1>1, <2>2 DEF Work, Update, SameSession, CallState
  <2>3. QED
    BY <1>2, <2>1, <2>2, ProceedIsCurrent DEF Acquire
<1>3. CASE LoginSucceeds(c)
  <2>1. CASE Work(c, call[c].step, call[c].mine, call[c].again)
    BY <1>1, <1>3, <2>1 DEF LoginSucceeds, Work, Update, CallState
  <2>2. QED
    BY <1>3, <2>1, EndIsNoRequest DEF LoginSucceeds
<1>4. CASE LoginFails(c) \/ FetchAnswers(c)
  BY <1>4, RaiseIsCurrent, EndIsNoRequest DEF LoginFails, FetchAnswers
<1>5. ASSUME NEW hit \in {0, 1}, NEW v, Update(c, Ended(Hit(c, hit), v))
      PROVE  FALSE
  BY <1>1, <1>5 DEF Update, Ended, Hit, CallState
<1>6. CASE WorkAnswers(c)
  BY <1>5, <1>6, ProceedIsCurrent DEF WorkAnswers
<1>7. CASE WorkFails(c)
  <2>1. ASSUME NEW hit \in {0, 1},
               Update(c, [Hit(c, hit) EXCEPT !.at = "login", !.again = TRUE,
                                             !.mine = generation + 1])
        PROVE  FALSE
    BY <1>1, <2>1 DEF Update, Hit, CallState
  <2>2. QED
    BY <1>5, <1>7, <2>1, RaiseIsCurrent DEF WorkFails
<1>8. CASE LogoutFails(c) \/ Timeout(c)
  BY <1>8, EndIsNoRequest
  DEF LogoutFails, Timeout, LockTimeout, PollTimeout, WriteDeadline
<1>9. CASE AnswerUnknown(c)
  BY <1>9 DEF AnswerUnknown
<1>10. CASE Settles(c)
  BY <1>1, <1>10 DEF Settles, Update, CallState
<1>11. CASE ReadBackAnswers(c) \/ FetchChecksPremise(c) \/ FetchKeepsPremise(c)
  BY <1>1, <1>11
  DEF ReadBackAnswers, FetchChecksPremise, FetchKeepsPremise, Fetching, CallSound
<1>12. ASSUME ~ClientReset(c), call[c].at = "working"
       PROVE  call[c].mine = client
  BY <1>12 DEF ClientReset, IInv, WorkerSound
<1>13. CASE ProbeSettled(c)
  <2>1. CASE /\ ~ClientReset(c)
             /\ Update(c, [call[c] EXCEPT !.step = "probe", !.probe = @ + 1])
    BY <1>1, <1>12, <1>13, <2>1 DEF ProbeSettled, Update, SameSession, CallState
  <2>2. QED
    BY <1>13, <2>1, EndIsNoRequest DEF ProbeSettled, NextProbe
<1>14. CASE ProbeUnanswered(c)
  BY <1>1, <1>12, <1>14 DEF ProbeUnanswered, Update, SameSession, CallState
<1>15. CASE SessionLost(c)
  BY <1>1, <1>15 DEF SessionLost, Update, CallState
<1>16. CASE OrphanReturns(c)
  BY <1>1, <1>16 DEF OrphanReturns, Update, Ended, Hit, CallState
<1>17. CASE ProbeLiveness(c)
  BY <1>17 DEF ProbeLiveness
<1>18. QED
  BY <1>2, <1>3, <1>4, <1>6, <1>7, <1>8, <1>9, <1>10, <1>11, <1>13, <1>14,
     <1>15, <1>16, <1>17 DEF CallStep

(* A step of one call leaves the record of every other as it is.           *)
LEMMA OthersStay ==
  ASSUME IInv, NEW c \in Calls, NEW d \in Calls, d # c,
         CallStep(d) \/ BeginModes(d) \/ \E op \in Ops : Begin(d, op)
  PROVE  call'[c] = call[c]
<1>1. call \in [Calls -> CallState]
  BY DEF IInv
<1>2. ASSUME NEW s, Update(d, s) PROVE call'[c] = call[c]
  BY <1>1, <1>2 DEF Update
<1>3. \A step : Proceed(d, step) => call'[c] = call[c]
  BY <1>2 DEF Proceed, Work, Login
<1>4. \A v : Finish(d, v) \/ Abandon(d, v) => call'[c] = call[c]
  BY <1>2 DEF Finish, Abandon
<1>5. \A why : Raise(d, why) => call'[c] = call[c]
  BY <1>2, <1>3, <1>4 DEF Raise
<1>6. CASE BeginModes(d) \/ \E op \in Ops : Begin(d, op)
  BY <1>2, <1>6 DEF BeginModes, Begin
<1>7. CASE Acquire(d) \/ LoginSucceeds(d) \/ LoginFails(d)
  BY <1>2, <1>3, <1>4, <1>5, <1>7 DEF Acquire, LoginSucceeds, LoginFails, Work, Login
<1>8. CASE WorkAnswers(d) \/ WorkFails(d) \/ LogoutFails(d)
  BY <1>2, <1>3, <1>4, <1>5, <1>8 DEF WorkAnswers, WorkFails, LogoutFails
<1>9. CASE AnswerUnknown(d) \/ Settles(d) \/ ReadBackAnswers(d)
  BY <1>2, <1>4, <1>9 DEF AnswerUnknown, Settles, ReadBackAnswers
<1>10. CASE FetchChecksPremise(d) \/ FetchKeepsPremise(d) \/ FetchAnswers(d)
  BY <1>2, <1>4, <1>5, <1>10
  DEF FetchChecksPremise, FetchKeepsPremise, FetchAnswers
<1>11. CASE ProbeSettled(d) \/ ProbeUnanswered(d) \/ SessionLost(d)
  BY <1>2, <1>4, <1>11 DEF ProbeSettled, NextProbe, ProbeUnanswered, SessionLost
<1>12. CASE Timeout(d) \/ OrphanReturns(d) \/ ProbeLiveness(d)
  BY <1>2, <1>4, <1>12
  DEF ProbeLiveness, Timeout, LockTimeout, PollTimeout, WriteDeadline, OrphanReturns
<1>13. QED
  BY <1>6, <1>7, <1>8, <1>9, <1>10, <1>11, <1>12 DEF CallStep

(* What a call is, once begun, it stays.                                   *)
LEMMA OpStays ==
  ASSUME IInv, NEW c \in Calls, CallStep(c)
  PROVE  call'[c].op = call[c].op
<1>1. call \in [Calls -> CallState] /\ call[c] \in CallState
  BY CallFacts DEF IInv
<1>2. ASSUME NEW step, NEW mine, NEW again,
             Work(c, step, mine, again) \/ Login(c, step, again)
      PROVE  call'[c].op = call[c].op
  <2>1. CASE Work(c, step, mine, again)
    BY <1>1, <2>1 DEF Work, Update, CallState
  <2>2. CASE Login(c, step, again)
    BY <1>1, <2>2 DEF Login, Update, CallState
  <2>3. QED
    BY <1>2, <2>1, <2>2
<1>3. \A step : Proceed(c, step) => call'[c].op = call[c].op
  BY <1>2 DEF Proceed
<1>4. \A v : Finish(c, v) \/ Abandon(c, v) => call'[c].op = call[c].op
  <2>1. ASSUME NEW v, Update(c, Ended(call[c], v)) PROVE call'[c].op = call[c].op
    BY <1>1, <2>1 DEF Update, Ended, CallState
  <2>2. ASSUME NEW v, Update(c, [call[c] EXCEPT !.at = "done", !.verdict = v,
                                                !.orphan = call[c].at])
        PROVE  call'[c].op = call[c].op
    BY <1>1, <2>2 DEF Update, CallState
  <2>3. QED
    BY <2>1, <2>2 DEF Finish, Abandon
<1>5. ASSUME NEW hit \in {0, 1}, NEW v, Update(c, Ended(Hit(c, hit), v))
      PROVE  call'[c].op = call[c].op
  BY <1>1, <1>5 DEF Update, Ended, Hit, CallState
<1>6. \A why : Raise(c, why) => call'[c].op = call[c].op
  BY <1>1, <1>3, <1>4 DEF Raise, Update, CallState
<1>7. CASE Acquire(c) \/ LoginSucceeds(c) \/ LoginFails(c)
  BY <1>2, <1>3, <1>4, <1>6, <1>7 DEF Acquire, LoginSucceeds, LoginFails
<1>8. CASE WorkAnswers(c) \/ LogoutFails(c)
  BY <1>3, <1>4, <1>5, <1>8 DEF WorkAnswers, LogoutFails
<1>9. CASE WorkFails(c)
  <2>1. ASSUME NEW hit \in {0, 1},
               Update(c, [Hit(c, hit) EXCEPT !.at = "login", !.again = TRUE,
                                             !.mine = generation + 1])
        PROVE  call'[c].op = call[c].op
    BY <1>1, <2>1 DEF Update, Hit, CallState
  <2>2. QED
    BY <1>5, <1>6, <1>9, <2>1 DEF WorkFails
<1>10. CASE AnswerUnknown(c)
  BY <1>1, <1>10 DEF AnswerUnknown, Update, Hit, CallState
<1>11. CASE Settles(c) \/ ReadBackAnswers(c)
  <2>1. CASE Settles(c)
    BY <1>1, <2>1 DEF Settles, Update, CallState
  <2>2. CASE Update(c, [call[c] EXCEPT !.at = "settling", !.step = "reconfirm",
                                       !.again = FALSE, !.mine = 0])
    BY <1>1, <2>2 DEF Update, CallState
  <2>3. QED
    BY <1>4, <1>11, <2>1, <2>2 DEF ReadBackAnswers
<1>12. CASE FetchChecksPremise(c) \/ FetchKeepsPremise(c) \/ FetchAnswers(c)
  BY <1>1, <1>4, <1>6, <1>12
  DEF FetchChecksPremise, FetchKeepsPremise, FetchAnswers, Update, CallState
<1>13. CASE ProbeSettled(c) \/ ProbeUnanswered(c) \/ SessionLost(c)
  <2>1. CASE Update(c, [call[c] EXCEPT !.step = "probe", !.probe = @ + 1])
    BY <1>1, <2>1 DEF Update, CallState
  <2>2. CASE ProbeUnanswered(c) \/ SessionLost(c)
    BY <1>1, <2>2 DEF ProbeUnanswered, SessionLost, Update, CallState
  <2>3. QED
    BY <1>4, <1>13, <2>1, <2>2 DEF ProbeSettled, NextProbe
<1>14. CASE Timeout(c) \/ ProbeLiveness(c)
  BY <1>1, <1>4, <1>14
  DEF Timeout, LockTimeout, PollTimeout, WriteDeadline, ProbeLiveness, Update, CallState
<1>15. CASE OrphanReturns(c)
  BY <1>1, <1>15 DEF OrphanReturns, Update, Ended, Hit, CallState
<1>16. QED
  BY <1>7, <1>8, <1>9, <1>10, <1>11, <1>12, <1>13, <1>14, <1>15 DEF CallStep

(* `_probe_sweep` never asks on a client that was dropped under it.        *)
THEOREM SweepSafe == Spec => SweepOnCurrentClient
<1>1. ASSUME IInv, IInv', [Next]_vars, NEW c \in Calls,
             call'[c].op = "sweep", call'[c].at = "working", call'[c] # call[c],
             \A d \in Calls : call'[d].op # "modes"
      PROVE  call'[c].mine = client'
  <2>1. ~UNCHANGED vars
    BY <1>1 DEF vars
  <2>2. PICK d \in Calls : CallStep(d) \/ BeginModes(d) \/ \E op \in Ops : Begin(d, op)
    BY <1>1, <2>1 DEF Next
  <2>3. d = c
    BY <1>1, <2>2, OthersStay
  <2>4. call \in [Calls -> CallState] /\ call[c] \in CallState
    BY <1>1, CallFacts DEF IInv
  <2>5. CASE BeginModes(c)
    BY <1>1, <2>4, <2>5 DEF BeginModes, Update, CallState
  <2>6. CASE \E op \in Ops : Begin(c, op)
    BY <1>1, <2>4, <2>6 DEF Begin, Update, CallState
  <2>7. CASE CallStep(c)
    <3>1. \A e \in Calls : call[e].op = call'[e].op
      <4>1. call[c].op = call'[c].op
        BY <1>1, <2>7, OpStays
      <4>2. ASSUME NEW e \in Calls, e # c PROVE call'[e] = call[e]
        BY <1>1, <2>7, <4>2, OthersStay
      <4>3. QED
        BY <4>1, <4>2
    <3>2. QED
      BY <1>1, <2>7, <3>1, RequestIsCurrent
  <2>8. QED
    BY <2>2, <2>3, <2>5, <2>6, <2>7
<1>2. IInv /\ IInv' /\ [Next]_vars => [SweepAsksCurrent]_vars
  BY <1>1 DEF SweepAsksCurrent
<1>3. QED
  BY <1>2, Invariance, PTL DEF Spec, SweepOnCurrentClient
=============================================================================
