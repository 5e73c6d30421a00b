------------------------ MODULE HardwareCheckProofs ------------------------
(***************************************************************************)
(* Proofs about HardwareCheck, for any modes, any position the settings    *)
(* are found in and any bound of stray writes.                             *)
(***************************************************************************)
EXTENDS HardwareCheck, TLAPS

(* The type invariant in parts.  What a check read is a value of its       *)
(* setting, or nothing.                                                    *)
AllValues == {"on", "off"} \cup Modes \cup {INVALID_NET_MODE}

RouterTypeOK ==
  /\ Sound(setting) /\ Sound(found)
  /\ late \subseteq {w \in Settings \X AllValues : w[2] \in Values(w[1])}

BeforeOK == before = None \/ before \in Values(SettingOf(Now))

CheckTypeOK == check \in 0..Len(Checks)

ScriptTypeOK ==
  /\ step \in Steps /\ radio_on \in {"on", "off", None} /\ enabled_here \in BOOLEAN
  /\ exc \in {"none", "raised", "stalled", "interrupted"}
  /\ failed \in BOOLEAN /\ lost \in BOOLEAN
  /\ blind \subseteq Settings /\ reconnected \in BOOLEAN

SessionTypeOK == session \in {"up", "blank", "down"}

Types == RouterTypeOK /\ BeforeOK /\ CheckTypeOK /\ ScriptTypeOK /\ SessionTypeOK

(* Which check can be where.                                               *)
Testing == Toggles \cup ModeChecks
Sessions == {"reconnect", "reboot"}

PlaceInv ==
  /\ step \in {"start", "offer", "enable", "settle", "read"} => before = None
  /\ step \in {"start", "offer", "enable", "settle"} => ~enabled_here
  /\ step = "start" => ~failed /\ exc = "none" /\ ~reconnected
  /\ step = "offer" => check \in DOMAIN Checks
  /\ step \in {"enable", "settle", "radio"} \/ enabled_here => Now = "guest"
  /\ step = "enable" => radio_on = "off"
  /\ step \in {"read", "write", "restore"} => Now \in Testing
  /\ step = "verify" => Now \in Testing \cup Reports
  /\ step \in {"write", "verify", "restore"} /\ Now \in Toggles => before # None
  /\ step = "confirm" => Now \in {"net_mode", "refused_write"}
  /\ step \in {"send", "wait"} \/ reconnected => Now \in Sessions

(* A check that restored its setting leaves it so until it ends.           *)
Restoring == Toggles \cup {"ha_contention", "net_mode"}

PutInv ==
  (/\ step \in {"confirm", "radio", "over"} /\ Now \in Restoring
   /\ before # None /\ ~lost)
    => setting[SettingOf(Now)] = before

(* While no row is failing, every setting some row looks at is as found    *)
(* but the one under test, whose value is in `before`, and a radio enabled *)
(* for the guest check; radios found mixed no longer count once they were  *)
(* written.  And the session is up after the wait for it.                  *)
Ok     == ~failed /\ exc = "none"
Busy   == step \in {"write", "verify", "restore", "confirm"} /\ Now \notin Reports
WifiUp == step \in {"settle", "radio"}
          \/ (enabled_here /\ step \in {"read", "write", "verify", "restore"})

TestKnown  == Busy /\ SettingOf(Now) \notin blind
                => before # None /\ found[SettingOf(Now)] \in {before, Mixed}
OnlyTested == \A s \in Settings \ blind :
                \/ setting[s] = found[s]
                \/ /\ found[s] # Mixed
                   /\ \/ Busy /\ step # "write" /\ s = SettingOf(Now)
                      \/ WifiUp /\ s = "wifi"
RadioKnown == (WifiUp \/ radio_on = "off") /\ "wifi" \notin blind
                => found["wifi"] \in {"off", Mixed}
SessionUp  == reconnected /\ step # "wait" /\ blind \cap Dropping = {} => session = "up"

CleanInv == Ok => TestKnown /\ OnlyTested /\ RadioKnown /\ SessionUp

IInv == Types /\ PlaceInv /\ PutInv /\ CleanInv

-----------------------------------------------------------------------------
LEMMA SettingType ==
  /\ SettingOf(Now) \in Settings
  /\ Now = "guest" => SettingOf(Now) = "guest"
  /\ Now \in Toggles => SettingOf(Now) = Now
  /\ Now \notin Toggles => SettingOf(Now) = "mode"
BY DEF SettingOf, Settings, Toggles

LEMMA ValuesType ==
  ASSUME NEW s \in Settings
  PROVE  Values(s) \subseteq AllValues
BY DEF Values, AllValues

LEMMA TargetsType == Targets \subseteq Values(SettingOf(Now))
<1>1. {"00", "03"} \subseteq Modes
  BY HardwareAssumption
<1>2. CASE Now \in Toggles
  BY <1>2, SettingType DEF Targets, Values, Toggles
<1>3. CASE Now \notin Toggles
  BY <1>1, <1>3, SettingType DEF Targets, Values, Toggles
<1>4. QED
  BY <1>2, <1>3

LEMMA NowSame ==
  ASSUME UNCHANGED check
  PROVE  Now' = Now /\ SettingOf(Now)' = SettingOf(Now)
BY DEF Now, SettingOf

(* The checks by their place; those of the session are the last two.       *)
LEMMA NowIs ==
  ASSUME CheckTypeOK
  PROVE  /\ DOMAIN Checks = 1..10 /\ Len(Checks) = 10
         /\ check \in DOMAIN Checks => Now \in Testing \cup Reports \cup Sessions
         /\ Now \in Sessions <=> check \in {9, 10}
BY DEF CheckTypeOK, Now, Checks, Testing, Reports, Sessions, Toggles, ModeChecks

(* Only radios are found mixed; a read of them may say either.             *)
LEMMA ReadingType ==
  ASSUME NEW s \in Settings, Sound(setting)
  PROVE  /\ Reading(s) \subseteq Values(s)
         /\ setting[s] = Mixed => s = "wifi"
         /\ setting[s] # Mixed => Reading(s) = {setting[s]}
<1>1. setting[s] \in Positions(s) /\ Mixed \notin Modes
  BY HardwareAssumption DEF Sound
<1>2. CASE s \in Toggles
  BY <1>1, <1>2 DEF Positions, Values, Reading, Mixed, Toggles
<1>3. CASE s \notin Toggles
  BY <1>1, <1>3 DEF Positions, Values, Reading, Mixed, INVALID_NET_MODE, Toggles, Settings
<1>4. QED
  BY <1>2, <1>3

LEMMA FoundType ==
  ASSUME RouterTypeOK
  PROVE  found["mode"] # Mixed
<1>1. found["mode"] \in Positions("mode") /\ Mixed \notin Modes
  BY HardwareAssumption DEF RouterTypeOK, Sound, Settings
<1>2. QED
  BY <1>1 DEF Positions, Values, Mixed, INVALID_NET_MODE, Toggles

(* Writing one setting leaves the others.                                  *)
LEMMA WithSound ==
  ASSUME Sound(setting), NEW s \in Settings, NEW v \in Values(s)
  PROVE  /\ Sound(With(s, v)) /\ With(s, v)[s] = v
         /\ \A t \in Settings \ {s} : With(s, v)[t] = setting[t]
<1>1. v \in AllValues /\ v \in Positions(s)
  BY ValuesType DEF Positions
<1>2. With(s, v) \in AllSettings
  BY <1>1 DEF Sound, AllSettings, With, AllValues
<1>3. With(s, v)[s] = v /\ \A t \in Settings \ {s} : With(s, v)[t] = setting[t]
  BY <1>1 DEF Sound, AllSettings, With
<1>4. QED
  BY <1>1, <1>2, <1>3 DEF Sound

LEMMA AnsweredType ==
  ASSUME RouterTypeOK, ScriptTypeOK, NEW s \in Settings, NEW v \in Values(s), Answered(s, v),
         UNCHANGED found
  PROVE  /\ RouterTypeOK' /\ setting'[s] = v /\ lost' = lost
         /\ \A t \in Settings \ {s} : setting'[t] = setting[t]
         /\ blind \subseteq blind' /\ blind' \subseteq blind \cup {s}
         /\ setting[s] = Mixed => s \in blind'
<1>1. setting' = With(s, v) /\ late' = late /\ lost' = lost
  BY DEF Answered
<1>2. blind' = blind \cup Levelled(s)
  BY DEF Answered
<1>3. RouterTypeOK'
  BY <1>1, WithSound DEF RouterTypeOK, Sound, AllSettings
<1>4. QED
  BY <1>1, <1>2, <1>3, WithSound DEF Levelled, RouterTypeOK

LEMMA DoubtfulType ==
  ASSUME RouterTypeOK, ScriptTypeOK, NEW s \in Settings, NEW v \in Values(s), Doubtful(s, v),
         UNCHANGED found
  PROVE  /\ RouterTypeOK' /\ lost' \in BOOLEAN
         /\ s = SettingOf(Now) => lost' = TRUE
         /\ s # SettingOf(Now) => lost' = lost
         /\ \A t \in Settings \ {s} : setting'[t] = setting[t]
<1>1. v \in AllValues
  BY ValuesType
<1>2. <<s, v>> \in {w \in Settings \X AllValues : w[2] \in Values(w[1])}
  BY <1>1
<1>3. /\ late' \subseteq {w \in Settings \X AllValues : w[2] \in Values(w[1])}
      /\ setting' \in {setting, With(s, v)}
  BY <1>2 DEF Doubtful, RouterTypeOK
<1>4. /\ Sound(setting)' /\ Sound(found)'
      /\ \A t \in Settings \ {s} : setting'[t] = setting[t]
  BY <1>3, WithSound DEF RouterTypeOK, Sound, AllSettings
<1>5. lost' \in BOOLEAN /\ (s = SettingOf(Now) => lost' = TRUE) /\ (s # SettingOf(Now) => lost' = lost)
  BY DEF Doubtful, ScriptTypeOK
<1>6. QED
  BY <1>3, <1>4, <1>5 DEF RouterTypeOK

(* However a write ends, only its setting moves and only it can be blind.  *)
LEMMA ReturnsType ==
  ASSUME RouterTypeOK, ScriptTypeOK, NEW s \in Settings, NEW v \in Values(s), Returns(s, v),
         UNCHANGED found
  PROVE  /\ RouterTypeOK' /\ lost' \in BOOLEAN
         /\ \A t \in Settings \ {s} : setting'[t] = setting[t]
         /\ blind \subseteq blind' /\ blind' \subseteq blind \cup {s}
         /\ setting[s] = Mixed => s \in blind'
         /\ s # SettingOf(Now) => lost' = lost
         /\ s = SettingOf(Now) => lost' = TRUE \/ (setting'[s] = v /\ lost' = lost)
<1>1. CASE Answered(s, v)
  BY <1>1, AnsweredType DEF ScriptTypeOK
<1>2. CASE Doubtful(s, v) /\ blind' = blind \cup Levelled(s)
  BY <1>2, DoubtfulType DEF Levelled
<1>3. QED
  BY <1>1, <1>2 DEF Returns

LEMMA RouterSame ==
  ASSUME RouterTypeOK, UNCHANGED <<setting, late, found>>
  PROVE  RouterTypeOK'
BY DEF RouterTypeOK, Sound, AllSettings

(* What the steps of a test leave alone.  No test follows a reconnect.     *)
LEMMA HeldType ==
  ASSUME Types, Held
  PROVE  /\ CheckTypeOK' /\ SessionTypeOK' /\ Now' = Now /\ SettingOf(Now)' = SettingOf(Now)
         /\ UNCHANGED <<found, radio_on, reconnected, check>>
BY NowSame DEF Types, Held, CheckTypeOK, SessionTypeOK, Redials

LEMMA TestFirst ==
  ASSUME PlaceInv, step \in {"enable", "settle", "read", "write", "verify", "restore",
                             "confirm", "radio"}
  PROVE  ~reconnected
<1>1. Now \notin Sessions
  BY DEF PlaceInv, Testing, Toggles, ModeChecks, Reports, Sessions
<1>2. QED
  BY <1>1 DEF PlaceInv

LEMMA CutType ==
  ASSUME ScriptTypeOK, Cut
  PROVE  exc' \in {"stalled", "interrupted"}
BY DEF Cut

(* A failure leaves nothing to be said of clean runs.                      *)
LEMMA CleanVacuous ==
  ASSUME ~Ok'
  PROVE  CleanInv'
BY DEF CleanInv

LEMMA FailedClean ==
  ASSUME failed' = TRUE \/ exc' # "none"
  PROVE  CleanInv'
BY DEF CleanInv, Ok

LEMMA BlindType ==
  ASSUME ScriptTypeOK, NEW s \in Settings, blind' \subseteq blind \cup {s}
  PROVE  blind' \subseteq Settings
BY DEF ScriptTypeOK

-----------------------------------------------------------------------------
LEMMA InitInv == Init => IInv
<1> SUFFICES ASSUME Init PROVE IInv
  OBVIOUS
<1>1. RouterTypeOK
  BY DEF Init, RouterTypeOK
<1>2. CheckTypeOK
  BY DEF Init, CheckTypeOK, Checks
<1>3. BeforeOK /\ ScriptTypeOK /\ SessionTypeOK
  BY DEF Init, BeforeOK, ScriptTypeOK, Steps, SessionTypeOK
<1>4. PlaceInv /\ PutInv
  BY DEF Init, PlaceInv, PutInv
<1>5. CleanInv
  BY DEF Init, CleanInv, TestKnown, OnlyTested, RadioKnown, SessionUp, Busy, WifiUp, None
<1>6. QED
  BY <1>1, <1>2, <1>3, <1>4, <1>5 DEF IInv, Types

LEMMA StrayAppliesInv ==
  ASSUME IInv, StrayApplies
  PROVE  IInv'
<1> USE DEF IInv, Types
<1>1. PICK w \in late : /\ setting' = With(w[1], w[2]) /\ late' = late \ {w}
                        /\ blind' = blind \cup {w[1]} /\ lost' = (lost \/ w[1] = SettingOf(Now))
  BY DEF StrayApplies
<1>2. w[1] \in Settings /\ w[2] \in Values(w[1])
  BY DEF RouterTypeOK
<1>3. \A t \in Settings \ {w[1]} : setting'[t] = setting[t]
  BY <1>1, <1>2, WithSound DEF RouterTypeOK
<1>4. RouterTypeOK'
  BY <1>1, <1>2, WithSound DEF StrayApplies, RouterTypeOK, Sound, AllSettings
<1>5. /\ Now' = Now /\ SettingOf(Now)' = SettingOf(Now)
      /\ UNCHANGED <<check, step, before, radio_on, enabled_here, exc, failed, found, reconnected>>
  BY NowSame DEF StrayApplies, script
<1>6. lost' \in BOOLEAN /\ blind' \subseteq Settings
  BY <1>1, <1>2 DEF ScriptTypeOK
<1>7. BeforeOK' /\ CheckTypeOK' /\ ScriptTypeOK' /\ SessionTypeOK' /\ PlaceInv'
  <2>1. SessionTypeOK'
    BY DEF StrayApplies, Redials, SessionTypeOK
  <2>2. QED
    BY <1>5, <1>6, <2>1 DEF BeforeOK, CheckTypeOK, ScriptTypeOK, PlaceInv
<1>8. PutInv'
  BY <1>1, <1>3, <1>5, SettingType DEF PutInv
<1>9. CleanInv'
  <2>1. SUFFICES ASSUME Ok' PROVE CleanInv'
    BY CleanVacuous
  <2>2. TestKnown /\ OnlyTested /\ RadioKnown /\ SessionUp
    BY <1>5, <2>1 DEF CleanInv, Ok
  <2>3. (Busy' <=> Busy) /\ (WifiUp' <=> WifiUp)
    BY <1>5 DEF Busy, WifiUp
  <2>4. TestKnown' /\ RadioKnown'
    BY <1>1, <1>5, <2>2, <2>3 DEF TestKnown, RadioKnown
  <2>5. OnlyTested'
    BY <1>1, <1>3, <1>5, <2>2, <2>3 DEF OnlyTested
  <2>6. SessionUp'
    <3>1. SUFFICES ASSUME reconnected, step # "wait", blind' \cap Dropping = {}
                   PROVE  session' = "up"
      BY <1>5 DEF SessionUp
    <3>2. session = "up" /\ w[1] \notin Dropping
      BY <1>1, <2>2, <3>1 DEF SessionUp
    <3>3. \A s \in Dropping : setting'[s] = setting[s]
      BY <1>3, <3>2 DEF Dropping, Settings, Toggles
    <3>4. QED
      BY <3>2, <3>3 DEF StrayApplies, Redials
  <2>7. QED
    BY <2>4, <2>5, <2>6 DEF CleanInv
<1>10. QED
  BY <1>4, <1>7, <1>8, <1>9

LEMMA SessionReturnsInv ==
  ASSUME IInv, SessionReturns
  PROVE  IInv'
<1> USE DEF IInv, Types
<1>1. /\ Now' = Now /\ SettingOf(Now)' = SettingOf(Now)
      /\ UNCHANGED <<setting, late, check, step, before, radio_on, enabled_here, exc, failed,
                     found, lost, blind, reconnected>>
      /\ session # "up"
  BY NowSame DEF SessionReturns, script, past
<1>2. SessionTypeOK'
  BY DEF SessionReturns, SessionTypeOK
<1>3. RouterTypeOK' /\ BeforeOK' /\ CheckTypeOK' /\ ScriptTypeOK' /\ PlaceInv' /\ PutInv'
  BY <1>1, RouterSame DEF BeforeOK, CheckTypeOK, ScriptTypeOK, PlaceInv, PutInv
<1>4. CleanInv'
  BY <1>1 DEF CleanInv, TestKnown, OnlyTested, RadioKnown, SessionUp, Ok, Busy, WifiUp
<1>5. QED
  BY <1>2, <1>3, <1>4

-----------------------------------------------------------------------------
LEMMA SafeTierInv ==
  ASSUME IInv, SafeTier
  PROVE  IInv'
<1> USE DEF IInv, Types
<1>1. /\ "wifi" \in Settings /\ Reading("wifi") \subseteq {"on", "off"}
      /\ setting["wifi"] # Mixed => Reading("wifi") = {setting["wifi"]}
  BY ReadingType DEF RouterTypeOK, Settings, Toggles, Values
<1>2. /\ step = "start" /\ step' \in {"offer", "done"} /\ failed' \in BOOLEAN
      /\ step' = "offer" => check' = 1
      /\ UNCHANGED <<setting, session, late, before, enabled_here, found, lost, blind, reconnected>>
  BY DEF SafeTier, Go, router, past
<1>3. RouterTypeOK' /\ BeforeOK' /\ SessionTypeOK'
  BY <1>2, RouterSame DEF BeforeOK, SessionTypeOK, PlaceInv
<1>4. CheckTypeOK'
  BY DEF SafeTier, CheckTypeOK, Checks
<1>5. ScriptTypeOK'
  BY <1>1, <1>2 DEF SafeTier, ScriptTypeOK, Steps, Go, Raised
<1>6. PlaceInv' /\ PutInv'
  <2>1. 1 \in DOMAIN Checks
    BY DEF Checks
  <2>2. QED
    BY <1>2, <2>1 DEF PlaceInv, PutInv
<1>7. CleanInv'
  <2>1. SUFFICES ASSUME Ok' PROVE CleanInv'
    BY CleanVacuous
  <2>2. Ok
    BY <1>2 DEF Ok, PlaceInv
  <2>3. \A s \in Settings \ blind : setting[s] = found[s]
    BY <1>2, <2>2 DEF CleanInv, OnlyTested, Busy, WifiUp, PlaceInv
  <2>4. radio_on' = "off" /\ "wifi" \notin blind => found["wifi"] \in {"off", Mixed}
    <3>1. radio_on' \in Reading("wifi") \cup {None} \/ radio_on' = radio_on
      BY DEF SafeTier
    <3>2. QED
      BY <1>1, <2>2, <2>3, <3>1 DEF CleanInv, RadioKnown, None
  <2>5. TestKnown' /\ SessionUp'
    BY <1>2, <2>2 DEF TestKnown, SessionUp, Busy, PlaceInv
  <2>6. OnlyTested' /\ RadioKnown'
    BY <1>2, <2>3, <2>4 DEF OnlyTested, RadioKnown, WifiUp
  <2>7. QED
    BY <2>5, <2>6 DEF CleanInv
<1>8. QED
  BY <1>3, <1>4, <1>5, <1>6, <1>7

LEMMA OfferInv ==
  ASSUME IInv, Offer
  PROVE  IInv'
<1> USE DEF IInv, Types
<1>1. /\ Now' = Now /\ SettingOf(Now)' = SettingOf(Now)
      /\ UNCHANGED <<setting, session, late, check, before, radio_on, enabled_here, exc, failed,
                     found, lost, blind, reconnected>>
  BY NowSame DEF Offer, router, past
<1>2. step = "offer" /\ Now \in Testing \cup Reports \cup Sessions
  BY NowIs DEF Offer, PlaceInv
<1>3. /\ step' \in {"enable", "read", "verify", "send", "over"}
      /\ step' = "enable" => Now = "guest" /\ radio_on = "off"
      /\ step' = "read" => Now \in Testing
      /\ step' = "verify" => Now \in Reports
      /\ step' = "send" => Now \in Sessions
  BY <1>2 DEF Offer, FirstStep, Go, Testing, Toggles, ModeChecks, Reports, Sessions
<1>4. RouterTypeOK' /\ BeforeOK' /\ CheckTypeOK' /\ SessionTypeOK' /\ ScriptTypeOK'
  BY <1>1, <1>3, RouterSame DEF BeforeOK, CheckTypeOK, SessionTypeOK, ScriptTypeOK, Steps
<1>5. PlaceInv'
  BY <1>1, <1>2, <1>3 DEF PlaceInv, Testing, Toggles, ModeChecks, Reports
<1>6. PutInv'
  BY <1>1, <1>2, <1>3 DEF PlaceInv, PutInv
<1>7. CleanInv'
  <2>1. ~Busy /\ ~Busy' /\ ~WifiUp /\ ~WifiUp'
    BY <1>1, <1>2, <1>3 DEF Busy, WifiUp, PlaceInv
  <2>2. QED
    BY <1>1, <1>2, <1>3, <2>1 DEF CleanInv, TestKnown, OnlyTested, RadioKnown, SessionUp, Ok
<1>8. QED
  BY <1>4, <1>5, <1>6, <1>7

LEMMA CheckEndsInv ==
  ASSUME IInv, CheckEnds
  PROVE  IInv'
<1> USE DEF IInv, Types
<1>1. /\ step = "over" /\ step' \in {"done", "offer"}
      /\ step' = "done" => UNCHANGED check
      /\ step' = "offer" => check # Len(Checks) /\ check' = check + 1
      /\ before' = None /\ radio_on' = None /\ enabled_here' = FALSE /\ lost' = FALSE
      /\ UNCHANGED <<setting, session, late, found, blind, reconnected>>
  BY DEF CheckEnds, router, Go
<1>2. RouterTypeOK' /\ BeforeOK' /\ SessionTypeOK'
  BY <1>1, RouterSame DEF BeforeOK, SessionTypeOK
<1>3. CheckTypeOK' /\ (step' = "offer" => check' \in DOMAIN Checks)
  <2>1. check \in 0..10 /\ Len(Checks) = 10 /\ DOMAIN Checks = 1..10
    BY NowIs DEF CheckTypeOK
  <2>2. check' \in 0..10 /\ (step' = "offer" => check' \in 1..10)
    BY <1>1, <2>1
  <2>3. QED
    BY <2>1, <2>2 DEF CheckTypeOK
<1>4. ScriptTypeOK'
  BY <1>1 DEF CheckEnds, ScriptTypeOK, Steps
<1>5. reconnected => Now' \in Sessions
  <2>1. SUFFICES ASSUME reconnected PROVE Now' \in Sessions
    OBVIOUS
  <2>2. check \in {9, 10}
    BY <2>1, NowIs DEF PlaceInv
  <2>3. check' \in {9, 10}
    BY <1>1, <2>2, NowIs
  <2>4. QED
    BY <2>3 DEF Now, Checks, Sessions
<1>6. PlaceInv' /\ PutInv'
  BY <1>1, <1>3, <1>5 DEF PlaceInv, PutInv
<1>7. CleanInv'
  <2>1. SUFFICES ASSUME Ok' PROVE CleanInv'
    BY CleanVacuous
  <2>2. Ok
    BY <2>1 DEF CheckEnds, Ok, ScriptTypeOK
  <2>3. ~Busy /\ ~Busy' /\ ~WifiUp /\ ~WifiUp'
    BY <1>1 DEF Busy, WifiUp
  <2>4. QED
    BY <1>1, <2>2, <2>3 DEF CleanInv, TestKnown, OnlyTested, RadioKnown, SessionUp, None
<1>8. QED
  BY <1>2, <1>3, <1>4, <1>6, <1>7

-----------------------------------------------------------------------------
(* The steps around the guest check.                                       *)
LEMMA EnableRadioInv ==
  ASSUME IInv, EnableRadio
  PROVE  IInv'
<1> USE DEF IInv, Types
<1>1. "wifi" \in Settings /\ "on" \in Values("wifi")
  BY DEF Settings, Toggles, Values
<1>2. /\ CheckTypeOK' /\ SessionTypeOK' /\ Now' = Now /\ SettingOf(Now)' = SettingOf(Now)
      /\ UNCHANGED <<found, radio_on, reconnected, check, before, enabled_here, failed>>
  BY HeldType DEF EnableRadio
<1>3. step = "enable" /\ before = None /\ ~enabled_here /\ Now = "guest" /\ radio_on = "off"
  BY DEF EnableRadio, PlaceInv
<1>4. ~reconnected
  BY <1>3, TestFirst
<1>5. CASE Returns("wifi", "on") /\ Go("settle") /\ UNCHANGED exc
  <2>1. /\ RouterTypeOK' /\ lost' \in BOOLEAN
        /\ \A t \in Settings \ {"wifi"} : setting'[t] = setting[t]
        /\ blind \subseteq blind' /\ blind' \subseteq blind \cup {"wifi"}
        /\ setting["wifi"] = Mixed => "wifi" \in blind'
    BY <1>1, <1>2, <1>5, ReturnsType
  <2>2. blind' \subseteq Settings /\ step' = "settle"
    BY <1>1, <1>5, <2>1 DEF Go, ScriptTypeOK
  <2>3. BeforeOK' /\ ScriptTypeOK' /\ PlaceInv' /\ PutInv'
    BY <1>2, <1>3, <1>4, <1>5, <2>1, <2>2 DEF BeforeOK, ScriptTypeOK, PlaceInv, PutInv, Steps
  <2>4. CleanInv'
    <3>1. SUFFICES ASSUME Ok' PROVE CleanInv'
      BY CleanVacuous
    <3>2. TestKnown /\ OnlyTested /\ RadioKnown
      BY <1>2, <1>5, <3>1 DEF CleanInv, Ok
    <3>3. \A s \in Settings \ blind : setting[s] = found[s]
      BY <1>3, <3>2 DEF OnlyTested, Busy, WifiUp
    <3>4. "wifi" \notin blind' => found["wifi"] = "off"
      BY <1>1, <1>3, <2>1, <3>2, <3>3 DEF RadioKnown
    <3>5. TestKnown' /\ RadioKnown' /\ SessionUp'
      BY <1>2, <1>4, <2>2, <3>4 DEF TestKnown, RadioKnown, SessionUp, Busy
    <3>6. OnlyTested'
      BY <1>2, <2>1, <2>2, <3>3, <3>4 DEF OnlyTested, WifiUp, Mixed
    <3>7. QED
      BY <3>5, <3>6 DEF CleanInv
  <2>5. QED
    BY <1>2, <2>1, <2>3, <2>4
<1>6. CASE GivenUp("wifi", "on") /\ Go("over") /\ (Raised \/ Cut)
  <2>1. RouterTypeOK' /\ lost' \in BOOLEAN /\ blind' = blind /\ step' = "over"
    BY <1>1, <1>2, <1>6, DoubtfulType DEF GivenUp, Go
  <2>2. exc' \in {"raised", "stalled", "interrupted"}
    BY <1>6, CutType DEF Raised
  <2>3. BeforeOK' /\ ScriptTypeOK' /\ PlaceInv' /\ PutInv'
    BY <1>2, <1>3, <1>4, <2>1, <2>2 DEF BeforeOK, ScriptTypeOK, PlaceInv, PutInv, Steps
  <2>4. QED
    BY <1>2, <2>1, <2>2, <2>3, FailedClean
<1>7. QED
  BY <1>5, <1>6 DEF EnableRadio

LEMMA RadioSettlesInv ==
  ASSUME IInv, RadioSettles
  PROVE  IInv'
<1> USE DEF IInv, Types
<1>1. /\ CheckTypeOK' /\ SessionTypeOK' /\ Now' = Now /\ SettingOf(Now)' = SettingOf(Now)
      /\ UNCHANGED <<found, radio_on, reconnected, check, setting, late, before, failed, lost, blind>>
  BY HeldType DEF RadioSettles
<1>2. RouterTypeOK' /\ BeforeOK'
  BY <1>1, RouterSame DEF BeforeOK
<1>3. \/ enabled_here' = TRUE /\ step' = "read" /\ exc' = exc
      \/ step' = "over" /\ exc' \in {"stalled", "interrupted"} /\ enabled_here' = enabled_here
  BY CutType DEF RadioSettles, Go
<1>4. step = "settle" /\ before = None /\ Now = "guest"
  BY DEF RadioSettles, PlaceInv
<1>5. ~reconnected
  BY <1>4, TestFirst
<1>6. ScriptTypeOK' /\ PlaceInv' /\ PutInv'
  BY <1>1, <1>3, <1>4, <1>5 DEF ScriptTypeOK, PlaceInv, PutInv, Steps, Testing, Toggles
<1>7. CleanInv'
  <2>1. SUFFICES ASSUME Ok' PROVE CleanInv'
    BY CleanVacuous
  <2>2. Ok /\ enabled_here' /\ step' = "read"
    BY <1>1, <1>3, <2>1 DEF Ok
  <2>3. WifiUp /\ WifiUp' /\ ~Busy /\ ~Busy'
    BY <1>4, <2>2 DEF WifiUp, Busy
  <2>4. QED
    BY <1>1, <1>5, <2>2, <2>3 DEF CleanInv, TestKnown, OnlyTested, RadioKnown, SessionUp
<1>8. QED
  BY <1>1, <1>2, <1>6, <1>7

LEMMA RestoreRadioInv ==
  ASSUME IInv, RestoreRadio
  PROVE  IInv'
<1> USE DEF IInv, Types
<1>1. /\ "wifi" \in Settings /\ "guest" \in Settings /\ "guest" # "wifi"
      /\ "off" \in Values("wifi")
  BY DEF Settings, Toggles, Values
<1>2. /\ CheckTypeOK' /\ SessionTypeOK' /\ Now' = Now /\ SettingOf(Now)' = SettingOf(Now)
      /\ UNCHANGED <<found, radio_on, reconnected, check, before, enabled_here>>
  BY HeldType DEF RestoreRadio
<1>3. /\ Now = "guest" /\ SettingOf(Now) = "guest" /\ step = "radio" /\ step' = "over"
  BY SettingType DEF RestoreRadio, PlaceInv, Go
<1>4. ~reconnected
  BY <1>3, TestFirst
<1>5. ASSUME Answered("wifi", "off") \/ Doubtful("wifi", "off")
      PROVE  /\ RouterTypeOK' /\ lost' = lost
             /\ \A t \in Settings \ {"wifi"} : setting'[t] = setting[t]
  BY <1>1, <1>2, <1>3, <1>5, AnsweredType, DoubtfulType
<1>6. ASSUME lost' = lost, \A t \in Settings \ {"wifi"} : setting'[t] = setting[t]
      PROVE  PutInv'
  BY <1>1, <1>2, <1>3, <1>6 DEF PutInv
<1>7. CASE (Answered("wifi", "off") \/ Unseen("wifi", "off")) /\ UNCHANGED <<exc, failed>>
  <2>1. /\ RouterTypeOK' /\ PutInv' /\ lost' = lost
        /\ \A t \in Settings \ {"wifi"} : setting'[t] = setting[t]
    BY <1>5, <1>6, <1>7 DEF Unseen
  <2>2. /\ blind \subseteq blind' /\ blind' \subseteq blind \cup {"wifi"}
        /\ \/ "wifi" \in blind'
           \/ setting'["wifi"] = "off" /\ setting["wifi"] # Mixed
    BY <1>1, <1>2, <1>7, AnsweredType DEF Unseen
  <2>3. BeforeOK' /\ ScriptTypeOK' /\ PlaceInv'
    BY <1>1, <1>2, <1>3, <1>4, <1>7, <2>1, <2>2 DEF BeforeOK, ScriptTypeOK, PlaceInv, Steps
  <2>4. CleanInv'
    <3>1. SUFFICES ASSUME Ok' PROVE CleanInv'
      BY CleanVacuous
    <3>2. OnlyTested /\ RadioKnown
      BY <1>7, <3>1 DEF CleanInv, Ok
    <3>3. ~Busy /\ ~Busy' /\ WifiUp /\ ~WifiUp'
      BY <1>2, <1>3 DEF Busy, WifiUp
    <3>4. "wifi" \notin blind' => setting'["wifi"] = found["wifi"]
      BY <1>1, <2>2, <3>2, <3>3 DEF OnlyTested, RadioKnown
    <3>5. \A s \in Settings \ blind' : setting'[s] = found[s]
      BY <2>1, <2>2, <3>2, <3>3, <3>4 DEF OnlyTested
    <3>6. RadioKnown'
      BY <1>2, <2>2, <3>2, <3>3 DEF RadioKnown
    <3>7. QED
      BY <1>2, <1>4, <3>3, <3>5, <3>6 DEF CleanInv, TestKnown, OnlyTested, SessionUp
  <2>5. QED
    BY <1>2, <2>1, <2>3, <2>4
<1>8. CASE /\ GivenUp("wifi", "off")
           /\ (failed' = TRUE /\ UNCHANGED exc) \/ (Cut /\ UNCHANGED failed)
  <2>1. RouterTypeOK' /\ PutInv' /\ lost' = lost /\ blind' = blind
    BY <1>5, <1>6, <1>8 DEF GivenUp
  <2>2. /\ exc' \in {"none", "raised", "stalled", "interrupted"} /\ failed' \in BOOLEAN
        /\ failed' = TRUE \/ exc' # "none"
    BY <1>8, CutType DEF ScriptTypeOK
  <2>3. BeforeOK' /\ ScriptTypeOK' /\ PlaceInv'
    BY <1>2, <1>3, <1>4, <2>1, <2>2 DEF BeforeOK, ScriptTypeOK, PlaceInv, Steps
  <2>4. QED
    BY <1>2, <2>1, <2>2, <2>3, FailedClean
<1>9. QED
  BY <1>7, <1>8 DEF RestoreRadio

-----------------------------------------------------------------------------
(* The steps of a test.                                                    *)
LEMMA LastIs ==
  /\ Last \in {"radio", "over"}
  /\ Last = "radio" => Now = "guest" /\ enabled_here
  /\ Last = "over" => ~(Now = "guest" /\ enabled_here)
BY DEF Last

LEMMA ReadInv ==
  ASSUME IInv, Read
  PROVE  IInv'
<1> USE DEF IInv, Types
<1>1. /\ CheckTypeOK' /\ SessionTypeOK' /\ Now' = Now /\ SettingOf(Now)' = SettingOf(Now)
      /\ UNCHANGED <<found, radio_on, reconnected, check, setting, late, enabled_here, lost>>
  BY HeldType DEF Read
<1>2. RouterTypeOK'
  BY <1>1, RouterSame
<1>3. /\ SettingOf(Now) \in Settings /\ Reading(SettingOf(Now)) \subseteq Values(SettingOf(Now))
      /\ setting[SettingOf(Now)] # Mixed => Reading(SettingOf(Now)) = {setting[SettingOf(Now)]}
  BY SettingType, ReadingType DEF RouterTypeOK
<1>4. step = "read" /\ before = None /\ Now \in Testing
  BY DEF Read, PlaceInv
<1>5. ~reconnected
  BY <1>4, TestFirst
<1>6. Ok => \A s \in Settings \ blind :
              setting[s] = found[s] \/ (found[s] # Mixed /\ WifiUp /\ s = "wifi")
  BY <1>4 DEF CleanInv, OnlyTested, Busy
<1>7. CASE /\ before' \in Reading(SettingOf(Now)) \cup {None}
           /\ ~(Now \in Toggles /\ before' = None)
           /\ step' = "write" /\ blind' = blind \cup {s \in {"mode"} : before' = None}
           /\ UNCHANGED <<failed, exc>>
  <2>1. /\ blind \subseteq blind' /\ blind' \subseteq Settings
        /\ SettingOf(Now) \notin blind' => before' # None
    BY <1>7, SettingType DEF ScriptTypeOK, Settings
  <2>2. BeforeOK' /\ ScriptTypeOK'
    BY <1>1, <1>3, <1>7, <2>1 DEF BeforeOK, ScriptTypeOK, Steps
  <2>3. PlaceInv' /\ PutInv'
    BY <1>1, <1>4, <1>5, <1>7 DEF PlaceInv, PutInv
  <2>4. CleanInv'
    <3>1. SUFFICES ASSUME Ok' PROVE CleanInv'
      BY CleanVacuous
    <3>2. Ok
      BY <1>7, <3>1 DEF Ok
    <3>3. SettingOf(Now) = "wifi" => ~WifiUp
      BY <1>4, SettingType DEF WifiUp, PlaceInv
    <3>4. SettingOf(Now) \notin blind' =>
            before' # None /\ found[SettingOf(Now)] \in {before', Mixed}
      BY <1>3, <1>6, <1>7, <2>1, <3>2, <3>3
    <3>5. WifiUp' <=> WifiUp
      BY <1>1, <1>4, <1>7 DEF WifiUp
    <3>6. OnlyTested'
      BY <1>1, <1>6, <2>1, <3>2, <3>5 DEF OnlyTested
    <3>7. TestKnown' /\ RadioKnown' /\ SessionUp'
      BY <1>1, <1>5, <2>1, <3>2, <3>4, <3>5 DEF CleanInv, TestKnown, RadioKnown, SessionUp
    <3>8. QED
      BY <3>6, <3>7 DEF CleanInv
  <2>5. QED
    BY <1>1, <1>2, <2>2, <2>3, <2>4
<1>8. CASE /\ step' = Last /\ UNCHANGED <<exc, blind>> /\ failed' = TRUE /\ before' = None
  <2>1. BeforeOK' /\ ScriptTypeOK' /\ PlaceInv' /\ PutInv'
    BY <1>1, <1>4, <1>5, <1>8, LastIs DEF BeforeOK, ScriptTypeOK, Steps, PlaceInv, PutInv
  <2>2. QED
    BY <1>1, <1>2, <1>8, <2>1, FailedClean
<1>9. CASE /\ Now = "ha_contention" /\ step' = "over"
           /\ UNCHANGED <<before, failed, exc, blind>>
  <2>1. BeforeOK' /\ ScriptTypeOK' /\ PlaceInv' /\ PutInv'
    BY <1>1, <1>4, <1>5, <1>9 DEF BeforeOK, ScriptTypeOK, Steps, PlaceInv, PutInv
  <2>2. ~WifiUp /\ ~WifiUp' /\ ~Busy'
    BY <1>1, <1>4, <1>9 DEF WifiUp, Busy, PlaceInv
  <2>3. CleanInv'
    BY <1>1, <1>5, <1>6, <1>9, <2>2 DEF CleanInv, TestKnown, OnlyTested, RadioKnown, SessionUp, Ok
  <2>4. QED
    BY <1>1, <1>2, <2>1, <2>3
<1>10. CASE step' = Last /\ (Raised \/ Cut) /\ UNCHANGED <<before, failed, blind>>
  <2>1. exc' \in {"raised", "stalled", "interrupted"}
    BY <1>10, CutType DEF Raised
  <2>2. BeforeOK' /\ ScriptTypeOK' /\ PlaceInv' /\ PutInv'
    BY <1>1, <1>4, <1>5, <1>10, <2>1, LastIs DEF BeforeOK, ScriptTypeOK, Steps, PlaceInv, PutInv
  <2>3. QED
    BY <1>1, <1>2, <2>1, <2>2, FailedClean
<1>11. QED
  BY <1>7, <1>8, <1>9, <1>10 DEF Read, Go

(* Whatever becomes of a write, only the setting under test may move; what *)
(* returned is verified, the rest is raised.                               *)
LEMMA WriteEndsType ==
  ASSUME IInv, NEW v \in Targets, WriteEnds(SettingOf(Now), v), UNCHANGED found
  PROVE  /\ RouterTypeOK' /\ lost' \in BOOLEAN
         /\ \A t \in Settings \ {SettingOf(Now)} : setting'[t] = setting[t]
         /\ blind \subseteq blind' /\ blind' \subseteq blind \cup {SettingOf(Now)}
         /\ \/ /\ step' = "verify" /\ exc' = exc
               /\ setting[SettingOf(Now)] = Mixed => SettingOf(Now) \in blind'
            \/ step' = Unwound /\ exc' \in {"raised", "stalled", "interrupted"}
<1> USE DEF IInv, Types
<1>1. SettingOf(Now) \in Settings /\ v \in Values(SettingOf(Now))
  BY SettingType, TargetsType
<1>2. CASE Returns(SettingOf(Now), v) /\ Go("verify") /\ UNCHANGED exc
  BY <1>1, <1>2, ReturnsType DEF Go
<1>3. ASSUME v = INVALID_NET_MODE
      PROVE  setting[SettingOf(Now)] # Mixed
  <2>1. SettingOf(Now) # "wifi"
    BY <1>1, <1>3 DEF Values, INVALID_NET_MODE, Toggles
  <2>2. QED
    BY <1>1, <2>1, ReadingType DEF RouterTypeOK
<1>4. CASE /\ v = INVALID_NET_MODE /\ UNCHANGED <<setting, late, lost, blind>>
           /\ Go("verify") /\ UNCHANGED exc
  BY <1>3, <1>4, RouterSame DEF Go, ScriptTypeOK
<1>5. CASE /\ GivenUp(SettingOf(Now), v)
           /\ \/ v = INVALID_NET_MODE /\ Go("verify") /\ UNCHANGED exc
              \/ Go(Unwound) /\ (Raised \/ Cut)
  <2>1. /\ RouterTypeOK' /\ lost' \in BOOLEAN /\ blind' = blind
        /\ \A t \in Settings \ {SettingOf(Now)} : setting'[t] = setting[t]
    BY <1>1, <1>5, DoubtfulType DEF GivenUp
  <2>2. \/ step' = "verify" /\ exc' = exc /\ v = INVALID_NET_MODE
        \/ step' = Unwound /\ exc' \in {"raised", "stalled", "interrupted"}
    BY <1>5, CutType DEF Go, Raised
  <2>3. QED
    BY <1>3, <2>1, <2>2
<1>6. QED
  BY <1>2, <1>4, <1>5 DEF WriteEnds

LEMMA WriteInv ==
  ASSUME IInv, Write
  PROVE  IInv'
<1> USE DEF IInv, Types
<1>1. /\ CheckTypeOK' /\ SessionTypeOK' /\ Now' = Now /\ SettingOf(Now)' = SettingOf(Now)
      /\ UNCHANGED <<found, radio_on, reconnected, check, enabled_here, before, failed>>
  BY HeldType DEF Write
<1>2. /\ RouterTypeOK' /\ lost' \in BOOLEAN
      /\ \A t \in Settings \ {SettingOf(Now)} : setting'[t] = setting[t]
      /\ blind \subseteq blind' /\ blind' \subseteq blind \cup {SettingOf(Now)}
      /\ \/ /\ step' = "verify" /\ exc' = exc
            /\ setting[SettingOf(Now)] = Mixed => SettingOf(Now) \in blind'
         \/ step' = Unwound /\ exc' \in {"raised", "stalled", "interrupted"}
  BY <1>1, WriteEndsType DEF Write
<1>3. step = "write" /\ Now \in Testing
  BY DEF Write, PlaceInv
<1>4. ~reconnected /\ blind' \subseteq Settings /\ SettingOf(Now) \in Settings
  BY <1>2, <1>3, TestFirst, SettingType DEF ScriptTypeOK
<1>5. BeforeOK' /\ ScriptTypeOK'
  BY <1>1, <1>2, <1>4 DEF BeforeOK, ScriptTypeOK, Steps, Unwound
<1>6. PlaceInv'
  BY <1>1, <1>2, <1>3, <1>4 DEF PlaceInv, Unwound
<1>7. PutInv'
  BY <1>1, <1>2, <1>3 DEF PutInv, Unwound, Restoring, Toggles
<1>8. CleanInv'
  <2>1. SUFFICES ASSUME Ok' PROVE CleanInv'
    BY CleanVacuous
  <2>2. /\ Ok /\ step' = "verify"
        /\ setting[SettingOf(Now)] = Mixed => SettingOf(Now) \in blind'
    BY <1>1, <1>2, <2>1 DEF Ok
  <2>3. TestKnown /\ OnlyTested /\ RadioKnown
    BY <2>2 DEF CleanInv
  <2>4. Busy /\ Busy' /\ (WifiUp' <=> WifiUp)
    BY <1>1, <1>3, <2>2 DEF Busy, WifiUp, Testing, Toggles, ModeChecks, Reports
  <2>5. TestKnown' /\ RadioKnown' /\ SessionUp'
    BY <1>1, <1>2, <1>4, <2>3, <2>4 DEF TestKnown, RadioKnown, SessionUp
  <2>6. SettingOf(Now) \notin blind' => found[SettingOf(Now)] # Mixed
    <3>1. SUFFICES ASSUME SettingOf(Now) \notin blind', found[SettingOf(Now)] = Mixed
                   PROVE  FALSE
      OBVIOUS
    <3>2. setting[SettingOf(Now)] = found[SettingOf(Now)]
      BY <1>2, <1>3, <1>4, <2>3, <3>1 DEF OnlyTested
    <3>3. QED
      BY <2>2, <3>1, <3>2
  <2>7. OnlyTested'
    <3>1. SUFFICES ASSUME NEW s \in Settings \ blind'
                   PROVE  \/ setting'[s] = found[s]
                          \/ /\ found[s] # Mixed
                             /\ s = SettingOf(Now) \/ (WifiUp /\ s = "wifi")
      BY <1>1, <2>2, <2>4 DEF OnlyTested
    <3>2. CASE s = SettingOf(Now)
      BY <2>6, <3>1, <3>2
    <3>3. CASE s # SettingOf(Now)
      BY <1>2, <1>3, <2>3, <3>1, <3>3 DEF OnlyTested
    <3>4. QED
      BY <3>2, <3>3
  <2>8. QED
    BY <2>5, <2>7 DEF CleanInv
<1>9. QED
  BY <1>1, <1>2, <1>5, <1>6, <1>7, <1>8

LEMMA VerifyInv ==
  ASSUME IInv, Verify
  PROVE  IInv'
<1> USE DEF IInv, Types
<1>1. /\ CheckTypeOK' /\ SessionTypeOK' /\ Now' = Now /\ SettingOf(Now)' = SettingOf(Now)
      /\ UNCHANGED <<found, radio_on, reconnected, check, setting, late, enabled_here, before,
                     lost, blind>>
  BY HeldType DEF Verify
<1>2. RouterTypeOK' /\ BeforeOK'
  BY <1>1, RouterSame DEF BeforeOK
<1>3. step = "verify" /\ Now \in Testing \cup Reports
  BY DEF Verify, PlaceInv
<1>4. ~reconnected
  BY <1>3, TestFirst
<1>5. CASE /\ \E after \in Reading(SettingOf(Now)) \cup {None} :
                failed' \in {failed \/ RowFails(after), TRUE} /\ step' = AfterVerify(after)
           /\ UNCHANGED exc
  <2>1. PICK after \in Reading(SettingOf(Now)) \cup {None} :
          failed' \in {failed \/ RowFails(after), TRUE} /\ step' = AfterVerify(after)
    BY <1>5
  <2>2. /\ step' \in {"over", "restore"}
        /\ step' = "restore" => Now \in Testing
        /\ step' = "over" => Now \in Reports \cup {"refused_write"}
        /\ step' = "over" /\ Now = "refused_write" => after = before
    <3>1. step' = IF Now \in Reports \/ (Now = "refused_write" /\ after = before)
                  THEN "over" ELSE "restore"
      BY <2>1 DEF AfterVerify
    <3>2. CASE Now \in Reports
      BY <3>1, <3>2 DEF Reports
    <3>3. CASE Now \notin Reports
      BY <1>3, <3>1, <3>3
    <3>4. QED
      BY <3>2, <3>3
  <2>3. failed' \in BOOLEAN /\ (~failed' => ~failed)
    BY <2>1 DEF RowFails, ScriptTypeOK
  <2>4. ScriptTypeOK' /\ PlaceInv'
    <3>1. ScriptTypeOK'
      BY <1>1, <1>5, <2>2, <2>3 DEF ScriptTypeOK, Steps
    <3>2. PlaceInv'
      BY <1>1, <1>3, <1>4, <2>2 DEF PlaceInv
    <3>3. QED
      BY <3>1, <3>2
  <2>5. PutInv'
    BY <1>1, <2>2 DEF PutInv, Restoring, Toggles, Reports
  <2>6. CleanInv'
    <3>1. SUFFICES ASSUME Ok' PROVE CleanInv'
      BY CleanVacuous
    <3>2. TestKnown /\ OnlyTested /\ RadioKnown
      BY <1>5, <2>3, <3>1 DEF CleanInv, Ok
    <3>3. CASE step' = "restore"
      <4>1. Busy /\ Busy' /\ (WifiUp' <=> WifiUp)
        BY <1>1, <1>3, <2>2, <3>3 DEF Busy, WifiUp, Testing, Toggles, ModeChecks, Reports
      <4>2. QED
        BY <1>1, <1>3, <1>4, <3>2, <3>3, <4>1 DEF CleanInv, TestKnown, OnlyTested, RadioKnown, SessionUp
    <3>4. CASE step' = "over"
      <4>1. ~WifiUp /\ ~WifiUp' /\ ~Busy'
        BY <1>1, <1>3, <2>2, <3>4 DEF WifiUp, Busy, PlaceInv, Reports
      <4>2. ASSUME Now = "refused_write", "mode" \notin blind
            PROVE  setting["mode"] = found["mode"]
        <5>1. SettingOf(Now) = "mode" /\ "mode" \in Settings /\ Busy
          BY <1>3, <4>2, SettingType DEF Toggles, Settings, Busy, Reports
        <5>2. before # None /\ found["mode"] = before
          BY <3>2, <4>2, <5>1, FoundType DEF TestKnown
        <5>3. Reading("mode") = {setting["mode"]}
          BY <5>1, ReadingType DEF RouterTypeOK
        <5>4. QED
          BY <2>1, <2>2, <3>4, <4>2, <5>1, <5>2, <5>3
      <4>3. \A s \in Settings \ blind : setting[s] = found[s]
        BY <2>2, <3>2, <3>4, <4>1, <4>2, SettingType DEF OnlyTested, Busy, Toggles
      <4>4. QED
        BY <1>1, <1>4, <3>2, <4>1, <4>3 DEF CleanInv, TestKnown, OnlyTested, RadioKnown, SessionUp
    <3>5. QED
      BY <2>2, <3>3, <3>4
  <2>7. QED
    BY <1>1, <1>2, <2>4, <2>5, <2>6
<1>6. CASE /\ step' = (IF Now \in Reports THEN "over" ELSE Unwound)
           /\ (Raised \/ Cut) /\ UNCHANGED failed
  <2>1. exc' \in {"raised", "stalled", "interrupted"}
    BY <1>6, CutType DEF Raised
  <2>2. /\ step' \in {"over", "restore"}
        /\ step' = "restore" => Now \in Testing
        /\ step' = "over" => Now \notin Restoring
    BY <1>3, <1>6 DEF Unwound, Restoring, Toggles, Reports
  <2>3. ScriptTypeOK' /\ PlaceInv' /\ PutInv'
    BY <1>1, <1>3, <1>4, <1>6, <2>1, <2>2 DEF ScriptTypeOK, Steps, PlaceInv, PutInv
  <2>4. QED
    BY <1>1, <1>2, <2>1, <2>3, FailedClean
<1>7. QED
  BY <1>5, <1>6 DEF Verify, Go

-----------------------------------------------------------------------------
(* How a restoring write ends: with nothing to restore; as asked; where no *)
(* row looks; with the confirmation still to come; or shown as failing.    *)
Shown == failed' = TRUE \/ exc' # "none"
Quiet == UNCHANGED <<exc, failed>>

LEMMA RestoreEnds ==
  ASSUME IInv, Restore
  PROVE  /\ RouterTypeOK' /\ lost' \in BOOLEAN
         /\ exc' \in {"none", "raised", "stalled", "interrupted"}
         /\ failed' \in BOOLEAN
         /\ blind \subseteq blind' /\ blind' \subseteq blind \cup {SettingOf(Now)}
         /\ \A t \in Settings \ {SettingOf(Now)} : setting'[t] = setting[t]
         /\ step' = "confirm" => Now \in {"net_mode", "refused_write"}
         /\ step' \in {"confirm", Last, "over"}
         /\ \/ lost' = TRUE \/ before = None \/ (setting'[SettingOf(Now)] = before /\ lost' = lost)
         /\ \/ Shown
            \/ Quiet /\ before = None /\ Now \notin Toggles /\ UNCHANGED <<setting, blind>>
               /\ step' # "radio"
            \/ Quiet /\ step' = "confirm"
            \/ /\ Quiet /\ step' = Last
               /\ \/ SettingOf(Now) \in blind'
                  \/ setting'[SettingOf(Now)] = before /\ setting[SettingOf(Now)] # Mixed
<1> USE DEF IInv, Types
<1> DEFINE s == SettingOf(Now)
<1>1. s \in Settings /\ UNCHANGED found /\ step = "restore"
  BY SettingType DEF Restore, Held
<1>2. CASE NothingToRestore
  <2>1. Now \notin Toggles
    BY <1>1, <1>2 DEF NothingToRestore, PlaceInv
  <2>2. QED
    BY <1>1, <1>2, <2>1, RouterSame, LastIs DEF NothingToRestore, Quiet, Go, ScriptTypeOK, Last
<1>3. ASSUME before # None
      PROVE  /\ Answered(s, before) =>
                  /\ RouterTypeOK' /\ setting'[s] = before /\ lost' = lost
                  /\ \A t \in Settings \ {s} : setting'[t] = setting[t]
                  /\ blind \subseteq blind' /\ blind' \subseteq blind \cup {s}
                  /\ setting[s] = Mixed => s \in blind'
             /\ Doubtful(s, before) =>
                  /\ RouterTypeOK' /\ lost' = TRUE
                  /\ \A t \in Settings \ {s} : setting'[t] = setting[t]
  <2>1. before \in Values(s)
    BY <1>3 DEF BeforeOK
  <2>2. QED
    BY <1>1, <2>1, AnsweredType, DoubtfulType
<1>4. lost \in BOOLEAN /\ failed \in BOOLEAN /\ exc \in {"none", "raised", "stalled", "interrupted"}
  BY DEF ScriptTypeOK
<1>5. CASE before # None /\ RestoreToggle(s)
  <2>1. step' = Last /\ Last # "confirm"
    BY <1>5, LastIs DEF RestoreToggle, Go
  <2>2. CASE (Answered(s, before) \/ Unseen(s, before)) /\ UNCHANGED <<exc, failed>>
    BY <1>3, <1>4, <1>5, <2>1, <2>2 DEF Unseen, Quiet
  <2>3. CASE GivenUp(s, before) /\ failed' = TRUE /\ UNCHANGED exc
    BY <1>3, <1>4, <1>5, <2>1, <2>3 DEF GivenUp, Shown
  <2>4. CASE GivenUp(s, before) /\ Cut /\ UNCHANGED failed
    BY <1>3, <1>4, <1>5, <2>1, <2>4, CutType DEF GivenUp, Shown
  <2>5. QED
    BY <1>5, <2>2, <2>3, <2>4 DEF RestoreToggle
<1>6. CASE before # None /\ RestoreThroughHA(s)
  <2>1. Last = "over" /\ step' = "over" /\ failed' = failed
    BY <1>6 DEF Last, RestoreThroughHA, Go
  <2>2. CASE (Answered(s, before) \/ Unseen(s, before)) /\ UNCHANGED exc
    BY <1>3, <1>4, <1>6, <2>1, <2>2 DEF Unseen, Quiet
  <2>3. CASE GivenUp(s, before) /\ Cut
    BY <1>3, <1>4, <1>6, <2>1, <2>3, CutType DEF GivenUp, Shown
  <2>4. QED
    BY <1>6, <2>2, <2>3 DEF RestoreThroughHA
<1>7. CASE before # None /\ RestoreMode(s)
  <2>1. Now \in {"net_mode", "refused_write"} /\ Last = "over"
    BY <1>7 DEF RestoreMode, Last
  <2>2. CASE Returns(s, before) /\ Go("confirm") /\ UNCHANGED <<exc, failed>>
    BY <1>3, <1>4, <1>7, <2>1, <2>2 DEF Returns, Levelled, Quiet, Go
  <2>3. CASE /\ GivenUp(s, before) /\ UNCHANGED exc
             /\ IF Now = "net_mode"
                THEN Go("over") /\ failed' = TRUE
                ELSE Go("confirm") /\ UNCHANGED failed
    BY <1>3, <1>4, <1>7, <2>1, <2>3 DEF GivenUp, Quiet, Shown, Go
  <2>4. CASE GivenUp(s, before) /\ Go("over") /\ Cut /\ UNCHANGED failed
    BY <1>3, <1>4, <1>7, <2>1, <2>4, CutType DEF GivenUp, Shown, Go
  <2>5. QED
    BY <1>7, <2>2, <2>3, <2>4 DEF RestoreMode
<1>8. QED
  BY <1>2, <1>5, <1>6, <1>7 DEF Restore

LEMMA RestoreInv ==
  ASSUME IInv, Restore
  PROVE  IInv'
<1> USE DEF IInv, Types
<1>1. /\ CheckTypeOK' /\ SessionTypeOK' /\ Now' = Now /\ SettingOf(Now)' = SettingOf(Now)
      /\ UNCHANGED <<found, radio_on, reconnected, check, enabled_here, before>>
  BY HeldType DEF Restore
<1>2. step = "restore" /\ Now \in Testing /\ SettingOf(Now) \in Settings
  BY SettingType DEF Restore, PlaceInv
<1>3. ~reconnected
  BY <1>2, TestFirst
<1>4. /\ RouterTypeOK' /\ BeforeOK' /\ ScriptTypeOK'
      /\ step' \in {"confirm", "radio", "over"}
      /\ blind \subseteq blind'
      /\ \A t \in Settings \ {SettingOf(Now)} : setting'[t] = setting[t]
      /\ step' = "confirm" => Now \in {"net_mode", "refused_write"}
  BY <1>1, <1>2, RestoreEnds, LastIs DEF BeforeOK, ScriptTypeOK, Steps
<1>5. PlaceInv'
  BY <1>1, <1>3, <1>4, RestoreEnds, LastIs DEF PlaceInv
<1>6. PutInv'
  BY <1>1, RestoreEnds DEF PutInv
<1>7. CleanInv'
  <2>1. SUFFICES ASSUME Ok' PROVE CleanInv'
    BY CleanVacuous
  <2>2. Quiet /\ Ok /\ ~Shown
    <3>1. ~Shown
      BY <2>1 DEF Shown, Ok
    <3>2. Quiet
      BY <3>1, RestoreEnds
    <3>3. QED
      BY <2>1, <3>1, <3>2 DEF Quiet, Ok
  <2>3. TestKnown /\ OnlyTested /\ RadioKnown /\ Busy
    BY <1>2, <2>2 DEF CleanInv, Busy, Testing, Toggles, ModeChecks, Reports
  <2>4. SessionUp'
    BY <1>1, <1>3 DEF SessionUp
  <2>5. WifiUp' => WifiUp
    BY <1>1, <1>2, <1>4, RestoreEnds, LastIs DEF WifiUp
  <2>6. RadioKnown' /\ TestKnown'
    BY <1>1, <1>4, <2>3, <2>5 DEF RadioKnown, TestKnown
  <2>7. CASE step' = "confirm"
    <3>1. ~WifiUp /\ SettingOf(Now) = "mode" /\ Busy'
      BY <1>1, <1>2, <1>4, <2>7, SettingType DEF WifiUp, PlaceInv, Toggles, Busy, Reports
    <3>2. OnlyTested'
      BY <1>1, <1>4, <2>3, <2>7, <3>1, FoundType DEF OnlyTested
    <3>3. QED
      BY <2>4, <2>6, <3>2 DEF CleanInv
  <2>8. CASE step' # "confirm"
    <3>1. SettingOf(Now) \notin blind' => setting'[SettingOf(Now)] = found[SettingOf(Now)]
      <4>1. SUFFICES ASSUME SettingOf(Now) \notin blind'
                     PROVE  setting'[SettingOf(Now)] = found[SettingOf(Now)]
        OBVIOUS
      <4>2. before # None /\ found[SettingOf(Now)] \in {before, Mixed}
        BY <1>4, <2>3, <4>1 DEF TestKnown
      <4>3. setting'[SettingOf(Now)] = before /\ setting[SettingOf(Now)] # Mixed
        BY <2>2, <2>8, <4>1, <4>2, RestoreEnds
      <4>4. found[SettingOf(Now)] # Mixed
        BY <1>2, <1>4, <2>3, <4>1, <4>3 DEF OnlyTested
      <4>5. QED
        BY <4>2, <4>3, <4>4
    <3>2. WifiUp => WifiUp'
      <4>1. SUFFICES ASSUME enabled_here PROVE step' = "radio"
        BY <1>1, <1>2 DEF WifiUp
      <4>2. Now = "guest" /\ Last = "radio" /\ Now \in Toggles
        BY <4>1 DEF PlaceInv, Last, Toggles
      <4>3. QED
        BY <2>2, <2>8, <4>2, RestoreEnds
    <3>3. OnlyTested'
      <4>1. SUFFICES ASSUME NEW t \in Settings \ blind'
                     PROVE  setting'[t] = found[t] \/ (found[t] # Mixed /\ WifiUp' /\ t = "wifi")
        BY <1>1 DEF OnlyTested
      <4>2. CASE t = SettingOf(Now)
        BY <3>1, <4>1, <4>2
      <4>3. CASE t # SettingOf(Now)
        BY <1>4, <2>3, <3>2, <4>1, <4>3 DEF OnlyTested
      <4>4. QED
        BY <4>2, <4>3
    <3>4. QED
      BY <2>4, <2>6, <3>3 DEF CleanInv
  <2>9. QED
    BY <2>7, <2>8
<1>8. QED
  BY <1>1, <1>4, <1>5, <1>6, <1>7

LEMMA ConfirmInv ==
  ASSUME IInv, Confirm
  PROVE  IInv'
<1> USE DEF IInv, Types
<1>1. /\ CheckTypeOK' /\ SessionTypeOK' /\ Now' = Now /\ SettingOf(Now)' = SettingOf(Now)
      /\ UNCHANGED <<found, radio_on, reconnected, check, setting, late, enabled_here, before,
                     lost, blind>>
  BY HeldType DEF Confirm
<1>2. RouterTypeOK' /\ BeforeOK'
  BY <1>1, RouterSame DEF BeforeOK
<1>3. /\ step = "confirm" /\ step' = "over" /\ Now \in {"net_mode", "refused_write"}
      /\ SettingOf(Now) = "mode" /\ "mode" \in Settings /\ Busy
  BY SettingType DEF Confirm, PlaceInv, Go, Toggles, Settings, Busy, Reports
<1>4. ~reconnected
  BY <1>3, TestFirst
<1>5. /\ failed' \in BOOLEAN /\ exc' \in {"none", "raised", "stalled", "interrupted"}
      /\ Ok' => Ok /\ before \in {setting["mode"], None}
  <2>1. CASE /\ \E restored \in {setting["mode"], None} :
                  failed' = (failed \/ restored # before)
             /\ UNCHANGED exc
    <3>1. PICK restored \in {setting["mode"], None} : failed' = (failed \/ restored # before)
      BY <2>1
    <3>2. failed' \in BOOLEAN
      BY <3>1 DEF ScriptTypeOK
    <3>3. Ok' => Ok /\ restored = before
      BY <1>1, <2>1, <3>1 DEF Ok, ScriptTypeOK
    <3>4. QED
      BY <2>1, <3>1, <3>2, <3>3 DEF ScriptTypeOK
  <2>2. CASE failed' = TRUE /\ UNCHANGED exc
    BY <2>2 DEF Ok, ScriptTypeOK
  <2>3. CASE Cut /\ UNCHANGED failed
    BY <2>3, CutType DEF Ok, ScriptTypeOK
  <2>4. QED
    BY <2>1, <2>2, <2>3 DEF Confirm
<1>6. ScriptTypeOK' /\ PlaceInv' /\ PutInv'
  BY <1>1, <1>3, <1>4, <1>5 DEF ScriptTypeOK, Steps, PlaceInv, PutInv
<1>7. CleanInv'
  <2>1. SUFFICES ASSUME Ok' PROVE CleanInv'
    BY CleanVacuous
  <2>2. TestKnown /\ OnlyTested /\ RadioKnown /\ before \in {setting["mode"], None}
    BY <1>5, <2>1 DEF CleanInv
  <2>3. "mode" \notin blind => setting["mode"] = found["mode"]
    BY <1>3, <2>2, FoundType DEF TestKnown
  <2>4. ~WifiUp /\ ~WifiUp' /\ ~Busy'
    BY <1>1, <1>3 DEF WifiUp, Busy
  <2>5. QED
    BY <1>1, <1>3, <1>4, <2>2, <2>3, <2>4 DEF CleanInv, TestKnown, OnlyTested, RadioKnown, SessionUp
<1>8. QED
  BY <1>1, <1>2, <1>6, <1>7

-----------------------------------------------------------------------------
(* The session checks: no setting is written and none was read.            *)
LEMMA ElsewhereInv ==
  ASSUME IInv, SessionTypeOK', UNCHANGED <<setting, late, check, before, radio_on, enabled_here,
                                           found, lost, blind>>,
         step \in {"send", "wait"}, step' \in {"wait", "over"}, reconnected' \in BOOLEAN,
         exc' \in {"none", "raised", "stalled", "interrupted"}, failed' \in BOOLEAN,
         Ok' => Ok /\ (step' # "wait" => session' = "up")
  PROVE  IInv'
<1> USE DEF IInv, Types
<1>1. Now' = Now /\ SettingOf(Now)' = SettingOf(Now)
  BY NowSame
<1>2. Now \in Sessions
  BY DEF PlaceInv
<1>3. RouterTypeOK' /\ BeforeOK' /\ CheckTypeOK' /\ ScriptTypeOK'
  BY <1>1, RouterSame DEF BeforeOK, CheckTypeOK, ScriptTypeOK, Steps
<1>4. PlaceInv' /\ PutInv'
  BY <1>1, <1>2 DEF PlaceInv, PutInv, Restoring, Toggles, Sessions
<1>5. CleanInv'
  <2>1. SUFFICES ASSUME Ok' PROVE CleanInv'
    BY CleanVacuous
  <2>2. ~Busy /\ ~Busy' /\ ~WifiUp /\ ~WifiUp'
    BY <1>1 DEF Busy, WifiUp
  <2>3. QED
    BY <1>1, <2>1, <2>2 DEF CleanInv, TestKnown, OnlyTested, RadioKnown, SessionUp
<1>6. QED
  BY <1>3, <1>4, <1>5

LEMMA DropSessionInv ==
  ASSUME IInv, DropSession
  PROVE  IInv'
<1> USE DEF IInv, Types
<1>1. /\ step = "send" /\ step' \in {"wait", "over"} /\ reconnected' \in BOOLEAN
      /\ UNCHANGED <<setting, late, check, before, radio_on, enabled_here, found, lost, blind>>
  BY DEF DropSession, SessionKept, Go
<1>2. SessionTypeOK'
  BY DEF DropSession, SessionTypeOK
<1>3. /\ exc' \in {"none", "raised", "stalled", "interrupted"} /\ failed' \in BOOLEAN
      /\ Ok' => Ok /\ step' = "wait"
  BY <1>1, CutType DEF DropSession, ScriptTypeOK, Raised, Ok, Go
<1>4. QED
  BY <1>1, <1>2, <1>3, ElsewhereInv

LEMMA WaitForSessionInv ==
  ASSUME IInv, WaitForSession
  PROVE  IInv'
<1> USE DEF IInv, Types
<1>1. /\ step = "wait" /\ step' = "over" /\ reconnected' \in BOOLEAN
      /\ UNCHANGED <<setting, late, check, before, radio_on, enabled_here, found, lost, blind>>
  BY DEF WaitForSession, SessionKept, Go, ScriptTypeOK
<1>2. SessionTypeOK' /\ session' = session
  BY DEF WaitForSession, SessionTypeOK
<1>3. /\ exc' \in {"none", "raised", "stalled", "interrupted"} /\ failed' \in BOOLEAN
      /\ Ok' => Ok /\ session' = "up"
  <2>1. CASE Populated /\ UNCHANGED <<exc, failed>>
    BY <1>2, <2>1 DEF Populated, ScriptTypeOK, Ok
  <2>2. CASE failed' = TRUE /\ UNCHANGED exc
    BY <2>2 DEF ScriptTypeOK, Ok
  <2>3. CASE Cut /\ UNCHANGED failed
    BY <2>3, CutType DEF ScriptTypeOK, Ok
  <2>4. QED
    BY <2>1, <2>2, <2>3 DEF WaitForSession
<1>4. QED
  BY <1>1, <1>2, <1>3, ElsewhereInv

-----------------------------------------------------------------------------
LEMMA StutterInv ==
  ASSUME IInv, UNCHANGED vars
  PROVE  IInv'
<1> USE DEF IInv, Types
<1>1. /\ Now' = Now /\ SettingOf(Now)' = SettingOf(Now)
      /\ UNCHANGED <<setting, session, late, check, step, before, radio_on, enabled_here, exc,
                     failed, found, lost, blind, reconnected>>
  BY NowSame DEF vars, router, script, past
<1>2. RouterTypeOK' /\ BeforeOK' /\ CheckTypeOK' /\ ScriptTypeOK' /\ SessionTypeOK'
  BY <1>1, RouterSame DEF BeforeOK, CheckTypeOK, ScriptTypeOK, SessionTypeOK
<1>3. PlaceInv' /\ PutInv'
  BY <1>1 DEF PlaceInv, PutInv
<1>4. CleanInv'
  BY <1>1 DEF CleanInv, TestKnown, OnlyTested, RadioKnown, SessionUp, Ok, Busy, WifiUp
<1>5. QED
  BY <1>2, <1>3, <1>4

LEMMA NextInv == IInv /\ [Next]_vars => IInv'
<1> SUFFICES ASSUME IInv, [Next]_vars PROVE IInv'
  OBVIOUS
<1>1. CASE Router
  BY <1>1, StrayAppliesInv, SessionReturnsInv DEF Router
<1>2. CASE Script
  BY <1>2, SafeTierInv, OfferInv, CheckEndsInv, EnableRadioInv, RadioSettlesInv,
     RestoreRadioInv, ReadInv, WriteInv, VerifyInv, RestoreInv, ConfirmInv,
     DropSessionInv, WaitForSessionInv DEF Script
<1>3. CASE UNCHANGED vars
  BY <1>3, StutterInv
<1>4. QED
  BY <1>1, <1>2, <1>3 DEF Next

LEMMA InvHolds == IInv => TypeOK /\ PutBack /\ CleanReport
<1> SUFFICES ASSUME IInv PROVE TypeOK /\ PutBack /\ CleanReport
  OBVIOUS
<1> USE DEF IInv, Types
<1>1. TypeOK
  <2>1. before \in {None} \cup AllValues
    BY SettingType, ValuesType DEF BeforeOK
  <2>2. QED
    BY <2>1 DEF TypeOK, RouterTypeOK, CheckTypeOK, ScriptTypeOK, SessionTypeOK, AllValues
<1>2. PutBack
  BY DEF PutBack, PutInv, Restoring
<1>3. CleanReport
  <2>1. SUFFICES ASSUME step = "done", Ok
                 PROVE  /\ \A s \in Settings \ blind : setting[s] = found[s]
                        /\ reconnected /\ blind \cap Dropping = {} => session = "up"
    BY DEF CleanReport, Ok
  <2>2. QED
    BY <2>1 DEF CleanInv, OnlyTested, SessionUp, Busy, WifiUp
<1>4. QED
  BY <1>1, <1>2, <1>3

LEMMA SpecInv == Spec => []IInv
BY InitInv, NextInv, PTL DEF Spec

(* Every variable keeps its type: what a check keeps in `before` is a      *)
(* value of some setting.                                                  *)
THEOREM TypeCorrect == Spec => []TypeOK
BY SpecInv, InvHolds, PTL

(* A check that wrote puts back the value it read, on the failure path, a  *)
(* stall and Ctrl-C too, unless a write of that setting came to no known   *)
(* end in it or a stray one came through.                                  *)
THEOREM PutBackSafe == Spec => []PutBack
BY SpecInv, InvHolds, PTL

(* A complete run without a failing row leaves every setting as it was but *)
(* those written where no row looks, and after a reconnect the data        *)
(* session up.                                                             *)
THEOREM CleanReportSafe == Spec => []CleanReport
BY SpecInv, InvHolds, PTL
=============================================================================
