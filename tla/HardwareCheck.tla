--------------------------- MODULE HardwareCheck ---------------------------
(***************************************************************************)
(* scripts/hardware_check.py --attended: checks that change a router in    *)
(* use and put it back.  A check is a task under a timeout; the library's  *)
(* worker threads outlive it, so a write that was given up may still be    *)
(* applied later, and one that returned may have done nothing.  Nobody     *)
(* else changes the settings meanwhile.                                    *)
(*                                                                         *)
(* Every check is a part of one scheme: read a setting, write another      *)
(* value, verify, restore, confirm the restoration.                        *)
(***************************************************************************)
EXTENDS Naturals, Sequences, FiniteSets

CONSTANTS
  Modes,     \* the network modes the router holds
  Start,     \* how it may be found
  MaxLate    \* bound: writes given up whose thread still runs

INVALID_NET_MODE == "99"
None  == "none"
Mixed == "mixed"   \* of radios

ASSUME HardwareAssumption ==
  {"00", "03"} \subseteq Modes /\ {None, Mixed} \cap Modes = {} /\ MaxLate \in Nat

Toggles == {"guest", "wifi", "mobile"}
ModeChecks == {"ha_contention", "net_mode", "refused_write"}
Reports == {"sms", "clear_traffic"}   \* they change no setting

(* The order in which they are offered.                                    *)
Checks == <<"guest", "wifi", "mobile", "ha_contention", "net_mode",
            "refused_write", "sms", "clear_traffic", "reconnect", "reboot">>

(* `set_wifi` writes every radio at once; the radios may be found mixed.   *)
Settings  == Toggles \cup {"mode"}
Values(s) == IF s \in Toggles THEN {"on", "off"} ELSE Modes \cup {INVALID_NET_MODE}
Positions(s) == Values(s) \cup IF s = "wifi" THEN {Mixed} ELSE {}

(* Writing one of these drops the data session.                            *)
Dropping == {"mobile", "mode"}

VARIABLES
  setting,       \* what the router holds
  session,       \* its data session: "up", "blank" (answers only) or "down"
  late,          \* writes whose thread goes on after they were given up
  check,         \* which of Checks; 0 for the safe tier
  step,          \* how far it is: "offer", "over" or its next await
  before,        \* the value it read first
  radio_on, enabled_here,  \* of the guest check
  exc,           \* what is being raised through it
  failed,        \* the report has a failing row
  found,         \* history: the settings at the start
  lost,          \* history: a write of the setting under test came to no known
                 \* end in this check, or a stray one came through
  blind,         \* history: settings changed where no row can show it
  reconnected    \* history: a reconnect or a reboot was accepted

router == <<setting, session, late>>
script == <<check, step, before, radio_on, enabled_here, exc, failed>>
past   == <<found, lost, blind, reconnected>>
vars   == <<router, script, past>>

Steps == {"start", "offer", "enable", "settle", "read", "write", "verify", "restore",
          "confirm", "radio", "send", "wait", "over", "done"}

SettingOf(c) == IF c \in Toggles THEN c ELSE "mode"
Now == IF check \in DOMAIN Checks THEN Checks[check] ELSE "none"

AllSettings == [Settings -> {"on", "off", Mixed} \cup Modes \cup {INVALID_NET_MODE}]
Sound(f) == f \in AllSettings /\ \A s \in Settings : f[s] \in Positions(s)

TypeOK ==
  /\ Sound(setting) /\ Sound(found)
  /\ session \in {"up", "blank", "down"}
  /\ late \subseteq {w \in Settings \X ({"on", "off"} \cup Modes \cup {INVALID_NET_MODE}) :
                       w[2] \in Values(w[1])}
  /\ check \in 0..Len(Checks) /\ step \in Steps
  /\ before \in {"on", "off", None} \cup Modes \cup {INVALID_NET_MODE}
  /\ radio_on \in {"on", "off", None} /\ enabled_here \in BOOLEAN
  /\ exc \in {"none", "raised", "stalled", "interrupted"}
  /\ failed \in BOOLEAN
  /\ lost \in BOOLEAN /\ blind \subseteq Settings /\ reconnected \in BOOLEAN

Init ==
  /\ setting \in Start /\ Sound(setting) /\ setting["mode"] \in Modes
  /\ found = setting
  /\ session = "up"
  /\ late = {}
  /\ check = 0 /\ step = "start" /\ before = None
  /\ radio_on = None /\ enabled_here = FALSE
  /\ exc = "none" /\ failed = FALSE
  /\ lost = FALSE /\ blind = {} /\ reconnected = FALSE

-----------------------------------------------------------------------------
(* The router by itself: threads that were given up and the data session.  *)

With(s, v) == [setting EXCEPT ![s] = v]

Redials == session' = IF \E s \in Dropping : setting'[s] # setting[s] THEN "down" ELSE session

StrayApplies ==
  /\ \E w \in late :
       /\ setting' = With(w[1], w[2]) /\ late' = late \ {w}
       /\ blind' = blind \cup {w[1]} /\ lost' = (lost \/ w[1] = SettingOf(Now))
  /\ Redials
  /\ UNCHANGED <<script, found, reconnected>>

SessionReturns ==
  /\ Now \in {"reconnect", "reboot"}   \* bound: nothing before looks at it
  /\ \/ session = "down" /\ session' = "blank"
     \/ session = "blank" /\ session' = "up"
  /\ UNCHANGED <<setting, late, script, past>>

-----------------------------------------------------------------------------
(* An await inside a check ends in one of three ways.                      *)

(* The command took effect; mixed radios are all one from then on.         *)
Levelled(s) == {t \in {s} : setting[t] = Mixed}

Answered(s, v) ==
  /\ setting' = With(s, v)
  /\ blind' = blind \cup Levelled(s)
  /\ UNCHANGED <<late, lost>>

(* Nobody can say whether it was applied, or whether it still will be.     *)
Doubtful(s, v) ==
  /\ lost' = (lost \/ s = SettingOf(Now))
  /\ \/ setting' \in {setting, With(s, v)} /\ UNCHANGED late
     \/ /\ Cardinality(late) < MaxLate
        /\ UNCHANGED setting /\ late' = late \cup {<<s, v>>}

(* No row of the check shows it, or one does, or what is raised does.      *)
Unseen(s, v)  == Doubtful(s, v) /\ blind' = blind \cup {s}
GivenUp(s, v) == Doubtful(s, v) /\ UNCHANGED blind

(* "A write that returns cleanly has already been proven worthless here":  *)
(* the router may answer and do nothing, a write past its deadline returns *)
(* while its thread runs, and so does a mode whose read-back did not       *)
(* answer.                                                                 *)
Returns(s, v) ==
  Answered(s, v) \/ (Doubtful(s, v) /\ blind' = blind \cup Levelled(s))

Raised == exc' = "raised"

(* The check's timeout or Ctrl-C cancels the task, in whatever await it is, *)
(* the restoring ones included.                                            *)
Cut ==
  \/ exc \in {"none", "raised"} /\ exc' = "stalled"
  \/ exc' = "interrupted"

Go(next) == step' = next

(* What a check's variables keep.                                          *)
Held == /\ Redials
        /\ UNCHANGED <<check, radio_on, found, reconnected>>

(* After its body, the guest check puts the radio back.                    *)
Last == IF Now = "guest" /\ enabled_here THEN "radio" ELSE "over"

(* Where a failure in the body goes: only what changed is restored.        *)
UnwoundPastFinally == "over"   \* mutant: the restoration follows the body, no finally
Unwound == IF Now = "refused_write" THEN "over" ELSE "restore"

-----------------------------------------------------------------------------
(* What a read of a setting says; of mixed radios either.                  *)
Reading(s) == IF setting[s] = Mixed THEN {"on", "off"} ELSE {setting[s]}

(* `main`: the safe tier, whose rows may fail, then the radio's position,  *)
(* read once for the guest check; a read that raises ends the run.         *)

SafeTier ==
  /\ step = "start"
  /\ failed' \in BOOLEAN
  /\ \/ radio_on' \in Reading("wifi") \cup {None} /\ check' = 1 /\ Go("offer") /\ UNCHANGED exc
     \/ Go("done") /\ Raised /\ UNCHANGED <<check, radio_on>>
  /\ UNCHANGED <<router, before, enabled_here, past>>

FirstStep ==
  CASE Now = "guest"          -> IF radio_on = "off" THEN "enable" ELSE "read"
    [] Now \in Reports        -> "verify"
    [] Now \in {"reconnect", "reboot"} -> "send"
    [] OTHER                  -> "read"

(* `_offer`: the default is no.                                            *)
Offer ==
  /\ step = "offer"
  /\ \/ Go(FirstStep)
     \/ Go("over")
  /\ UNCHANGED <<router, check, before, radio_on, enabled_here, exc,
                 failed, past>>

(* What was raised is a failing row; Ctrl-C ends the run.  The locals of   *)
(* the check end with it.                                                  *)
CheckEnds ==
  /\ step = "over"
  /\ failed' = (failed \/ exc \in {"raised", "stalled"})
  /\ IF exc = "interrupted" \/ check = Len(Checks)
     THEN Go("done") /\ UNCHANGED <<check, exc>>
     ELSE Go("offer") /\ check' = check + 1 /\ exc' = "none"
  /\ before' = None /\ radio_on' = None /\ enabled_here' = FALSE
  /\ lost' = FALSE
  /\ UNCHANGED <<router, found, blind, reconnected>>

-----------------------------------------------------------------------------
(* `_check_guest_wifi` around the toggle.  The radio counts as enabled     *)
(* here only after it has settled.                                         *)

EnableRadio ==
  /\ step = "enable"
  /\ \/ Returns("wifi", "on") /\ Go("settle") /\ UNCHANGED exc
     \/ GivenUp("wifi", "on") /\ Go("over") /\ (Raised \/ Cut)
  /\ UNCHANGED <<before, enabled_here, failed>> /\ Held

RadioSettles ==
  /\ step = "settle"
  /\ \/ enabled_here' = TRUE /\ Go("read") /\ UNCHANGED exc
     \/ Go("over") /\ Cut /\ UNCHANGED enabled_here
  /\ UNCHANGED <<setting, late, before, failed, lost, blind>> /\ Held

RestoreRadio ==
  /\ step = "radio"
  /\ \/ (Answered("wifi", "off") \/ Unseen("wifi", "off")) /\ UNCHANGED <<exc, failed>>
     \/ GivenUp("wifi", "off") /\ failed' = TRUE /\ UNCHANGED exc
     \/ GivenUp("wifi", "off") /\ Cut /\ UNCHANGED failed
  /\ Go("over")
  /\ UNCHANGED <<before, enabled_here>> /\ Held

-----------------------------------------------------------------------------
(* `_toggle_and_restore`, `_check_ha_contention`, `_check_net_mode` and    *)
(* `_check_refused_write`.  The router may hold an invalid mode or not.    *)

Read ==
  /\ step = "read"
  /\ \/ /\ before' \in Reading(SettingOf(Now)) \cup {None}
        /\ IF Now \in Toggles /\ before' = None
           THEN Go(Last) /\ failed' = TRUE /\ UNCHANGED blind
           ELSE /\ Go("write") /\ UNCHANGED failed
                /\ blind' = blind \cup {s \in {"mode"} : before' = None}
        /\ UNCHANGED exc
     \/ Now = "ha_contention" /\ Go("over") /\ UNCHANGED <<before, failed, exc, blind>>
     \/ Go(Last) /\ (Raised \/ Cut) /\ UNCHANGED <<before, failed, blind>>
  /\ UNCHANGED <<setting, late, enabled_here, lost>> /\ Held

Targets ==
  CASE Now \in Toggles         -> {IF before = "on" THEN "off" ELSE "on"}
    [] Now = "ha_contention"   -> Modes \ {before}
    [] Now = "net_mode"        -> {IF before = "00" THEN "03" ELSE "00"}
    [] OTHER                   -> {INVALID_NET_MODE}

(* A refusal of the invalid mode is what its check hopes for.              *)
WriteEnds(s, v) ==
  \/ Returns(s, v) /\ Go("verify") /\ UNCHANGED exc
  \/ /\ v = INVALID_NET_MODE
     /\ UNCHANGED <<setting, late, lost, blind>> \/ GivenUp(s, v)
     /\ Go("verify") /\ UNCHANGED exc
  \/ v # INVALID_NET_MODE /\ GivenUp(s, v) /\ Go(Unwound) /\ Raised
  \/ GivenUp(s, v) /\ Go(Unwound) /\ Cut

Write ==
  /\ step = "write"
  /\ \E v \in Targets : WriteEnds(SettingOf(Now), v)
  /\ UNCHANGED <<before, enabled_here, failed>> /\ Held

(* The row that says whether the router did what it was told; more rows    *)
(* (published by Home Assistant, confirmed, nothing in the log, counters   *)
(* at zero, the message sent removed) may fail.                            *)
RowFails(after) ==
  CASE Now = "refused_write" -> after # before
    [] Now \in Reports       -> FALSE
    [] OTHER                 -> after \notin Targets

AfterVerify(after) ==
  IF Now \in Reports \/ (Now = "refused_write" /\ after = before)
  THEN "over" ELSE "restore"

Verify ==
  /\ step = "verify"
  /\ \/ \E after \in Reading(SettingOf(Now)) \cup {None} :
          failed' \in {failed \/ RowFails(after), TRUE} /\ Go(AfterVerify(after))
        /\ UNCHANGED exc
     \/ /\ Go(IF Now \in Reports THEN "over" ELSE Unwound)
        /\ (Raised \/ Cut) /\ UNCHANGED failed
  /\ UNCHANGED <<setting, late, before, enabled_here, lost, blind>> /\ Held

-----------------------------------------------------------------------------
(* Putting back: a toggle records its failure and is not read again, Home  *)
(* Assistant's failure is suppressed, a network mode is read once more.    *)

(* Without a value read there is none to put back: `net_mode` does not     *)
(* try, Home Assistant and the router refuse.                              *)
NothingToRestore ==
  /\ before = None
  /\ Go(IF Now = "refused_write" THEN "confirm" ELSE "over")
  /\ UNCHANGED <<setting, late, lost, exc, failed, blind>>

RestoreToggle(s) ==
  /\ Now \in Toggles /\ Go(Last)
  /\ \/ (Answered(s, before) \/ Unseen(s, before)) /\ UNCHANGED <<exc, failed>>
     \/ GivenUp(s, before) /\ failed' = TRUE /\ UNCHANGED exc
     \/ GivenUp(s, before) /\ Cut /\ UNCHANGED failed

RestoreThroughHA(s) ==
  /\ Now = "ha_contention" /\ Go("over") /\ UNCHANGED failed
  /\ \/ (Answered(s, before) \/ Unseen(s, before)) /\ UNCHANGED exc
     \/ GivenUp(s, before) /\ Cut

RestoreMode(s) ==
  /\ Now \in {"net_mode", "refused_write"}
  /\ \/ Returns(s, before) /\ Go("confirm") /\ UNCHANGED <<exc, failed>>
     \/ /\ GivenUp(s, before) /\ UNCHANGED exc
        /\ IF Now = "net_mode"
           THEN Go("over") /\ failed' = TRUE
           ELSE Go("confirm") /\ UNCHANGED failed
     \/ GivenUp(s, before) /\ Go("over") /\ Cut /\ UNCHANGED failed

Restore ==
  /\ step = "restore"
  /\ \/ NothingToRestore
     \/ /\ before # None
        /\ \/ RestoreToggle(SettingOf(Now))
           \/ RestoreThroughHA(SettingOf(Now))
           \/ RestoreMode(SettingOf(Now))
  /\ UNCHANGED <<before, enabled_here>> /\ Held

Confirm ==
  /\ step = "confirm" /\ Go("over")
  /\ \/ \E restored \in {setting["mode"], None} : failed' = (failed \/ restored # before)
        /\ UNCHANGED exc
     \/ failed' = TRUE /\ UNCHANGED exc
     \/ Cut /\ UNCHANGED failed
  /\ UNCHANGED <<setting, late, before, enabled_here, lost, blind>> /\ Held

-----------------------------------------------------------------------------
(* `_check_reconnect`, `_check_reboot`: the data session goes down and     *)
(* comes back; only a populated read counts, and a failed one is the       *)
(* expected case.                                                          *)

SessionKept == UNCHANGED <<setting, late, check, before, radio_on,
                           enabled_here, found, lost, blind>>

DropSession ==
  /\ step = "send" /\ reconnected' = TRUE
  /\ \/ session' = "down" /\ Go("wait") /\ UNCHANGED exc
     \/ session' \in {session, "down"} /\ Go("over") /\ (Raised \/ Cut)
  /\ UNCHANGED failed /\ SessionKept

PopulatedAnyAnswer == session # "down"   \* mutant: an answer is taken for a session
Populated == session = "up"

WaitForSession ==
  /\ step = "wait" /\ Go("over")
  /\ \/ Populated /\ UNCHANGED <<exc, failed>>
     \/ failed' = TRUE /\ UNCHANGED exc
     \/ Cut /\ UNCHANGED failed
  /\ UNCHANGED <<session, reconnected>> /\ SessionKept

-----------------------------------------------------------------------------
Router == StrayApplies \/ SessionReturns
Script ==
  \/ SafeTier \/ Offer \/ CheckEnds
  \/ EnableRadio \/ RadioSettles \/ RestoreRadio
  \/ Read \/ Write \/ Verify \/ Restore \/ Confirm
  \/ DropSession \/ WaitForSession

Next == Router \/ Script
Spec == Init /\ [][Next]_vars

-----------------------------------------------------------------------------
(* "A script that leaves guest WiFi on, or mobile data off, has done more  *)
(* harm than the check was worth" (lines 602-604).  What a complete run    *)
(* whose report has no failing row shows: every setting is as it was,      *)
(* however the writes were refused, ignored, lost or late inside each      *)
(* check, but for those where no row looks -- a restoration that returned  *)
(* and is not read again (toggles, Home Assistant's), radios found mixed,  *)
(* a mode that could not be read first, a stray thread; and the data       *)
(* session is up if a reconnect or a reboot was accepted, which come after *)
(* every other check that drops it.                                        *)
CleanReport ==
  (step = "done" /\ ~failed /\ exc = "none") =>
    /\ \A s \in Settings \ blind : setting[s] = found[s]
    /\ reconnected /\ blind \cap Dropping = {} => session = "up"

(* A check that wrote puts back the value it read, on the failure path, a  *)
(* stall and Ctrl-C too, unless a write of that setting came to no known   *)
(* end in it or a stray one came through.  `refused_write` restores        *)
(* outside any `finally`.                                                  *)
PutBack ==
  (/\ step = "over" /\ Now \in Toggles \cup {"ha_contention", "net_mode"}
   /\ before # None /\ ~lost)
    => setting[SettingOf(Now)] = before
=============================================================================
