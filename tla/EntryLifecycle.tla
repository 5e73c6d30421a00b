--------------------------- MODULE EntryLifecycle ---------------------------
(***************************************************************************)
(* The life of one config entry: __init__.py (setup, unload, removal, the  *)
(* update listener), config_flow.py (options, reauth, reconfigure) and     *)
(* number.py (the slider that writes an option two seconds later).         *)
(*                                                                         *)
(* Home Assistant serialises reloads under the entry's `setup_lock`; user  *)
(* actions, the listener, the slider's task, polls and the commands of     *)
(* controls and services run between any two awaits of a reload.           *)
(***************************************************************************)
EXTENDS Naturals

CONSTANTS
  Hosts, Passwords,   \* what a form may hold
  Intervals,          \* positions of the polling interval slider
  MaxEdits            \* bound: actions of the user

ASSUME LifecycleAssumption ==
  /\ Hosts # {} /\ Passwords # {} /\ Intervals # {} /\ MaxEdits \in Nat
  /\ "" \notin Passwords /\ 0 \notin Intervals

Flows == {"options", "reauth"}   \* reconfigure does what reauth does
REPAIR_NAMES == {"conn_error", "auth_failed"}
Polls == {"timer", "setup", "request"}
Commands == {"control", "service"}   \* of an entity, of an SMS service
Strays == {"request", "followUp"} \cup Commands
NotPending == 0
NoForm == [host |-> "", password |-> ""]

VARIABLES
  options,       \* entry.options
  entry,         \* where the entry is
  disabled,      \* disabled_by is set
  removing,      \* "no", "asked" (waiting for the lock) or "doing"
  reloads,       \* calls of async_reload waiting for the lock
  listener,      \* the update listener is registered
  notified,      \* a call of it is due
  built, signature, update_interval,   \* of the running coordinator
  session,       \* its API holds a session
  repairs,       \* issues in the registry for this entry
  polling,       \* its polls in flight
  commands,      \* its commands in flight
  followUp,      \* its one-shot refresh is armed
  stray,         \* what unloaded coordinators still have in flight or armed
  pending, debounce,   \* the slider: value to write, its task
  flow,          \* per flow: the merged form it validates
  edits,         \* actions of the user so far
  slider,        \* history: the last position chosen
  through,       \* history: something runs on past the last logout
  late           \* history: what it has put back since

running == <<built, signature, update_interval, session, polling, commands, followUp>>
life    == <<entry, disabled, removing, reloads, listener, notified>>
sliding == <<pending, debounce>>
past    == <<through, late>>
history == <<edits, slider, past>>
vars    == <<options, life, running, repairs, stray, sliding, flow, history>>

Conn(o) == [host |-> o.host, password |-> o.password]

States == {"loaded", "logout", "platforms", "on_unload", "down", "forwarding",
           "disabled", "gone"}

HasCoordinator == entry \in {"loaded", "logout", "platforms", "on_unload", "forwarding"}
HasEntities    == entry \in {"loaded", "logout", "platforms"}
LoggedOut      == entry \in {"platforms", "on_unload"}
Unloaded       == entry \in {"down", "disabled", "gone"}

Init ==
  /\ \E h \in Hosts, p \in Passwords, i \in Intervals :
       options = [host |-> h, password |-> p, interval |-> i]
  /\ entry = "down" /\ disabled = FALSE /\ removing = "no"
  /\ reloads = 0 /\ listener = FALSE /\ notified = FALSE
  /\ built = Conn(options) /\ signature = built /\ update_interval = options.interval
  /\ session = FALSE /\ polling = {} /\ commands = {} /\ followUp = FALSE
  /\ repairs = {} /\ stray = {}
  /\ pending = NotPending /\ debounce = FALSE
  /\ flow = [f \in Flows |-> NoForm]
  /\ edits = 0 /\ slider = options.interval
  /\ through = FALSE /\ late = {}

-----------------------------------------------------------------------------
(* `async_update_entry` calls the listeners when something changed.        *)
UpdateEntry(new) ==
  /\ options' = new
  /\ notified' = (notified \/ (listener /\ new # options))

ReloadSignatureEmpty(o) == NoForm   \* mutant: nothing requires a reload
ReloadSignature(o) == Conn(o)

(* `_async_options_updated`.  Without `runtime_data` it raises.            *)
OptionsUpdated ==
  /\ notified /\ notified' = FALSE
  /\ IF HasCoordinator /\ signature # ReloadSignature(options)
     THEN /\ signature' = ReloadSignature(options)
          /\ reloads' = reloads + 1
     ELSE UNCHANGED <<signature, reloads>>
  /\ UNCHANGED <<options, entry, disabled, removing, listener, built, update_interval,
                 session, polling, commands, followUp, repairs, stray, sliding, flow,
                 history>>

-----------------------------------------------------------------------------
(* The user.                                                               *)

Edit == edits < MaxEdits /\ edits' = edits + 1

SetDisabled ==
  /\ Edit /\ removing = "no" /\ entry # "gone"
  /\ disabled' = ~disabled /\ reloads' = reloads + 1
  /\ UNCHANGED <<options, entry, removing, listener, notified, running, repairs, stray,
                 sliding, flow, slider, past>>

Remove ==
  /\ Edit /\ removing = "no" /\ entry # "gone"
  /\ removing' = "asked"
  /\ UNCHANGED <<options, entry, disabled, reloads, listener, notified, running, repairs,
                 stray, sliding, flow, slider, past>>

(* What begins after the logout runs on past it.                           *)
PastLogout == through' = (through \/ LoggedOut) /\ UNCHANGED late

Begin(k) == polling' = polling \cup {k} /\ PastLogout

(* `async_set_native_value` replaces the task that is sleeping.            *)
MoveSlider ==
  /\ Edit /\ HasEntities
  /\ \E i \in Intervals : slider' = i /\ pending' = i
  /\ debounce' = TRUE
  /\ UNCHANGED <<options, life, running, repairs, stray, flow, past>>

(* Two quiet seconds later, and the refresh it asks for.                   *)
DebouncedApply ==
  /\ debounce /\ debounce' = FALSE
  /\ update_interval' = pending
  /\ UpdateEntry([options EXCEPT !.interval = pending])
  /\ pending' = NotPending
  /\ Begin("request")
  /\ UNCHANGED <<entry, disabled, removing, reloads, listener, built, signature, session,
                 commands, followUp, repairs, stray, flow, edits, slider>>

(* `_merge_credentials`, before the await.                                 *)
Merged(form) == IF form.password = "" THEN [form EXCEPT !.password = options.password]
                ELSE form

SubmitForm(f) ==
  /\ Edit /\ flow[f] = NoForm /\ entry # "gone"
  /\ \E h \in Hosts, p \in Passwords \cup {""} :
       flow' = [flow EXCEPT ![f] = Merged([host |-> h, password |-> p])]
  /\ UNCHANGED <<options, life, running, repairs, stray, sliding, slider, past>>

(* `_validate_credentials` refuses: the form is shown again.               *)
ValidationFails(f) ==
  /\ flow[f] # NoForm
  /\ flow' = [flow EXCEPT ![f] = NoForm]
  /\ UNCHANGED <<options, life, running, repairs, stray, sliding, history>>

(* The options are read again after the await.  Reauth and reconfigure     *)
(* reload by themselves, besides what the listener does.                   *)
CommitForm(f) ==
  /\ flow[f] # NoForm /\ entry # "gone"
  /\ UpdateEntry([options EXCEPT !.host = flow[f].host, !.password = flow[f].password])
  /\ reloads' = IF f = "options" THEN reloads ELSE reloads + 1
  /\ flow' = [flow EXCEPT ![f] = NoForm]
  /\ UNCHANGED <<entry, disabled, removing, listener, running, repairs, stray, sliding,
                 history>>

-----------------------------------------------------------------------------
(* Polls and commands, as far as they touch the session and repairs.  The  *)
(* timer's poll and the background setup are tasks of the entry; requested *)
(* polls (Refresh, a follow-up, the slider, the end of a command) and      *)
(* commands are not.  Of the APIs of unloaded coordinators, `session`      *)
(* follows the last one; what any of them leaves behind may log in on it.  *)

(* What holds after the logout and was not there then has been put back.   *)
PutBack(what) ==
  /\ late' = IF LoggedOut \/ Unloaded THEN late \cup {what} ELSE late
  /\ UNCHANGED through

InFlight == polling \cup commands \cup IF Unloaded THEN stray \ {"followUp"} ELSE {}

(* Each step of one takes the lock and logs in where there is no session,  *)
EnsureClient ==
  /\ InFlight # {} /\ session' = TRUE
  /\ PutBack("session")
  /\ UNCHANGED <<options, life, built, signature, update_interval, polling, commands,
                 followUp, repairs, stray, sliding, flow, edits, slider>>

(* and one that fails drops it.                                            *)
ResetClient ==
  /\ InFlight # {} /\ session' = FALSE
  /\ UNCHANGED <<options, life, built, signature, update_interval, polling, commands,
                 followUp, repairs, stray, sliding, flow, history>>

TimerPoll ==
  /\ HasEntities /\ "timer" \notin polling
  /\ Begin("timer")
  /\ UNCHANGED <<options, life, built, signature, update_interval, session, commands,
                 followUp, repairs, stray, sliding, flow, edits, slider>>

Request ==
  /\ Edit /\ HasEntities /\ "request" \notin polling
  /\ Begin("request")
  /\ UNCHANGED <<options, life, built, signature, update_interval, session, commands,
                 followUp, repairs, stray, sliding, flow, slider>>

(* A service finds the coordinator wherever there is one.                  *)
Command(k) ==
  /\ Edit /\ k \notin commands
  /\ IF k = "service" THEN HasCoordinator ELSE HasEntities
  /\ commands' = commands \cup {k}
  /\ PastLogout
  /\ UNCHANGED <<options, life, built, signature, update_interval, session, polling,
                 followUp, repairs, stray, sliding, flow, slider>>

(* It ends with a forced refresh or, that of a button, with a follow-up;   *)
(* one that fails with neither.                                            *)
CommandEnds(k) ==
  /\ k \in commands /\ commands' = commands \ {k}
  /\ \/ polling' = polling \cup {"request"} /\ UNCHANGED followUp
     \/ k = "control" /\ followUp' = TRUE /\ UNCHANGED polling
     \/ UNCHANGED <<polling, followUp>>
  /\ UNCHANGED <<options, life, built, signature, update_interval, session, repairs,
                 stray, sliding, flow, history>>

FollowUpFires ==
  /\ followUp /\ followUp' = FALSE
  /\ Begin("request")
  /\ UNCHANGED <<options, life, built, signature, update_interval, session, commands,
                 repairs, stray, sliding, flow, edits, slider>>

(* A poll that fails may raise a repair.                                   *)
FailedPoll ==
  /\ \/ UNCHANGED <<repairs, past>>
     \/ \E n \in REPAIR_NAMES : repairs' = repairs \cup {n} /\ PutBack("repair")
  /\ UNCHANGED notified

(* New hardware metadata or a new anchor is written to entry.data, which   *)
(* calls the listener too, though no option changed.                       *)
RefreshMetadata == notified' \in {notified, notified \/ listener}

(* The first served poll after failures clears the connection's repair.    *)
ServedPoll ==
  /\ repairs' \in {repairs, repairs \ {"conn_error"}}
  /\ UNCHANGED past
  /\ RefreshMetadata

PollEnds(k) ==
  /\ k \in polling /\ polling' = polling \ {k}
  /\ FailedPoll \/ ServedPoll
  /\ UNCHANGED <<options, entry, disabled, removing, reloads, listener, built, signature,
                 update_interval, session, commands, followUp, stray, sliding, flow, edits,
                 slider>>

(* The same of what an unload could not cancel.                            *)
StrayPollEnds ==
  /\ "request" \in stray /\ stray' = stray \ {"request"}
  /\ FailedPoll \/ ServedPoll
  /\ UNCHANGED <<options, entry, disabled, removing, reloads, listener, running, sliding,
                 flow, edits, slider>>

StrayCommandEnds(k) ==
  /\ k \in stray
  /\ \E next \in {{}, {"request"}} \cup (IF k = "control" THEN {{"followUp"}} ELSE {}) :
       stray' = (stray \ {k}) \cup next
  /\ UNCHANGED <<options, life, running, repairs, sliding, flow, history>>

StrayFollowUpFires ==
  /\ "followUp" \in stray /\ stray' = (stray \ {"followUp"}) \cup {"request"}
  /\ UNCHANGED <<options, life, running, repairs, sliding, flow, history>>

-----------------------------------------------------------------------------
(* Unloading: `async_unload_entry` and what Home Assistant does around it. *)

UnloadBegins ==
  /\ entry = "loaded" /\ entry' = "logout"
  /\ \/ reloads > 0 /\ reloads' = reloads - 1 /\ UNCHANGED removing
     \/ removing = "asked" /\ removing' = "doing" /\ UNCHANGED reloads
  /\ followUp' = FALSE
  /\ UNCHANGED <<options, disabled, listener, notified, built, signature,
                 update_interval, session, polling, commands, repairs, stray, sliding,
                 flow, history>>

ClearRepairsOne == repairs' = repairs \ {"conn_error"}   \* mutant: one name forgotten
ClearRepairs == repairs' = repairs \ REPAIR_NAMES

(* The logout, which gives up on a lock that a poll or a command holds for *)
(* LOCK_TIMEOUT, then clear_repairs.                                       *)
Logout ==
  /\ entry = "logout" /\ entry' = "platforms"
  /\ session' \in {FALSE} \cup (IF InFlight = {} THEN {} ELSE {session})
  /\ ClearRepairs
  /\ through' = (InFlight \cup stray # {} \/ followUp)
  /\ late' = IF session' THEN {"session"} ELSE {}
  /\ UNCHANGED <<options, disabled, removing, reloads, listener, notified, built, signature,
                 update_interval, polling, commands, followUp, stray, sliding, flow, edits,
                 slider>>

FlushDropped ==   \* mutant: the task is cancelled and its value forgotten
  pending' = NotPending /\ debounce' = FALSE
  /\ UNCHANGED <<update_interval, options, notified>>

(* The slider's `async_will_remove_from_hass`.                             *)
Flush ==
  /\ pending' = NotPending /\ debounce' = FALSE
  /\ IF pending = NotPending
     THEN UNCHANGED <<update_interval, options, notified>>
     ELSE /\ update_interval' = pending
          /\ UpdateEntry([options EXCEPT !.interval = pending])

UnloadPlatforms ==
  /\ entry = "platforms" /\ entry' = "on_unload"
  /\ Flush
  /\ UNCHANGED <<disabled, removing, reloads, listener, built, signature, session, polling,
                 commands, followUp, repairs, stray, flow, history>>

(* The listener goes, the entry's own tasks are cancelled.                 *)
ProcessOnUnload ==
  /\ entry = "on_unload" /\ entry' = "down"
  /\ listener' = FALSE
  /\ stray' = stray \cup (polling \cap {"request"}) \cup commands
              \cup IF followUp THEN {"followUp"} ELSE {}
  /\ polling' = {} /\ commands' = {} /\ followUp' = FALSE
  /\ UNCHANGED <<options, disabled, removing, reloads, notified, built, signature,
                 update_interval, session, repairs, sliding, flow, history>>

(* `async_remove_entry`.                                                   *)
RemoveEntry ==
  /\ \/ entry = "down" /\ removing = "doing"
     \/ entry = "disabled" /\ removing = "asked"
  /\ entry' = "gone" /\ reloads' = 0
  /\ ClearRepairs
  /\ UNCHANGED <<options, disabled, removing, listener, notified, running, stray, sliding,
                 flow, history>>

StayDisabled ==
  /\ entry = "down" /\ disabled /\ removing # "doing"
  /\ entry' = "disabled"
  /\ UNCHANGED <<options, disabled, removing, reloads, listener, notified, running, repairs,
                 stray, sliding, flow, history>>

ReloadDisabled ==
  /\ entry = "disabled" /\ reloads > 0
  /\ entry' = "down" /\ reloads' = reloads - 1
  /\ UNCHANGED <<options, disabled, removing, listener, notified, running, repairs, stray,
                 sliding, flow, history>>

(* `async_setup_entry` up to its first await: a coordinator from the       *)
(* options as they are now.                                                *)
SetupEntry ==
  /\ entry = "down" /\ ~disabled /\ removing # "doing"
  /\ entry' = "forwarding"
  /\ built' = Conn(options) /\ signature' = ReloadSignature(options)
  /\ update_interval' = options.interval
  /\ listener' = TRUE
  /\ session' = FALSE
  /\ through' = FALSE /\ late' = {}
  /\ UNCHANGED <<options, disabled, removing, reloads, notified, polling, commands,
                 followUp, repairs, stray, sliding, flow, edits, slider>>

(* Platforms are there; the first login and refresh go on in background.   *)
ForwardPlatforms ==
  /\ entry = "forwarding" /\ entry' = "loaded"
  /\ polling' = polling \cup {"setup"}
  /\ UNCHANGED <<options, disabled, removing, reloads, listener, notified, built, signature,
                 update_interval, session, commands, followUp, repairs, stray, sliding, flow,
                 history>>

-----------------------------------------------------------------------------
User == SetDisabled \/ Remove \/ MoveSlider \/ Request
        \/ (\E k \in Commands : Command(k)) \/ (\E f \in Flows : SubmitForm(f))

Validated == \E f \in Flows : ValidationFails(f) \/ CommitForm(f)

Strayed == StrayPollEnds \/ StrayFollowUpFires \/ \E k \in Commands : StrayCommandEnds(k)

Loop == OptionsUpdated \/ DebouncedApply \/ Validated \/ FollowUpFires
        \/ EnsureClient \/ ResetClient \/ TimerPoll \/ Strayed
        \/ (\E k \in Commands : CommandEnds(k)) \/ (\E k \in Polls : PollEnds(k))

Reload == UnloadBegins \/ Logout \/ UnloadPlatforms \/ ProcessOnUnload \/ RemoveEntry
          \/ StayDisabled \/ ReloadDisabled \/ SetupEntry \/ ForwardPlatforms

Next == User \/ Loop \/ Reload

(* Tasks that can go on do: every await of a reload, of a validation and   *)
(* of the debounce is bounded in time.                                     *)
Fairness == /\ WF_vars(Reload) /\ WF_vars(OptionsUpdated)
            /\ WF_vars(DebouncedApply) /\ WF_vars(Validated)

Spec == Init /\ [][Next]_vars /\ Fairness

-----------------------------------------------------------------------------
TypeOK ==
  /\ options \in [host : Hosts, password : Passwords, interval : Intervals]
  /\ entry \in States /\ disabled \in BOOLEAN /\ removing \in {"no", "asked", "doing"}
  /\ reloads \in Nat /\ listener \in BOOLEAN /\ notified \in BOOLEAN
  /\ built \in [host : Hosts, password : Passwords]
  /\ signature \in [host : Hosts, password : Passwords]
  /\ update_interval \in Intervals
  /\ session \in BOOLEAN /\ polling \subseteq Polls /\ commands \subseteq Commands
  /\ followUp \in BOOLEAN /\ repairs \subseteq REPAIR_NAMES /\ stray \subseteq Strays
  /\ pending \in Intervals \cup {NotPending} /\ debounce \in BOOLEAN
  /\ flow \in [Flows -> [host : Hosts, password : Passwords] \cup {NoForm}]
  /\ edits \in 0..MaxEdits /\ slider \in Intervals
  /\ through \in BOOLEAN /\ late \subseteq {"session", "repair"}

(* "a user who moves the slider and immediately changes a setting watches  *)
(* the interval snap back" (number.py:172-174) never happens: when no move *)
(* is waiting, the stored option is the position last chosen, whatever     *)
(* flows, reloads and removals ran meanwhile.                              *)
IntervalKept == (pending = NotPending) => options.interval = slider

(* A session or a repair that outlives an unload (__init__.py:506-516) was *)
(* put back after the logout, by a poll, a command or a follow-up that ran *)
(* on past it: what stood before it never stays, and nothing runs on that  *)
(* had ended by then.                                                      *)
NothingOutlives == Unloaded =>
  /\ session => "session" \in late
  /\ repairs # {} => "repair" \in late
  /\ late # {} \/ stray # {} => through

(* Once the user stops, the entry comes to rest and what runs was built    *)
(* from the stored options, the interval included.                         *)
AtRest ==
  /\ entry \in {"loaded", "disabled", "gone"}
  /\ entry = "loaded" => (built = Conn(options) /\ update_interval = options.interval)
ChangesTakeEffect == <>[]AtRest
=============================================================================
