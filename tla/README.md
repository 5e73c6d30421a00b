# A verification model of the Huawei Router 5G integration

This directory specifies the Home Assistant custom integration in
`src/custom_components/huawei_router_5g` in TLA+: how it polls one router, how
it shares the router's single session, how it decides that something is wrong,
what its controls show, how its configuration is changed under it, and what it
does with text messages and with the clients of the router; and the script
`src/scripts/hardware_check.py`, which changes a router in use. TLC checks the
specifications on small instances; TLAPS proves the most important safety
properties for every value of the constants. Paths without a directory below are
relative to `src/custom_components/huawei_router_5g`.

## 1. The system

One *config entry* is one router. Everything runs on Home Assistant's event
loop, in one thread, so two handlers interleave only where one of them awaits.
The exception is the client library: it is synchronous, and every call of it
runs in a worker thread that no timeout can stop.

| Component | State it keeps | Operations | Talks to |
|---|---|---|---|
| Polling coordinator (`coordinator.py`) | `consecutive_failures`, `_probe_done`, `_fault_is_local`, health snapshot, repairs, `_force_refresh_once`, `_pending_refresh`, the values of the last poll | a poll (`_async_update_data`), forced and follow-up refreshes, the liveness probe, the health verdict | API session (awaits), Home Assistant's timer and debouncer (external), every entity (publishes) |
| API session (`api.py`) | the lock and its owner, the client, `_generation`, the premise cache, `endpoint_outcomes` | login, logout, `get_data`, each write, read-backs, the probe, the diagnostics sweep | the router through a worker thread |
| Write confirmation and switches (`helpers.py`, `switch.py`, `select.py`) | `_last_known` of each switch | confirm a write by reading back, show the position last read | API session, coordinator |
| Endpoint health (`api.py` 593-750, 1150-1284, `coordinator.py` 508-590) | the outcome map, the premise, what has answered; strikes per endpoint, the verdict | ask each endpoint, tell a refusal from an ended session, count, freeze, report | the router through a worker thread, Integration Health |
| Uptime latches (`coordinator.py` 975-1640) | last counter, anchor, pause marker, stored counters | detect a reboot, hold an anchor, persist | the poll's payload, Home Assistant's storage |
| SMS events and clean-up (`coordinator.py` 1664-1721, `__init__.py` 150-201) | the newest date seen and the hashes of that second | events for new messages, bulk deletion | API session, the event bus |
| Polling interval number (`number.py`) | a pending value and its two-second task | debounce, flush on removal | config entry options |
| Entry lifecycle (`__init__.py`, `config_flow.py`) | options, runtime data, background login, update listener, one merged form per flow | setup, unload, reload, removal, options, reauth, reconfigure | all of the above, Home Assistant's reloads (external) |
| Library guard and repair flows (`library_guard.py`, `repairs.py`) | one install attempt per process | pin the library, ask for a restart | pip, issue registry |
| Client trackers (`device_tracker.py`, `__init__.py`, `helpers.py`) | `tracked_macs`, the rows of the entity registry | create, migrate, clean up | the poll's payload, the registry (external) |
| Attended hardware check (`src/scripts/hardware_check.py`) | per check: the value it read first | change a setting, verify, restore | the router, Home Assistant over REST |
| Entities, buttons, diagnostics, forms | none of their own | read a poll's payload; call the API | coordinator, API session |

What is hard here, and what each part owes:

* **Overlapping polls.** The coordinator's timer poll does not take the
  debouncer's lock, so a user's refresh can be in flight with it. Both share
  the failure count, the probe latch, the verdict and the repairs, and read
  them again after an await. Owed: repairs and verdict describe the present
  outage, one probe per outage, a recovery that lasts.
* **Threads that outlive their call.** `asyncio.timeout` cancels the await and
  leaves the thread in the library. Owed: the lock comes free, the wedged
  client is dropped, and nothing an orphan learns late counts as current.
* **One answer with two meanings.** The router answers a read it refuses with
  the code it also gives to every read of a session that has ended. Owed: an
  ended session is replaced and not recorded as lost endpoints, a refused
  endpoint does not end a session again and again, and the health verdict names
  what is really missing.
* **Writes whose outcome is unknown.** A command may have been applied though
  its answer was lost, and the router answers -1 to a network mode change that
  is under way. Owed: no command twice, success only of what took effect.
* **Latches across time.** The force flag, the probe latch, the strike budget,
  the SMS baseline, the uptime anchors. Owed: each is set and cleared by
  exactly the events that mean it.
* **Order of messages.** SMS arrive with dates of the service centre, in slots
  that are reused, and are listed unread first. Owed: each event once, in
  order; a bulk deletion that removes what it listed and keeps the newest.
* **Configuration under way.** Forms, the slider, commands and polls are tasks
  of their own; a reload builds everything anew while they run. Owed: what runs
  in the end is what is stored, a slider move is never lost, and what an unload
  leaves behind comes only from what ran on past its logout.
* **Controls over stale polls.** A payload fetched before a write is published
  after it. Owed: a switch shows what the router last said, and ends at what it
  holds.
* **Putting back.** The hardware check writes to a router in use, and any of its
  awaits can fail, stall or be interrupted; a write that returned may have done
  nothing. Owed: what was read is written back, and a report without a failing
  row means that nothing a row looks at has changed.
* **Restarts.** Only the uptime counters are persisted, and not in the same
  step as the anchor they explain. Owed: no reboot invented, none hidden.

`PROJECT.json` lists every hazard at its line with the properties that cover it.

## 2. Modules

| Module | What it models |
|---|---|
| `PollCycle` | the polls of one entry, from Home Assistant's timer to the published verdict |
| `PollCycleProofs` | its inductive invariant and theorems |
| `ApiSession` | the lock, the session and the worker threads of the API object |
| `ApiSessionProofs` | its inductive invariant and theorems |
| `EndpointHealth` | the fetch of one poll endpoint by endpoint, the judgement of session signals, and the health verdict of served polls |
| `EndpointHealthProofs` | its inductive invariant and theorems |
| `UptimeLatch` | one uptime latch across polls, resets of the router, and stops, crashes and reloads of Home Assistant |
| `UptimeProofs` | its inductive invariant and theorems |
| `SmsDelivery` | *abstract*: what `huawei_router_5g_sms_received` promises an automation |
| `SmsInbox` | the router's message storage and its listings, as the code asks for them |
| `SmsEvents` | the poll's listing and `_check_new_sms`; implements `SmsDelivery` |
| `SmsCleanup` | the service `delete_all_sms` against the same storage |
| `SmsProofs` | the refinement of `SmsDelivery`, and the theorems of both users of the storage |
| `ControlLatch`, `ControlLatchProofs` | a switch and the network mode select between writes, read-backs, polls and the pause |
| `EntryLifecycle` | one entry from setup to removal, with its forms, its slider and its update listener |
| `Trackers` | the client trackers of several entries and their registry rows |
| `EntryProofs` | the theorems of both |
| `HardwareCheck`, `HardwareCheckProofs` | the attended tier of `src/scripts/hardware_check.py` |
| `MCSmsEvents`, `MCSmsCleanup` | the symmetry TLC uses |
| `MCHardwareCheck` | the settings TLC starts from |

`SmsEvents` and `SmsCleanup` extend `SmsInbox`. `PollCycle` sees a call of the
API as an answer (served, refused, timed out, failed), and `ApiSession` says how
a call gets there; `SmsEvents` relies on `ApiSession` for the fact that a list
is checked before another poll may ask for one. `EndpointHealth` opens the step
that both call a fetch: what `PollCycle` sees as served or refused is here a
sequence of requests, and its verdict is the one `PollCycle` publishes on a
served poll. `ControlLatch` takes from `ApiSession` that a fetch, a command and
a read-back exclude each other, and from `PollCycle` when a poll fetches;
`EntryLifecycle` keeps of a poll only what it does to the session, the repairs
and the entry's data.

### PollCycle

`pc[s]` is where the poll of slot `s` is suspended: `fetching` and `retrying`
are the two `await self.api.get_data()`, `probing` is
`await self.api.probe_liveness()`. The slots are `timer` and `request`; the
debouncer lets one requested poll run at a time and Home Assistant one timer
poll. Everything a poll does between two awaits is one action:

| Action | Code |
|---|---|
| `BeginPoll` | `_async_update_data` up to its first await: take the force flag, read the pause |
| `ServeFromCache` | the paused poll that answers with the held values |
| `FetchServed` | recovery (repair, latch, count), verdict, published values |
| `FetchRetried` | the second attempt after `HuaweiAuthError` |
| `FetchRefused`, `FetchTimedOut`, `FetchFailed` | one strike, then hold, repair, probe or `UpdateFailed` |
| `ProbeAnswers` | the rest of `_async_diagnose_fault` and the `raise UpdateFailed` behind it |
| `ForceRefresh`, `UserRefresh`, `ScheduleFollowUp`, `FollowUpFires` | the ways a user or a write asks for a poll |
| `PausePolling`, `ResumePolling`, `SliderCancelsRefresh` | the pause switch and the interval slider's use of the debouncer |
| `TimerPoll`, `CooldownEnds`, `EndPoll` | Home Assistant's coordinator and debouncer (external), as far as they decide when a poll runs |

`update_health` computes a verdict and publishes it, or, when computing it
raises, an error of its own (`UncomputedVerdict`), on a served poll as on a
failed one; what can make it raise is not modelled, so it may at any poll.
Setup's background first refresh is the armed timer of `Init`. The branch for a
payload without its critical part (`coordinator.py` 793-796) is not reachable:
`get_data` raises first.

### ApiSession

`call[c]` is one invocation of a public method: which (`op`), where it is
suspended (`at`), what its worker was asked (`step`), whether the one retry is
spent (`again`), which client it uses (`mine`), the generation its fetch began
on (`gen`), whether it left a thread behind (`orphan`), which probe a sweep is
at and how many sessions it has lost (`probe`, `lost`), whether its worker has
compared the generation and is about to store the premise (`checked`), what it
reported (`verdict`), the mode it asks for (`target`), and the history field
`applied`. A client is named by the generation of the login that made it.
`mode` is the network mode the router holds and `before` the one a first read
after a change may still show: `confirm_write` compares what it reads with the
target and knows nothing of who set it. A worker's check of the generation and
its store of the premise are two steps, since neither is under a lock and a
reset runs on the event loop; `overtaken` keeps the generations of the workers
a reset found between the two.

The ten operations stand for every method with the same control: `poll`
(`get_data`), `write` (the single-command writes), `reboot`, `reconnect` (two
commands), `netmode` (bands, command, -1, settling, confirmation), `read_back`,
`modes` (`get_supported_net_modes`, without the lock), `login`, `logout`,
`sweep` (`probe_diagnostic_endpoints`).
`WorkAnswers`, `WorkFails`, `LoginSucceeds`, `LoginFails`, `Fetch*` and
`ReadBackAnswers` are the answers of a worker thread,
`LockTimeout`/`WriteDeadline`/`PollTimeout` the timeouts, `OrphanReturns` a
thread that answers after its call was given up. `ProbeSettled`,
`ProbeUnanswered` and `SessionLost` are the sweep's loop: it keeps a client of
its own across awaits and compares the generation before each request.
`ProbeLiveness` is what a poll does after it has failed: a probe on a connection
of its own, without the lock, and a reset unless that fails too, so a client may
be dropped under any call at work.

Abstracted: the lock is granted to any waiter (asyncio's is FIFO, so the model
has more behaviours). A stale client resets the generation once where the code
resets it twice, since generations are only compared. A write's first wait for
the lock ends at `LOCK_TIMEOUT` (60 s) before its `WRITE_TIMEOUT` (120 s), and
`FETCH_TIMEOUT` (30 s) ends a waiting poll before `LOCK_TIMEOUT` would. The
first read-back may still show the old value, the second is taken to be current.
Selects run one at a time (`PARALLEL_UPDATES`), so one mode change is under way
at once; an orphan of an earlier one may still apply.

### EndpointHealth

Endpoints are numbered in the order the fetch asks for them; 1 is
`device_information`, without which there is no poll, `Signal` is
`device_signal`, whose content the verdict looks at, and `Added` are those that
only a recent library can ask for (`oldLibrary`). `serves` is what the router
serves. `at` is the request under way: `fetching` an endpoint, `checking` the
premise (a read of `device_information` without a login), `rereading` it with
our session, `concluding` from the history.

| Action | Code |
|---|---|
| `BeginPoll`, `Connect` | the coordinator's call of `get_data`, `_ensure_client` and the cleared map |
| `EndpointAnswers`, `EndpointMissing` | `_fetch`: an answer, or a code that is not a session signal, recorded |
| `EndpointSignals`, `ReadPremise`, `Reread`, `JudgeByHistory` | `_judge_session_signal`, `_judge_signal`, `_read_premise` |
| `CriticalSignals`, `Expire` | an expiry: the client is reset, `get_data` runs once more |
| `ServePoll` | what the deadline left becomes `skipped`; `_compute_health` |
| `PollFails` | a login or a critical read that fails, a timeout |
| `SessionEnds`, `RouterChanges`, `TimePasses`, `RouterSettles` | the router and the clock (external) |

`clock` is `early` up to `ADJUDICATION_BUDGET`, `late` up to `FETCH_DEADLINE`
and `over` after it, which is all the code compares the time with. A refusal
may carry a code of its own or a session signal. Two firmware facts are open:
whether `device_information` needs a login (`anonymous`) and which endpoints
are served. `missed` and `lost` are histories the properties speak of; the
code has only `strikes`. Threads that outlive a timeout are left to
`ApiSession`, so a fetch that fails takes nothing further.

### UptimeLatch

The coordinator has three latches that share nothing but the store's file, so
the model has one, and `pauses` says which kind: a clock (uptime, the current
connection) or a counter that stands still while the connection is down (the
total connection time). `counter` is what the router would report, `latch` the
`_UptimeLatch`, `saving` the record that `async_delay_save` holds back, `disk`
the anchor in `entry.data` and the stored record.

| Definition | Code |
|---|---|
| `Poll` | `_apply_uptime`, in its order: `Sampled`, `Reconciled`, `Checked`, `Read`, `Persisted` |
| `Sampled`, `RateKnown`, `Pace`, `DerivedBoot` | `_record_drift_sample`, `_drift_rate`, `_derived_boot` |
| `RuntimeReset`, `ColdStartReset`, `FloorReset`, `ShortfallReset` | the four tests for a reset: while running; at a start with nothing stored; with a stored pausing counter; with a stored clock |
| `Latched`, `Written` | `_latch_boot_time`, `_write_counter` |
| `SaveEntry`, `SaveStore` | the anchor is saved within a second, the record within a minute |
| `Start`, `Reload` | `async_load_stored_uptime`, which reads the file and not what is waiting to be saved |
| `Wait`, `RouterResets`, `Stop`, `Crash` | the clock, the router and the host (external) |

Time is counted in units of 30 s, in which every limit of the source but its
one-second tolerances is a whole number; it jumps, since only the gaps between
two polls matter. The two saves are due before the next gap, so a crash falls
before, between or after them. Another latch's write saves the whole file, so a
poll may save this latch's record even where it did not change. Polls that
change nothing are polls that do not happen: no reading, a reading that is not a
number, an unset host clock, a start more than ten years ago. The host's clock
is taken to be right, which leaves the branches for a clock that went backwards
unused. What a counter counts in a wait, and the cap of the drift window at its
rate, are whole (`WholeAssumption`), so that nothing is rounded as long as no
reset went unseen. `epoch`, `start`, `boot_of`, `last_of`, `stored_of` and
`blind` are histories the properties speak of.

### SmsInbox, SmsEvents, SmsCleanup

A message is a model value with a box, a slot (`index`), a date and an unread
flag. Dates are the service centre's, so they come in any order. A listing is
the code's request: unread messages first, then the newest date, the first
`PollCount` (20) or `DeleteCount` (50) entries; where that says nothing the
order is open. `CountSms`, `ListSms`, `CheckNewSms` are the three points at
which a poll meets the inbox; the router moves between them. The SIM's inbox is
listed only when the device's is empty. `DeleteAllLists` and
`DeleteAllDeletes` are the service: a listing, then one deletion by slot after
the other, each of which may fail, end the service, or be given up with or
without effect.

### ControlLatch

`router` is what the router holds, `payload` what the last poll published,
`latch` the switch's `_last_known`. A service call goes through its steps
(`write`, `confirm`, `again`, `refresh`); a poll reads under the lock
(`FetchReads`) and then publishes or fails. The three router switches are
instances of one class, so one stands for them; the select differs in that it
latches nothing and forces a refresh.

| Action | Code |
|---|---|
| `TurnOrSelect`, `Write` | `async_turn_on`, `async_turn_off`, `async_select_option` up to the command's answer |
| `Confirmed`, `Disagrees`, `Unverified` | `confirm_write`: one read, a second when the first disagrees |
| `StoreConfirmed` | `_async_confirm`: the latch, then the published state |
| `SelectRefreshes`, `SetPause` | the select's forced refresh, the pause switch |
| `PollFromCache`, `FetchReads`, `FetchPublishes`, `FetchFails`, `Discard` | `_async_update_data` and `_handle_coordinator_update` |
| `Applies` | a command the router accepted and applies later (external) |

A forced fetch that fails in a pause beyond the strike limit publishes empty
data (`Discard`); `failures` counts every failed read, so the model allows it at
least where the code's consecutive count does. `evidence` is the last position
the router reported, to a read-back or to a
fetch that was not overtaken by one; `republished` says that a payload older
than it was published again.

### EntryLifecycle

`entry` is where a reload stands between two awaits: `loaded`, `logout`
(awaiting the API's logout), `platforms`, `on_unload`, `down`, `forwarding`,
and `disabled` and `gone`. Home Assistant serialises reloads and removal under
one lock, which is the order of these places; everything else runs between any
two of them.

| Action | Code |
|---|---|
| `SetupEntry`, `ForwardPlatforms` | `async_setup_entry` |
| `UnloadBegins`, `Logout`, `UnloadPlatforms`, `ProcessOnUnload` | `async_unload_entry` and what Home Assistant does after it |
| `RemoveEntry`, `ClearRepairs` | `async_remove_entry`, `clear_repairs` |
| `OptionsUpdated`, `ReloadSignature` | `_async_options_updated`: reload only when host, user or password changed |
| `SubmitForm`, `ValidationFails`, `CommitForm`, `Merged` | options, reauth and reconfigure: merge, await, write |
| `MoveSlider`, `DebouncedApply`, `Flush` | the interval number |
| `TimerPoll`, `Request`, `FollowUpFires`, `Begin` | the polls that may log in and raise repairs |
| `Command`, `CommandEnds` | a control's or an SMS service's command, its read-backs and the refresh or follow-up it asks for |
| `EnsureClient`, `ResetClient` | what a poll or a command does to the session while it runs |
| `StrayPollEnds`, `StrayCommandEnds`, `StrayFollowUpFires` | the same of what an unloaded coordinator still has in flight or armed |
| `FailedPoll`, `ServedPoll`, `RefreshMetadata` | what a poll does to repairs and to `entry.data`, whose change calls the listener too |
| `SetDisabled`, `Remove`, `StayDisabled`, `ReloadDisabled` | Home Assistant (external) |

`stray` is what no unload cancels, since it is no task of the entry: a requested
poll, a command, a service's next deletion, and a follow-up armed after the
unload has cancelled the one before. Each may wait for the API's lock and log in
when it gets it, also after the logout. `through` says that something ran on
past the last logout, `late` what it has put back since. Reconfigure does what
reauth does and is not a third flow. The user's name is handled as the host is
and is left out.

### Trackers

`rows` is the entity registry: unique ids with the entry that owns them. A row
of an older version has the bare MAC as its id and the registry holds one of
each; those of now have the entry as scope. `payload`, `tracked` and `adding`
are the clients in the published data, the closure's `tracked_macs`, and the
entities under way to the registry. `Setup` migrates, `Poll` publishes and adds,
`Added` is Home Assistant's registration after the refresh it awaits, `CleanUp`
and `Press` are the service and the button.

### HardwareCheck

Every attended check is one scheme: read a setting, write another value, verify,
restore, confirm. `Checks` is their order, `step` the await the present one is
in; `FirstStep`, `Targets`, `Unwound`, `RowFails` and `AfterVerify` say how the
checks differ. `setting` is what the router holds; the radios may be found
`Mixed`, which reads as either and is levelled by the first write. An await ends
with an answer, an exception (`Raised`), or because the check's timeout or
Ctrl-C cancels the task (`Cut`), also in a restoring step. A write that returned
may have taken effect or not (`Returns`: "a write that returns cleanly has
already been proven worthless here"), and one that did not return, or did
nothing yet, may be applied later by the thread that goes on (`late`,
`StrayApplies`). A changed mode or mobile data setting drops the data session
(`Redials`), a reconnect and a reboot drop it too, and these two wait for a
populated read. The guest check enables the radio first and puts it back last.
Of the SMS and the traffic check only the rows are here: they change no setting.
`found` is the settings at the start; `lost` says that a write of the setting
under test came to no known end; `blind` collects the settings that were changed
where no row of the report can show it.

## 3. What the runs check

| Run | Properties | Bounds |
|---|---|---|
| `poll_cycle` | `TypeOK`, `ConnRepairMeansOutage`, `OneProbePerOutage`, `ErrorVerdictIsCurrent`, `ConnRepairHasVerdict`, `ForceFlagBuysFetch`, `UserActionServed`, `RecoveryVisible` | limits 2 and 3, count up to 3 |
| `api_session` | `TypeOK`, `LockSound`, `AtMostOnce`, `OkMeansApplied`, `WedgedClientDropped`, `PremiseIsCurrent`, `SweepOnCurrentClient`, `WedgedWorkerFreesLock`, `EveryWaitEnds` | two calls, all ten operations, 3 probes, 2 modes |
| `endpoint_health` | `TypeOK`, `DegradedWasMissed`, `LossReported`, `RereadIsSound` | 3 endpoints, limit 2, strikes up to 2 |
| `endpoint_health_settles` | `EndedSessionReplaced`, `HealthSettles` | 3 endpoints, limit 1 |
| `uptime_latch` | `TypeOK`, `ResetNoticed`, `AnchorTrue`, `MovesMeanReset` | 4 waits of 10 or 200 minutes, losses of 0 and 10 %, drift window of 350 minutes |
| `sms_events` | `TypeOK`, `NothingSkipped`, `Delivers` | 3 messages, 2 inboxes, 2 slots, 2 dates, window 2 |
| `sms_cleanup` | `OnlyListedRemoved`, `NewestReadKept` | 4 messages, 3 slots, 3 dates, window 3, `keep_last` 0..2 |
| `control_latch` | `EvidenceShown`, `ControlsSettle` | 2 calls at once and in all, 2 modes, 2 failures, strike limit 1, 1 late command |
| `control_confirmed_holds` | `ConfirmedHolds` (violated) | 1 call at a time, 1 failure |
| `entry_lifecycle` | `IntervalKept`, `NothingOutlives`, `ChangesTakeEffect` | 3 actions of the user, 2 passwords, 2 intervals |
| `trackers` | `OneTracker` | 2 entries, 2 clients |
| `hardware_check` | `CleanReport`, `PutBack` | 2 modes, radios found mixed too, 1 late write |

* `poll_cycle`: two polls overlap in every way with pauses, forced refreshes,
  failures of each kind and the probe. The repair and the verdict never outlive
  their outage, the router sees one probe per outage, the force flag buys a
  fetch and is always spent, and a router that comes back is seen for good.
  The strike limits keep the code's order (hold below, repair at or above) with
  one failure less each; from the repair's limit on nothing tells counts apart,
  so the count stays there and every failure is still handled.
  `ErrorVerdictIsCurrent` excepts the verdict that could not be computed, and
  `RecoveryVisible` takes it for an end as well as `ok`.
* `api_session`: two calls are enough for every pair of operations, one of
  which may be an orphan of a call that ended; a third call adds no shared
  state but the lock. Calls end, so the system may stop: deadlock is off, and
  `EveryWaitEnds` says instead that nobody waits for ever. Three probes are what
  the third loss of a session needs, at which a sweep stops. The mode list,
  which takes no lock, can replace a sweep's client without a reset, so
  `SweepOnCurrentClient` leaves out behaviours with one. Two modes tell the mode
  a call asks for from another. A confirmation compares values, so
  `OkMeansApplied` excepts a mode that the router had from the start or that
  another call set; any other write that reports success was applied, once, by
  its own command. `PremiseIsCurrent` excepts the reset that falls between a
  worker's check of the generation and its store (`overtaken`): the code does
  not exclude it.
* `endpoint_health`: three endpoints are the critical one, the signal and one
  that an old library lacks; they tell first, middle and last apart, which is
  all the deadline and the re-read's once-a-poll rule need. With a limit of 2 a
  strike that is kept, cleared or frozen at the wrong time shows in the next
  poll; counts past the limit are alike, so the histories stop there too. The
  verdict is the one computed; the `except` branch of `update_health` is in
  `PollCycle`.
* `endpoint_health_settles`: the same with a limit of 1, since liveness on the
  larger instance is out of reach and a strike more only delays the verdict.
  `HealthSettles` says which routers it excludes (`Undecidable`): where
  `device_information` is served without a login the re-read proves nothing,
  and the history of answers is all that is left. There an ended session on
  which nothing had answered yet looks like a router that refuses, and an
  endpoint that answered once and is refused now ends every session.
* `uptime_latch`: a wait is shorter than the hour of samples a drift rate needs,
  or longer, and shorter or longer than the 20 minutes between two writes; four
  of them leave room for an epoch whose rate is learnt, a reset, and another
  epoch. `DRIFT_ACCUMULATOR_CAP`, 30 days in the code, is a constant so that
  the window fills. A router runs for at least ten minutes between two resets
  (`MinUptime`), since the shortfall tests forgive five. `ResetNoticed` excludes
  what no reading can show (`blind`): the counter outran its last reading, the
  record was unreadable and only the 20 % test of an anchor was left, or Home
  Assistant was away 40 times as long as the router runs at least, when the 2 %
  the shortfall test forgives are longer than that. Each of the three happens in
  this instance, and without any of them `ResetNoticed` is violated.
  `MovesMeanReset` excludes the two ways an anchor is known to move within an
  epoch (`Informed`): a counter that loses time before its rate is known, and a
  pausing counter whose record was lost in a crash after its anchor was saved.
* `sms_events`: the window (2) is smaller than the messages (3), so messages
  are hidden by it; slots (2) are fewer too, so they are reused; two dates give
  newer, equal and older arrivals. `Delivers` is the refinement of
  `SmsDelivery` with `mark` mapped to `last_sms_timestamp`. `NothingSkipped`
  names what the code does not promise: messages of before the first list,
  late ones, those hidden from an earlier list, and two that share a slot and a
  second.
* `sms_cleanup`: a listing of three while a fourth message waits for a slot to
  become free. `OnlyListedRemoved` is about the service alone; with somebody
  else deleting from the same inbox it cannot hold, since deletion is by slot.
  A slot that is reused before the service gets to it is thus caught only where
  the service's own deletions freed it.
* `control_latch`: two calls under way together give two writes to one control,
  or one to each, in every order with a poll between the read and its
  publication; the failures make one read-back or fetch fail in each, or one
  call fail twice. The strike limit is 1 instead of 3, so that a fetch forced
  during a pause can also discard the payload. `ControlsSettle` says that both
  controls end at what the router holds once nobody uses them, unless polling
  stays paused; the bounds on calls, failures and late commands are its "once".
* `entry_lifecycle`: three actions of the user are a slider move, a form and a
  disabling or removal, at every point of one another's reload. One host and
  two passwords make a form change something, or nothing, or keep the stored
  password. `NothingOutlives` does not say that the session ends with the
  entry, which the code does not achieve: a poll, a command or a follow-up that
  runs on past the logout (`through`) may log in, or hold the lock until the
  logout gives up, or raise a repair, after it. It says that this is the only
  way: whatever is left was put there by such a straggler (`late`).
* `trackers`: two routers that list the same two clients, with every registry
  that older versions can have left.
* `hardware_check`: every value found at the start (`MCStart`; the guest network
  is found off, since the script only negates what it reads), every answer to
  each prompt, every ending of each await. Two modes are the two the script
  alternates. A late write outlives any number of checks, so one is enough. The
  data session comes back only in the two checks that wait for it, the bound in
  `SessionReturns`: no other looks at it. `CleanReport` is what the rows show
  and no more. It excepts the settings in `blind`: a restoration that returned
  and is not read again (a toggle's, Home Assistant's), radios found mixed, a
  mode that could not be read first, and a stray thread. `PutBack` excepts
  `lost`: a write of that setting that came to no known end in the same check.
  What is left of both is every refused, ignored or interrupted write that a row
  or the restoration itself can still catch.

### Disagreements with the documentation

`control_confirmed_holds` checks a statement of a comment, and TLC finds a
behaviour of the code that contradicts it: `switch.py` 211-212 says of the latch
that "it is what a confirmed write writes into" and that it governs, but the
update of a poll fetched before the write, or served from the cache in a pause,
is latched after it (`switch.py` 197).

Met while modelling and not kept as runs, in `coordinator.py` where no file is
named:

* pausing in an outage and forcing a refresh reaches the branch that is "only
  reachable on a first run" (`tests/test_coordinator_poll_path.py` 118-120 of
  the repository) and discards the held values (777-783);
* a fetch orphaned by its timeout writes into the outcome map of the poll after
  it (`api.py` 629), which "describes one pass" (`api.py` 197-198);
* a reset the counter outran counts as drift, and the wrong anchor fits the rate
  it spoilt (1006), so the check of every poll does not correct it, and the
  anchor moves by more than drift explains;
* with an empty inbox at the start the first new message becomes the baseline
  and is never announced (1667);
* `keep_last` keeps unread messages before newer read ones (`__init__.py` 194);
* a requested poll in flight at an unload or removal raises its repair after
  `clear_repairs` (`__init__.py` 513); it, a command, a service's next deletion
  or a late follow-up that waits for the lock logs in again after the unload's
  logout (`api.py` 488-499, 754), and one that holds the lock past
  `LOCK_TIMEOUT` makes the logout give up, although a comment speaks of "a
  coordinator whose session has just been closed" (`__init__.py` 506-511);
* a reset between a worker's check of the generation and its store leaves a
  premise of before it, although the premise is "written only if the client
  generation is unchanged" (`api.py` 662-665, 410-411);
* a read-back confirms a value, whoever set it: a network mode answered
  with -1 that the router held already, or that an orphan set, counts as
  applied (`helpers.py` 649-651);
* reauth and reconfigure reload twice, by themselves and through the listener
  (`config_flow.py` 183);
* two forms validated at once write back each other's older password where the
  field was left blank;
* a tracker removed as gone is not created again when its client returns, until
  the next reload (`device_tracker.py` 89);
* in `src/scripts/hardware_check.py`: a toggle's restoration is recorded as put
  back without a read (626-638), although a write that returns cleanly "has
  already been proven worthless" (1404-1405); a failing restoration through Home
  Assistant leaves no row (1203-1213); the mobile data and network mode checks
  end with the data session dropped and wait for no populated read (727-730,
  762-765); radios found mixed are all switched alike and stay so (`api.py`
  1595-1596); a radio enabled for the guest check is not put back when the check
  is cut while it settles; a network mode that could not be read is never
  restored; `refused_write` leaves the invalid mode when the router accepts it
  and the next read raises (773-774); one read of the safe tier is outside its
  `try`; and, from reading only, the message deleted is another's when the box
  was unreadable at the start (783);
* and, of polls and calls: a poll still in its probe takes the entities away
  after another poll was served (`coordinator.py` 757, against 718-720); a
  poll served later clears the verdict and leaves the authentication repair
  (829-849, against `README.md` 1911 of the repository); a reload within a
  minute of a latch reads the record from before it (1501-1573); a failure
  that raises while polling is paused on an empty start reports `ok` data
  (`coordinator.py` 777-783); a follow-up request that the debouncer drops
  leaves the force flag set for the next timer poll (664-674); the verdict
  says `refused` of an outage whose last failure was a timeout (500); a read-
  back whose lock wait times out raises although its docstring says it never
  does (`api.py` 1372-1385); an expired write keeps its client, where an
  expired poll drops it (`api.py` 273, 419-434); `get_supported_net_modes`
  calls the library without the lock (`api.py` 1448-1473), although
  `switch.py` 27-29 says that every call is behind it; the write deadline also
  covers the login and the first half of a reconnect, so the command need not
  have "reached the router", as `api.py` 264-265 has it.

## 4. Fairness

`PollCycle`: weak fairness on the steps of a poll (each await is bounded by
`FETCH_TIMEOUT` or the probe's timeout), on the armed timer, the debouncer's
cooldown and a scheduled follow-up, all of which are event loop timers. Nothing
is assumed of the user, and of the router only what the premise of
`RecoveryVisible` says. The interval slider cancels the debouncer's request, so
that premise also says that the slider comes to rest.

`ApiSession`: weak fairness, for each call, on the event loop's own steps taken
together (`LoopStep`): the lock (asyncio wakes a waiter), the settling delay and
the timeouts. Worker threads owe nothing: they may never
answer, which is the very case the timeouts are for.

`EndpointHealth`: weak fairness on `PollStep` as a whole: the timer polls again,
and each request ends, as every one has a transport timeout. Nothing is
assumed of sessions, firmware or time; that the router comes to rest is only
the premise of `HealthSettles`.

`ControlLatch`: weak fairness on a poll's fetch and its end (the interval's
timer) and on a command the router has accepted; strong fairness on each
service call, since the lock is FIFO and a waiting call gets its turn although
polls take it again and again. Each await of a call is bounded, and a fetch that
fails for ever is excluded by `MaxFailures` alone.

`EntryLifecycle`: weak fairness on a reload as a whole, on the listener, on the
slider's task and on validations: each is a task whose awaits are bounded in
time. Polls, prompts and the user owe nothing.

`UptimeLatch`, `Trackers`, `HardwareCheck` and the SMS modules have safety
properties only and no fairness.

## 5. What is proved

For every value of the constants, under the modules' named assumptions
(`LimitsAssumption`: the strike limit is positive and at most the repair's;
`CallsAssumption`: `NoCall` is not a call, the operations are those ten and
there is a probe; `EndpointsAssumption`: at least one endpoint, the signal and
the added ones are optional and differ, and the strike limit is positive;
`LatchAssumption`, `LifecycleAssumption`: the sets are not empty and the bounds
natural, no password is empty and no interval zero; `TrackersAssumption`: the
bare scope is no entry; `HardwareAssumption`: both modes the script writes are
known, and no mode has the name of an unread value or of mixed radios;
`InboxAssumption`, `PollAssumption`, `CleanupAssumption`: finitely many
messages, positive dates, a device's inbox, positive listings;
`WaitsAssumption`, `WholeAssumption`, `MarginAssumption`: waits of any length
and any number of them, losses of less than the 20 % a rate is clamped to, whole
counts, and a router that runs for at least six and a half minutes, so that a
reading of its last epoch is above the floor of the margin):

* `PollCycleProofs`: `TypeCorrect`, `ConnRepairSafe`, `ConnRepairVerdict`,
  `ProbeSafe`, `VerdictSafe`, `ForceFlagBuys`. The inductive invariant `IInv` is
  the type invariant with `OutageInv`, which relates the failure count to
  everything an outage sets: a probing poll, a probe latch, an error verdict and
  a repair each need a count at least as high as their threshold, or a history
  that explains it. None of the listed properties is inductive alone: that no
  poll raises the repair after a recovery needs to know that the repair is
  raised before the probe is awaited.
* `ApiSessionProofs`: `TypeCorrect`, `LockSafe`, `CommandOnce`, `SuccessIsReal`,
  `WedgedClientGone`, `PremiseCurrent`, `SweepSafe`. `IInv` says of each call
  what its place in its method implies (`CallSound`: which step, which retry,
  how often applied), of the session that every number in use is at most the
  generation (`SessionSound`), and of the lock that its holder is exactly the
  call at work under it (`LockSound`). One lemma, `SoundStep`, shows that a step
  which moves one call soundly and moves lock and session in one of a few ways
  preserves `IInv`; each action then has a lemma of its own that only says which
  of those ways it takes. `SweepSafe` is an action property and rests on
  `WorkerSound`: a generation that has not moved means that the client has not
  moved either, since only a call that holds the lock adopts another.
  `SuccessIsReal` rests on `ModeSound`, that every mode the router can show is
  the first one or one that a command set, and `PremiseCurrent` on `CheckSound`,
  that a worker about to store the premise measured it in this generation or was
  overtaken.
* `EndpointHealthProofs`: `TypeCorrect`, `NoFalseAlarm`, `NoSilentLoss`,
  `RereadFindsEnd`. The verdict is sound because the strikes lie between two
  histories (`Bracket`): an endpoint that had answered and was missing took a
  strike in each such poll, and every strike in the count is a miss since the
  last answer. Freezing the strikes of what is not served keeps both bounds,
  since such an endpoint is missing and has never answered. `SnapshotExact`
  carries the comparison with the limit to the published verdict, and
  `PremiseSound` says that a re-read is only made where a login is needed.

* `ControlLatchProofs`: `TypeCorrect`, `EvidenceSafe`. What is shown can differ
  from the last evidence only through a payload that an unfinished fetch or the
  cache still holds, so the invariant says what each of the two holds relative
  to the evidence.
* `EntryProofs`: `TypeCorrect`, `IntervalSafe`, `QuietUnload`. A move
  that is not stored yet has a pending value, a task or entities that will
  flush it (`SliderInv`). From the logout on, a session or a repair is one put
  back since, what is in flight, armed or stray is what ran on past it, and
  where nothing did nothing was put back (`QuietInv`).
  `TrackersTypeCorrect`, `OneTrackerEach`: a client that is tracked has its
  row, is on its way to one, or was swept; rows with an id of now belong to the
  entry of their scope, so a migration never meets a taken id.
* `HardwareCheckProofs`: `TypeCorrect`, `PutBackSafe`, `CleanReportSafe`.
  `PlaceInv` says which check can be at which await, `PutInv` that a restored
  setting stays so until its check ends, and `CleanInv` that, while no row fails
  and nothing is raised, of the settings outside `blind` only the one under test
  (whose value is in `before`) and a radio enabled for the guest check differ
  from what was found, and the session is up once a reconnect or a reboot got
  through its wait.
* `SmsProofs`: `EventsTypeCorrect`, `NothingSkippedHolds`, `EventsDeliver`, and
  `OnlyListedRemovedSafe`, `NewestReadKeptSafe`. `EventsDeliver` is the
  refinement: every step of a poll announces one batch that `SmsDelivery` allows
  or stutters. A batch is new and in order because the stamp is the newest date
  checked and the hashes are exactly those of the known messages of that second
  (`StampIsNewest`, `HashesAreOfStamp`). Nothing is skipped because lists have
  no gaps (`NoGap`, of what was checked and of the list a poll holds): an older
  message than one listed was listed too, or came late, or was hidden by the
  window. Of the service, a slot holds one message (`OneInSlot`), and while
  nobody else deletes, what is still to be deleted is there and named once
  (`StillThere`): the slot about to be emptied has not changed hands.
  `ListingIs` and `SkippedIs` say what a listing and `keep_last` return; the
  newest are kept because the first `keep_last` of a read inbox's list are an
  injection into the messages that are not older.
* `UptimeProofs`: `LatchTypeCorrect`, `ResetNoticedHolds`, `AnchorTrueHolds`,
  `MovesMeanResetHolds`. A poll is five functions one after the other, so a
  lemma says of each what it leaves (`SampledIs`, `ReconciledIs`, `CheckedIs`,
  `ReadPersistedIs`) and `PollIs` joins them. The arithmetic is in three more:
  the sums of the drift window have the counter's exact rate, also when they are
  scaled to the cap (`CappedIs`); so the pace is the true one or still unknown
  (`PaceIs`) and the anchor derived with it is the start, or later by what the
  counter lost (`DerivedIs`); and a record of an earlier epoch falls short by
  more than both margins (`ShortfallShows`). The invariant `LatchInv` says what
  each of the three copies of a record and of the two copies of an anchor can
  be, and how they relate across a crash: no record is of a later epoch than the
  anchor saved with it (`AnchorCovers`), and an anchor saved earlier is of an
  earlier epoch only if it is an earlier instant (`SavedBefore`), so comparing
  instants, as the code does before it saves, is enough.

Only model-checked: the liveness properties (`UserActionServed`,
`RecoveryVisible`, `WedgedWorkerFreesLock`, `EveryWaitEnds`,
`EndedSessionReplaced`, `HealthSettles`, `ControlsSettle`, `ChangesTakeEffect`),
since TLAPS has no rule for fairness here. Every safety invariant, action
property and refinement that a passing run checks is also a theorem.

## 6. What is not modelled, and the plan

Next, in this order:

1. `FetchBudget`: the deadline arithmetic of a fetch (`const.py` 56 says that
   `FETCH_TIMEOUT` "should now never fire", although the login and the retry
   share it). `EndpointHealth` has the deadline as three phases and no numbers.
2. `LibraryGuard`: the install that outlives the guard's timeout, and the repair
   flows around it.
3. The pure parsers of `helpers.py` against reference definitions.

Not planned: entity descriptions, sensors and binary sensors, and the
diagnostics download's sanitizer (stateless functions of one payload, best
covered by unit tests; the sweep that feeds the download is in `ApiSession`);
the schemas and error texts of the forms; the safe tier of `hardware_check.py`,
its SMS check beyond its rows, and the offline `diag_check.py` and
`write_classification.py`; the client library itself.
