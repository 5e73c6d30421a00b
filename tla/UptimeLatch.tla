---------------------------- MODULE UptimeLatch ----------------------------
(***************************************************************************)
(* One uptime latch of coordinator.py: the router reports a counter, and   *)
(* Home Assistant shows the instant it started (the anchor).  The anchor   *)
(* is latched once and held until the counter shows that it was reset,     *)
(* also while polling was paused or Home Assistant was not running.        *)
(*                                                                         *)
(* The three latches share nothing, so the model has one; it is a clock    *)
(* (uptime, CurrentConnectTime) or one that pauses (TotalConnectTime).     *)
(* The unit of time is 30 s, in which the source's limits are whole.  The  *)
(* host's clock is taken to be right: a poll with an unset clock, or with  *)
(* a reading that cannot be used, changes nothing and is left out.         *)
(***************************************************************************)
EXTENDS Integers

CONSTANTS
  Waits,                 \* how long nothing may happen
  MaxWaits,              \* bound: how often
  Losses,                \* what the counter may lose, in percent
  MinUptime,             \* the router does not reset again before that
  DRIFT_ACCUMULATOR_CAP,
  None                   \* no instant, no reading

UPTIME_REBOOT_MARGIN  == 1
DRIFT_MIN_INTERVAL    == 2
DRIFT_MIN_ACCUMULATED == 120
SHORTFALL_MARGIN_FLOOR == 10
UPTIME_WRITE_INTERVAL == 40

ASSUME WaitsAssumption ==
  /\ Waits \subseteq Nat \ {0} /\ MaxWaits \in Nat
  /\ Losses \subseteq 0..19 /\ None \notin Int
  /\ DRIFT_ACCUMULATOR_CAP \in Nat /\ DRIFT_ACCUMULATOR_CAP > DRIFT_MIN_ACCUMULATED

(* What is counted is whole, so that nothing is rounded.                   *)
ASSUME WholeAssumption ==
  \A w \in Waits \cup {DRIFT_ACCUMULATOR_CAP}, l \in Losses : (w * (100 - l)) % 100 = 0

(* A counter that had run for less than the floor resets unnoticed         *)
(* (`_shortfall_test`): 13 units at 81 % are more.                         *)
ASSUME MarginAssumption == MinUptime \in Nat /\ MinUptime >= 13

VARIABLES
  now, waits,            \* the wall clock, and the waits so far
  counter,               \* what the router would report
  epoch, start,          \* history: its resets so far, and the last one's instant
  loss, pauses,          \* what kind of counter it is
  home,                  \* Home Assistant is "running" or "stopped"
  latch,                 \* the _UptimeLatch
  saving,                \* the record async_delay_save holds
  disk,                  \* the anchor in entry.data and the record, as saved
  blind                  \* history: a reset happened that no reading showed

router == <<now, waits, counter, epoch, start, loss, pauses>>
vars   == <<router, home, latch, saving, disk, blind>>

Install == 1000          \* the clock at the start: only differences matter
Reading == Nat \cup {None}
Instant == Int \cup {None}   \* an anchor may lie before any instant

(* boot_of and last_of are history: the epoch of the anchor and reading.   *)
Record == [stored_counter : Reading, written_at : Reading,
           sum_wall : 0..DRIFT_ACCUMULATOR_CAP, sum_counter : Nat, stored_of : Nat]
Nothing == [stored_counter |-> None, written_at |-> None,
            sum_wall |-> 0, sum_counter |-> 0, stored_of |-> 0]

Latch == [boot_time : Instant, boot_of : Nat,
          last_counter : Reading, last_poll_at : Reading, last_of : Nat,
          reconciled : BOOLEAN, last_write : Reading, record : Record]

(* Set up from the anchor in entry.data and what the store holds.          *)
Setup(boot, of, record) ==
  [boot_time |-> boot, boot_of |-> of,
   last_counter |-> None, last_poll_at |-> None, last_of |-> 0,
   reconciled |-> FALSE, last_write |-> None, record |-> record]

TypeOK ==
  /\ now \in Nat /\ waits \in 0..MaxWaits
  /\ counter \in Nat /\ epoch \in Nat /\ start \in 0..now
  /\ loss \in Losses /\ pauses \in BOOLEAN
  /\ home \in {"running", "stopped"}
  /\ latch \in Latch
  /\ saving \in Record
  /\ disk \in [boot_time : Instant, boot_of : Nat, record : Record]
  /\ blind \in BOOLEAN

Init ==
  /\ now = Install /\ waits = 0 /\ counter = 0 /\ epoch = 1 /\ start = now
  /\ loss \in Losses /\ pauses \in {p \in BOOLEAN : p => loss = 0}
  /\ home = "running"
  /\ latch = Setup(None, 0, Nothing)
  /\ saving = Nothing
  /\ disk = [boot_time |-> None, boot_of |-> 0, record |-> Nothing]
  /\ blind = FALSE

-----------------------------------------------------------------------------
(* The router, and the clock.  Saves are due within 60 s, before anything  *)
(* else takes time.                                                        *)

Saved == saving = Nothing /\ (home = "running" => disk.boot_time = latch.boot_time)

(* A counter that pauses may stop as long as the session is down.          *)
Wait ==
  /\ Saved /\ waits < MaxWaits /\ waits' = waits + 1
  /\ \E w \in Waits :
       /\ now' = now + w
       /\ \/ counter' = counter + (w * (100 - loss)) \div 100
          \/ pauses /\ counter' = counter
  /\ UNCHANGED <<epoch, start, loss, pauses, home, latch, saving, disk, blind>>

RouterResets ==
  /\ counter > 0 /\ now - start >= MinUptime
  /\ counter' = 0 /\ epoch' = epoch + 1 /\ start' = now
  /\ UNCHANGED <<now, waits, loss, pauses, home, latch, saving, disk, blind>>

-----------------------------------------------------------------------------
(* What is known of the counter's rate, as the part of the time it counts. *)

(* The sums, of the wall clock and of the counter, are scaled to the cap.  *)
Uncapped(w, c) == [wall |-> w, counter |-> c]   \* mutant: they grow for ever
Capped(w, c) ==
  IF w > DRIFT_ACCUMULATOR_CAP
  THEN [wall |-> DRIFT_ACCUMULATOR_CAP, counter |-> (c * DRIFT_ACCUMULATOR_CAP) \div w]
  ELSE [wall |-> w, counter |-> c]

(* `_record_drift_sample`                                                  *)
Sampled(l) ==
  LET wall    == now - l.last_poll_at
      advance == counter - l.last_counter
      sums == Capped(l.record.sum_wall + wall, l.record.sum_counter + advance)
  IN  IF pauses \/ l.last_counter = None \/ wall < DRIFT_MIN_INTERVAL \/ advance <= 0
      THEN l
      ELSE [l EXCEPT !.record.sum_wall = sums.wall, !.record.sum_counter = sums.counter]

RateKnown(l) == ~pauses /\ l.record.sum_wall >= DRIFT_MIN_ACCUMULATED

(* 1 - `_drift_rate`, clamped to MAX_DRIFT (20 %) on both sides.           *)
Pace(l) ==
  LET w == l.record.sum_wall
      c == l.record.sum_counter
  IN  CASE ~RateKnown(l)                -> <<1, 1>>
        [] RateKnown(l) /\ 5 * c < 4 * w -> <<4, 5>>
        [] RateKnown(l) /\ 5 * c > 6 * w -> <<6, 5>>
        [] OTHER                        -> <<c, w>>

DerivedUncorrected(l) == now - counter   \* mutant: the drift is ignored
DerivedFaster(l) ==                      \* mutant: corrected the wrong way
  now - (counter * Pace(l)[1] + Pace(l)[2] - 1) \div Pace(l)[2]

(* `_derived_boot`: the counter corrected for the drift, in whole units.   *)
DerivedBoot(l) == now - (counter * Pace(l)[2] + Pace(l)[1] - 1) \div Pace(l)[1]

(* `_write_counter`                                                        *)
Written(l) ==
  [l EXCEPT !.record.stored_counter = counter, !.record.written_at = now,
            !.record.stored_of = epoch, !.last_write = now]

(* `_latch_boot_time`                                                      *)
Latched(l) ==
  Written([l EXCEPT !.boot_time = DerivedBoot(l), !.boot_of = epoch])

-----------------------------------------------------------------------------
(* The three tests for a reset.                                            *)

RuntimeReset(l) == counter < l.last_counter - UPTIME_REBOOT_MARGIN

(* `_cold_start_implausible`: off by more than 20 %.                       *)
ColdStartReset(l) ==
  LET elapsed == now - l.boot_time
  IN  \/ l.boot_time = None
      \/ elapsed <= 0
      \/ 5 * counter > 6 * elapsed
      \/ ~pauses /\ 5 * counter < 4 * elapsed

FloorReset(l) == counter < l.record.stored_counter

ShortfallFloor(l) == FloorReset(l)     \* mutant: a clock need not advance
(* The margin is 2 % of the gap and at least the floor.                    *)
ShortfallReset(l) ==
  LET elapsed == now - l.record.written_at
      n == Pace(l)[1]
      d == Pace(l)[2]
      short == (l.record.stored_counter - counter) * d + elapsed * n
  IN  /\ short > SHORTFALL_MARGIN_FLOOR * d
      /\ 50 * short > elapsed * d

(* `_reconcile_startup_uptime`                                             *)
StartupReset(l) ==
  CASE l.record.stored_counter = None             -> ColdStartReset(l)
    [] l.record.stored_counter # None /\ pauses  -> FloorReset(l)
    [] l.record.stored_counter # None /\ ~pauses -> ShortfallReset(l)

Reconciled(l) ==
  IF l.reconciled
  THEN IF RuntimeReset(l) THEN Latched(l) ELSE l
  ELSE [(IF StartupReset(l) THEN Latched(l) ELSE l) EXCEPT !.reconciled = TRUE]

(* `_check_anchor_plausible`: off by more than 5 % of the known pace, and  *)
(* the instant it would move to is later.                                  *)
Implausible(l) ==
  LET elapsed == now - l.boot_time
      off == counter * Pace(l)[2] - elapsed * Pace(l)[1]
  IN  /\ RateKnown(l) /\ l.boot_time # None /\ elapsed > 0
      /\ 20 * (IF off < 0 THEN -off ELSE off) > elapsed * Pace(l)[2]

Checked(l) ==
  IF Implausible(l) /\ DerivedBoot(l) > l.boot_time THEN Latched(l) ELSE l

Read(l) == [l EXCEPT !.last_counter = counter, !.last_poll_at = now, !.last_of = epoch]

(* `_maybe_persist_counter`                                                *)
Persisted(l) ==
  IF l.last_write # None /\ now - l.last_write < UPTIME_WRITE_INTERVAL
  THEN l ELSE Written(l)

-----------------------------------------------------------------------------
(* A served poll: `_apply_uptime`.  Another latch's write saves this one's *)
(* record with its own.                                                    *)

(* 2 % of the time since the record was written forgive a counter that had *)
(* run for less; 81 % of 1/40 are more.                                    *)
LongAway == now - latch.record.written_at >= 40 * MinUptime

Unseen ==
  IF latch.reconciled
  THEN latch.last_of # epoch /\ ~RuntimeReset(latch)
  ELSE /\ latch.record.stored_of \notin {0, epoch}
       /\ IF pauses THEN ~FloorReset(latch) ELSE LongAway

SameStored(r, q) ==
  /\ r.stored_counter = q.stored_counter /\ r.stored_of = q.stored_of
  /\ r.written_at = q.written_at

Poll ==
  /\ home = "running"
  /\ latch' = Persisted(Read(Checked(Reconciled(Sampled(latch)))))
  /\ \/ saving' = latch'.record
     \/ SameStored(latch'.record, latch.record) /\ UNCHANGED saving
  /\ blind' = (blind \/ Unseen)
  /\ UNCHANGED <<router, home, disk>>

-----------------------------------------------------------------------------
(* Home Assistant saves the entry after a second, the store after a minute *)
(* and both when it stops; a crash loses what is not saved.                *)

SaveEntry ==
  /\ home = "running" /\ disk.boot_time # latch.boot_time
  /\ disk' = [disk EXCEPT !.boot_time = latch.boot_time, !.boot_of = latch.boot_of]
  /\ UNCHANGED <<router, home, latch, saving, blind>>

SaveStore ==
  /\ home = "running" /\ saving # Nothing /\ disk.boot_time = latch.boot_time
  /\ disk' = [disk EXCEPT !.record = saving]
  /\ saving' = Nothing
  /\ UNCHANGED <<router, home, latch, blind>>

Stop ==
  /\ home = "running" /\ home' = "stopped"
  /\ disk' = [boot_time |-> latch.boot_time, boot_of |-> latch.boot_of,
              record |-> IF saving # Nothing THEN saving ELSE disk.record]
  /\ saving' = Nothing /\ latch' = Setup(None, 0, Nothing)
  /\ UNCHANGED <<router, blind>>

Crash ==
  /\ home = "running" /\ home' = "stopped"
  /\ saving' = Nothing /\ latch' = Setup(None, 0, Nothing)
  /\ UNCHANGED <<router, disk, blind>>

(* `async_load_stored_uptime`: an unreadable store holds nothing, and what *)
(* is still being saved is not read.  Without a record only the anchor can *)
(* tell, within 20 %.                                                      *)
Loads(boot, of) ==
  \E record \in {disk.record, Nothing} :
    /\ latch' = Setup(boot, of, record)
    /\ blind' = (blind \/ (record = Nothing /\ boot # None))

Start ==
  /\ home = "stopped" /\ home' = "running"
  /\ Loads(disk.boot_time, disk.boot_of)
  /\ UNCHANGED <<router, saving, disk>>

(* The entry is set up again; a save that is pending goes on.              *)
Reload ==
  /\ home = "running"
  /\ Loads(latch.boot_time, latch.boot_of)
  /\ UNCHANGED <<router, home, saving, disk>>

Next ==
  \/ Wait \/ RouterResets \/ Poll
  \/ SaveEntry \/ SaveStore \/ Stop \/ Crash \/ Start \/ Reload

Spec == Init /\ [][Next]_vars

-----------------------------------------------------------------------------
(* Properties.                                                             *)

(* No hidden reboot: the anchor is of the epoch the last reading was of,   *)
(* whatever was lost in a crash, unless that reading could not show it.    *)
ResetNoticed == latch.reconciled /\ ~blind => latch.boot_of = latch.last_of

(* No invented reboot: within an epoch the anchor moves no later.  Two     *)
(* things may move it: a counter that loses time before its rate is known, *)
(* and one that pauses whose record was lost in a crash after its anchor   *)
(* was saved.                                                              *)
Informed ==
  IF pauses THEN latch.record.stored_of \in {0, epoch} ELSE loss = 0 \/ RateKnown(latch)

MovesMeanReset ==
  [][~blind /\ latch.boot_of = epoch /\ latch'.boot_of = epoch /\ Informed
       => latch'.boot_time - latch.boot_time <= 1]_vars

(* The anchor is the instant the counter started, up to what the counter   *)
(* had lost when it was latched.                                           *)
AnchorTrue ==
  ~pauses /\ ~blind /\ latch.boot_of = epoch =>
    100 * (latch.boot_time - start) \in -100..(loss * (now - start) + 100)
=============================================================================
