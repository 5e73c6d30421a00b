---------------------------- MODULE UptimeProofs ----------------------------
(***************************************************************************)
(* Proofs about UptimeLatch, for any waits, losses and numbers of them     *)
(* that its assumptions allow.                                             *)
(***************************************************************************)
EXTENDS UptimeLatch, TLAPS

(* The counter is the part of the time since its reset that it counts, or, *)
(* of one that pauses, no more than that time.                             *)
CounterTrue ==
  /\ start \in Install..now /\ epoch >= 1
  /\ IF pauses THEN loss = 0 /\ counter <= now - start
               ELSE 100 * counter = (100 - loss) * (now - start)

(* A record that was written: the reading it stores is of this epoch, or   *)
(* of one that lasted, and the sums have the counter's true rate.          *)
StoredTrue(r) ==
  /\ r.stored_counter \in Nat /\ r.written_at \in Install..now /\ r.stored_of \in 1..epoch
  /\ IF r.stored_of = epoch
     THEN /\ start <= r.written_at /\ r.stored_counter <= counter
          /\ ~pauses => 100 * r.stored_counter = (100 - loss) * (r.written_at - start)
     ELSE /\ r.written_at <= start
          /\ ~pauses => 100 * r.stored_counter + (100 - loss) * (start - r.written_at)
                          >= (100 - loss) * MinUptime

RateTrue(r) == ~pauses /\ ~blind => 100 * r.sum_counter = (100 - loss) * r.sum_wall

RecordTrue(r) == RateTrue(r) /\ (r = Nothing \/ StoredTrue(r))

(* The last reading: none before the first, else of this epoch or before.  *)
ReadingTrue ==
  IF latch.reconciled
  THEN /\ latch.last_of \in 1..epoch /\ latch.record # Nothing
       /\ latch.last_counter \in Nat /\ latch.last_poll_at \in Nat
       /\ latch.last_of = epoch =>
            /\ latch.last_poll_at <= now /\ latch.last_counter <= counter
            /\ ~pauses => 100 * latch.last_counter = (100 - loss) * (latch.last_poll_at - start)
  ELSE /\ latch.last_counter = None /\ latch.last_poll_at = None /\ latch.last_of = 0
       /\ latch.last_write = None

(* An anchor of this epoch is not before its start, nor so late that the   *)
(* counter would have had to run fast; one of an older epoch is before it. *)
Anchored(boot, of) ==
  /\ of \in 0..epoch /\ (of = 0 <=> boot = None)
  /\ ~blind => /\ of = epoch => start <= boot /\ boot + counter <= now
               /\ of \in 1..(epoch - 1) => boot < start

(* The anchor saved is of an earlier epoch only if it is an earlier one.   *)
SavedBefore ==
  /\ disk.boot_of <= latch.boot_of
  /\ ~blind /\ disk.boot_of \in 1..(latch.boot_of - 1) => disk.boot_time < latch.boot_time

(* No record is of a later epoch than the anchor it goes with.             *)
AnchorCovers ==
  ~blind => /\ disk.record.stored_of <= disk.boot_of
            /\ latch.record.stored_of <= latch.boot_of
            /\ saving.stored_of <= latch.boot_of

(* Without a record there is no anchor either, or the router may have been *)
(* reset unseen.                                                           *)
RecordMissing ==
  ~blind /\ ~latch.reconciled /\ latch.record = Nothing => latch.boot_of = 0

Stopped == saving = Nothing /\ latch = Setup(None, 0, Nothing)

LatchInv ==
  /\ TypeOK /\ CounterTrue
  /\ RecordTrue(latch.record) /\ RecordTrue(saving) /\ RecordTrue(disk.record)
  /\ ReadingTrue
  /\ Anchored(latch.boot_time, latch.boot_of) /\ Anchored(disk.boot_time, disk.boot_of)
  /\ home = "running" => SavedBefore /\ AnchorCovers /\ RecordMissing
  /\ home = "stopped" => Stopped /\ (~blind => disk.record.stored_of <= disk.boot_of)
  /\ ResetNoticed

-----------------------------------------------------------------------------
(* Arithmetic.                                                             *)

LEMMA DivExact ==
  ASSUME NEW k \in Int, NEW w \in Nat, w > 0
  PROVE  (k * w) \div w = k
OBVIOUS

LEMMA DivUp ==
  ASSUME NEW k \in Int, NEW c \in Nat, c > 0
  PROVE  (k * c + c - 1) \div c = k
OBVIOUS

LEMMA DivType ==
  ASSUME NEW a \in Int, NEW c \in Nat, c > 0
  PROVE  a \div c \in Int /\ (a >= 0 => a \div c >= 0)
OBVIOUS

LEMMA DivHundred ==
  ASSUME NEW a \in Int, a % 100 = 0
  PROVE  100 * (a \div 100) = a
OBVIOUS

LEMMA FactorDifference ==
  ASSUME NEW k \in Int, NEW a \in Int, NEW b \in Int, NEW s \in Int
  PROVE  k * (a - b) = k * (a - s) - k * (b - s)
OBVIOUS

LEMMA FactorOrder ==
  ASSUME NEW a \in Int, NEW b \in Int, NEW k \in Nat, a <= b
  PROVE  k * a <= k * b
OBVIOUS

-----------------------------------------------------------------------------
(* The counter, and what follows from it.                                  *)

LEMMA CounterBelow ==
  ASSUME TypeOK, CounterTrue
  PROVE  counter <= now - start
<1>1. counter \in Nat /\ now - start \in Nat /\ loss \in 0..19
  BY WaitsAssumption DEF TypeOK, CounterTrue, Install
<1>2. (100 - loss) * (now - start) <= 100 * (now - start)
  BY <1>1
<1>3. QED
  BY <1>1, <1>2 DEF CounterTrue

(* The two sums of a record, as they come from the type.                   *)
LEMMA SumsType ==
  ASSUME NEW r \in Record
  PROVE  r.sum_wall \in Nat /\ r.sum_wall <= DRIFT_ACCUMULATOR_CAP /\ r.sum_counter \in Nat
BY WaitsAssumption DEF Record

(* The pace is the counter's true one, or one until it is known.           *)
LEMMA PaceIs ==
  ASSUME TypeOK, NEW l, l.record \in Record
  PROVE  /\ Pace(l)[1] \in Nat \ {0} /\ Pace(l)[2] \in Nat \ {0}
         /\ ~RateKnown(l) => Pace(l) = <<1, 1>>
         /\ RateKnown(l) /\ RateTrue(l.record) /\ ~blind
              => 100 * Pace(l)[1] = (100 - loss) * Pace(l)[2]
<1> DEFINE w == l.record.sum_wall
           c == l.record.sum_counter
<1>1. w \in Nat /\ c \in Nat /\ loss \in 0..19
  BY SumsType, WaitsAssumption DEF TypeOK
<1>2. CASE ~RateKnown(l)
  BY <1>2 DEF Pace
<1>3. CASE RateKnown(l)
  <2>1. ~pauses /\ w >= 120
    BY <1>3 DEF RateKnown, DRIFT_MIN_ACCUMULATED
  <2>2. CASE 5 * c < 4 * w
    <3>1. Pace(l) = <<4, 5>>
      BY <1>1, <1>3, <2>2 DEF Pace
    <3>2. ~(RateTrue(l.record) /\ ~blind)
      BY <1>1, <2>1, <2>2 DEF RateTrue
    <3>3. QED
      BY <1>3, <3>1, <3>2
  <2>3. CASE 5 * c > 6 * w
    <3>1. Pace(l) = <<6, 5>>
      BY <1>1, <1>3, <2>3 DEF Pace
    <3>2. ~(RateTrue(l.record) /\ ~blind)
      BY <1>1, <2>1, <2>3 DEF RateTrue
    <3>3. QED
      BY <1>3, <3>1, <3>2
  <2>4. CASE ~(5 * c < 4 * w) /\ ~(5 * c > 6 * w)
    <3>1. Pace(l) = <<c, w>> /\ c > 0
      BY <1>1, <1>3, <2>1, <2>4 DEF Pace
    <3>2. RateTrue(l.record) /\ ~blind => 100 * c = (100 - loss) * w
      BY <2>1 DEF RateTrue
    <3>3. QED
      BY <1>1, <1>3, <2>1, <3>1, <3>2
  <2>5. QED
    BY <2>2, <2>3, <2>4
<1>4. QED
  BY <1>2, <1>3

(* The instant derived from a reading is the start, or later by what the   *)
(* counter lost or paused.                                                 *)
LEMMA DerivedIs ==
  ASSUME TypeOK, CounterTrue, NEW l, l.record \in Record
  PROVE  /\ DerivedBoot(l) \in Int
         /\ ~blind /\ RateTrue(l.record) =>
              /\ start <= DerivedBoot(l) /\ DerivedBoot(l) + counter <= now
              /\ ~pauses /\ (loss = 0 \/ RateKnown(l)) => DerivedBoot(l) = start
<1> DEFINE n == Pace(l)[1]
           d == Pace(l)[2]
<1>1. now \in Nat /\ start \in Nat /\ counter \in Nat /\ loss \in 0..19
        /\ start <= now /\ counter <= now - start
  BY CounterBelow, WaitsAssumption DEF TypeOK
<1>2. n \in Nat /\ n > 0 /\ d \in Nat /\ d > 0
  BY PaceIs
<1>3. counter * d \in Int
  BY <1>1, <1>2
<1>4. DerivedBoot(l) \in Int
  <2> HIDE DEF n, d
  <2>1. counter * d + n - 1 \in Int
    BY <1>2, <1>3
  <2>2. (counter * d + n - 1) \div n \in Int
    BY <1>2, <2>1, DivType
  <2>3. QED
    BY <1>1, <2>2 DEF DerivedBoot, n, d
<1>5. CASE ~RateKnown(l)
  <2>1. DerivedBoot(l) = now - counter
    BY <1>1, <1>5, PaceIs DEF DerivedBoot
  <2>2. ~pauses /\ loss = 0 => counter = now - start
    BY <1>1 DEF CounterTrue
  <2>3. QED
    BY <1>1, <1>4, <1>5, <2>1, <2>2
<1>6. CASE RateKnown(l)
  <2> SUFFICES ASSUME ~blind, RateTrue(l.record)
               PROVE  DerivedBoot(l) = start
    BY <1>1, <1>4
  <2>1. 100 * n = (100 - loss) * d
    BY <1>6, PaceIs
  <2>2. 100 * counter = (100 - loss) * (now - start)
    BY <1>6 DEF CounterTrue, RateKnown
  <2> HIDE DEF n, d
  <2>3. counter * d = (now - start) * n
    <3>1. 100 * (counter * d) = ((100 - loss) * (now - start)) * d
      BY <1>1, <1>2, <2>2
    <3>2. 100 * ((now - start) * n) = (now - start) * ((100 - loss) * d)
      BY <1>1, <1>2, <2>1
    <3>3. ((100 - loss) * (now - start)) * d = (now - start) * ((100 - loss) * d)
      BY <1>1, <1>2
    <3>4. (now - start) * n \in Int
      BY <1>1, <1>2
    <3>5. QED
      BY <1>3, <3>1, <3>2, <3>3, <3>4
  <2>4. (counter * d + n - 1) \div n = now - start
    <3>1. now - start \in Int
      BY <1>1
    <3>2. QED
      BY <1>2, <2>3, <3>1, DivUp
  <2>5. QED
    BY <1>1, <2>4 DEF DerivedBoot, n, d
<1>7. QED
  BY <1>5, <1>6

(* A reading of an earlier epoch falls short of what its gap asks for: a   *)
(* reset while nobody was looking is told from drift.                      *)
LEMMA ShortfallShows ==
  ASSUME TypeOK, CounterTrue, ~pauses, ~blind, NEW l, l.record \in Record,
         RateTrue(l.record), StoredTrue(l.record), l.record.stored_of # epoch,
         now - l.record.written_at < 40 * MinUptime
  PROVE  ShortfallReset(l)
<1> DEFINE n == Pace(l)[1]
           d == Pace(l)[2]
           S == l.record.stored_counter
           W == l.record.written_at
           T == now - W
           short == (S - counter) * d + T * n
<1>1. /\ now \in Nat /\ start \in Nat /\ counter \in Nat /\ loss \in 0..19
      /\ S \in Nat /\ W \in Nat /\ W <= start /\ start <= now /\ T \in Nat
      /\ 100 * counter = (100 - loss) * (now - start)
      /\ 100 * S + (100 - loss) * (start - W) >= (100 - loss) * MinUptime
      /\ MinUptime \in Nat /\ MinUptime >= 13
  BY WaitsAssumption, MarginAssumption DEF TypeOK, CounterTrue, StoredTrue, Install
<1>2. T < 40 * MinUptime
  BY <1>1 DEF T, W
<1>3. /\ n \in Nat /\ n > 0 /\ d \in Nat /\ d > 0
      /\ RateKnown(l) => 100 * n = (100 - loss) * d
      /\ ~RateKnown(l) => n = 1 /\ d = 1
  BY PaceIs
<1> HIDE DEF n, d, S, W, T
<1>4. 100 * (S - counter) + (100 - loss) * T >= (100 - loss) * MinUptime
  <2>1. (100 - loss) * T = (100 - loss) * (now - start) + (100 - loss) * (start - W)
    BY <1>1 DEF T
  <2>2. (100 - loss) * MinUptime \in Int /\ (100 - loss) * (start - W) \in Int
    BY <1>1
  <2>3. QED
    BY <1>1, <2>1, <2>2
<1>5. (100 - loss) * MinUptime >= 81 * MinUptime
  BY <1>1
<1>6. 100 * (S - counter) + (100 - loss) * T >= 81 * MinUptime
  <2>1. (100 - loss) * T \in Int /\ (100 - loss) * MinUptime \in Int
    BY <1>1
  <2>2. QED
    BY <1>1, <1>4, <1>5, <2>1
<1>7. 100 * short >= d * (81 * MinUptime) /\ short \in Int
  <2>1. short \in Int
    BY <1>1, <1>3
  <2>2. CASE RateKnown(l)
    <3>1. 100 * short = d * (100 * (S - counter)) + T * (100 * n)
      BY <1>1, <1>3
    <3>2. T * (100 * n) = d * ((100 - loss) * T)
      BY <1>1, <1>3, <2>2
    <3>3. d * (100 * (S - counter)) + d * ((100 - loss) * T)
            = d * (100 * (S - counter) + (100 - loss) * T)
      BY <1>1, <1>3
    <3>4. d * (81 * MinUptime) <= d * (100 * (S - counter) + (100 - loss) * T)
      <4>1. 100 * (S - counter) + (100 - loss) * T \in Int /\ 81 * MinUptime \in Int
        BY <1>1
      <4> DEFINE a == 81 * MinUptime
                 b == 100 * (S - counter) + (100 - loss) * T
      <4>2. a \in Int /\ b \in Int /\ a <= b
        BY <1>6, <4>1
      <4> HIDE DEF a, b
      <4>3. d * a <= d * b
        BY <1>3, <4>2, FactorOrder
      <4>4. QED
        BY <4>3 DEF a, b
    <3>5. QED
      BY <2>1, <3>1, <3>2, <3>3, <3>4
  <2>3. CASE ~RateKnown(l)
    <3>1. short = S - counter + T /\ d = 1
      BY <1>1, <1>3, <2>3
    <3>2. (100 - loss) * T <= 100 * T /\ (100 - loss) * T \in Int
      BY <1>1
    <3>3. QED
      BY <1>1, <1>6, <3>1, <3>2
  <2>4. QED
    BY <2>1, <2>2, <2>3
<1> HIDE DEF short
<1>8. short > 10 * d
  <2>1. d * (81 * MinUptime) >= d * 1053
    BY <1>1, <1>3
  <2>2. d * (81 * MinUptime) \in Int
    BY <1>1, <1>3
  <2>3. QED
    BY <1>3, <1>7, <2>1, <2>2
<1>9. 50 * short > T * d
  <2>1. d * T <= d * (40 * MinUptime)
    BY <1>1, <1>2, <1>3
  <2>2. d * (81 * MinUptime) = d * (40 * MinUptime) + d * (40 * MinUptime) + d * MinUptime
    BY <1>1, <1>3
  <2>3. d * MinUptime >= d * 13
    BY <1>1, <1>3
  <2>4. d * (40 * MinUptime) \in Int /\ d * MinUptime \in Int /\ d * T \in Int /\ T * d = d * T
    BY <1>1, <1>3
  <2>5. QED
    BY <1>3, <1>7, <2>1, <2>2, <2>3, <2>4
<1>10. QED
  BY <1>8, <1>9 DEF ShortfallReset, SHORTFALL_MARGIN_FLOOR, short, T, S, W, n, d

(* The sums keep the true rate, and their cap.                             *)
LEMMA CappedIs ==
  ASSUME NEW w \in Nat, NEW c \in Nat, loss \in Losses
  PROVE  /\ Capped(w, c).wall \in 0..DRIFT_ACCUMULATOR_CAP /\ Capped(w, c).counter \in Nat
         /\ w > DRIFT_MIN_ACCUMULATED => Capped(w, c).wall >= DRIFT_MIN_ACCUMULATED
         /\ Capped(w, c).wall >= w \/ Capped(w, c).wall = DRIFT_ACCUMULATOR_CAP
         /\ 100 * c = (100 - loss) * w =>
              100 * Capped(w, c).counter = (100 - loss) * Capped(w, c).wall
<1> DEFINE cap == DRIFT_ACCUMULATOR_CAP
<1>1. cap \in Nat /\ cap > 120
  BY WaitsAssumption DEF DRIFT_MIN_ACCUMULATED
<1>2. CASE ~(w > cap)
  <2>1. Capped(w, c) = [wall |-> w, counter |-> c]
    BY <1>2 DEF Capped
  <2>2. QED
    BY <1>1, <1>2, <2>1 DEF DRIFT_MIN_ACCUMULATED
<1>3. CASE w > cap
  <2>1. Capped(w, c) = [wall |-> cap, counter |-> (c * cap) \div w]
    BY <1>3 DEF Capped
  <2>2. (c * cap) \div w \in Nat
    <3>1. c * cap \in Nat /\ w > 0
      BY <1>1, <1>3
    <3>2. QED
      BY <3>1, DivType
  <2>3. ASSUME 100 * c = (100 - loss) * w
        PROVE  100 * ((c * cap) \div w) = (100 - loss) * cap
    <3>1. loss \in 0..19 /\ (cap * (100 - loss)) % 100 = 0
      BY WaitsAssumption, WholeAssumption
    <3> DEFINE k == (cap * (100 - loss)) \div 100
    <3>2. cap * (100 - loss) \in Int
      BY <1>1, <3>1
    <3>3. k \in Int /\ 100 * k = cap * (100 - loss)
      BY <3>1, <3>2, DivType, DivHundred
    <3> HIDE DEF k
    <3>4. 100 * (c * cap) = ((100 - loss) * w) * cap /\ ((100 - loss) * w) * cap = 100 * (k * w)
      <4>1. 100 * (c * cap) = ((100 - loss) * w) * cap
        BY <1>1, <2>3
      <4>2. ((100 - loss) * w) * cap = (cap * (100 - loss)) * w
        BY <1>1, <3>1
      <4>3. (100 * k) * w = 100 * (k * w)
        BY <3>3
      <4>4. QED
        BY <3>3, <4>1, <4>2, <4>3
    <3>5. c * cap = k * w
      <4>1. c * cap \in Int /\ k * w \in Int
        BY <1>1, <3>3
      <4>2. QED
        BY <3>4, <4>1
    <3>6. (c * cap) \div w = k
      BY <1>1, <1>3, <3>3, <3>5, DivExact
    <3>7. QED
      BY <1>1, <3>1, <3>3, <3>6
  <2>4. QED
    BY <1>1, <2>1, <2>2, <2>3 DEF DRIFT_MIN_ACCUMULATED
<1>4. QED
  BY <1>2, <1>3

-----------------------------------------------------------------------------
(* The steps of a poll, by what they leave.                                *)

SameAnchor(k, l) == k.boot_time = l.boot_time /\ k.boot_of = l.boot_of
SameRate(k, l) ==
  k.record.sum_wall = l.record.sum_wall /\ k.record.sum_counter = l.record.sum_counter
SameReading(k, l) ==
  /\ k.last_counter = l.last_counter /\ k.last_poll_at = l.last_poll_at
  /\ k.last_of = l.last_of

(* The reading is stored, and, in Relatched, the anchor is derived anew.   *)
StoredNow(k) ==
  /\ k.record.stored_counter = counter /\ k.record.written_at = now
  /\ k.record.stored_of = epoch
Relatched(k, l) == StoredNow(k) /\ k.boot_time = DerivedBoot(l) /\ k.boot_of = epoch
Held(k, l) ==
  /\ SameAnchor(k, l) /\ SameStored(k.record, l.record) /\ k.last_write = l.last_write

LEMMA SameRateSame ==
  ASSUME NEW k, NEW l, SameRate(k, l)
  PROVE  DerivedBoot(k) = DerivedBoot(l) /\ RateKnown(k) = RateKnown(l)
BY DEF SameRate, DerivedBoot, Pace, RateKnown

LEMMA WrittenIs ==
  ASSUME TypeOK, NEW l \in Latch
  PROVE  /\ Written(l) \in Latch /\ StoredNow(Written(l)) /\ SameAnchor(Written(l), l)
         /\ SameRate(Written(l), l) /\ SameReading(Written(l), l)
         /\ Written(l).reconciled = l.reconciled /\ Written(l).last_write = now
BY DEF TypeOK, Latch, Record, Reading, Instant, Written, StoredNow, SameAnchor, SameRate,
   SameReading

LEMMA LatchedIs ==
  ASSUME TypeOK, CounterTrue, NEW l \in Latch
  PROVE  /\ Latched(l) \in Latch /\ Relatched(Latched(l), l)
         /\ SameRate(Latched(l), l) /\ SameReading(Latched(l), l)
         /\ Latched(l).reconciled = l.reconciled /\ Latched(l).last_write = now
<1> DEFINE k == [l EXCEPT !.boot_time = DerivedBoot(l), !.boot_of = epoch]
<1>1. DerivedBoot(l) \in Int
  BY DerivedIs DEF Latch
<1>2. /\ k \in Latch /\ SameRate(k, l) /\ SameReading(k, l)
      /\ k.boot_time = DerivedBoot(l) /\ k.boot_of = epoch /\ k.reconciled = l.reconciled
  BY <1>1 DEF TypeOK, Latch, Instant, SameRate, SameReading
<1>3. Latched(l) = Written(k)
  BY DEF Latched
<1> HIDE DEF k
<1>4. QED
  BY <1>2, <1>3, WrittenIs DEF Relatched, SameRate, SameReading, SameAnchor

Resets(l) == IF l.reconciled THEN RuntimeReset(l) ELSE StartupReset(l)

LEMMA ReconciledIs ==
  ASSUME TypeOK, CounterTrue, NEW l \in Latch
  PROVE  /\ Reconciled(l) \in Latch /\ Reconciled(l).reconciled = TRUE
         /\ SameRate(Reconciled(l), l) /\ SameReading(Reconciled(l), l)
         /\ \/ Resets(l) /\ Relatched(Reconciled(l), l) /\ Reconciled(l).last_write = now
            \/ ~Resets(l) /\ Held(Reconciled(l), l)
<1>1. CASE l.reconciled
  <2>1. CASE RuntimeReset(l)
    <3>1. Reconciled(l) = Latched(l)
      BY <1>1, <2>1 DEF Reconciled
    <3>2. QED
      BY <1>1, <2>1, <3>1, LatchedIs DEF Resets, Latch
  <2>2. CASE ~RuntimeReset(l)
    <3>1. Reconciled(l) = l
      BY <1>1, <2>2 DEF Reconciled
    <3>2. QED
      BY <1>1, <2>2, <3>1 DEF Resets, Latch, Held, SameAnchor, SameStored, SameRate, SameReading
  <2>3. QED
    BY <2>1, <2>2
<1>2. CASE ~l.reconciled
  <2>1. CASE StartupReset(l)
    <3> DEFINE k == Latched(l)
    <3>1. Reconciled(l) = [k EXCEPT !.reconciled = TRUE]
      BY <1>2, <2>1 DEF Reconciled
    <3>2. /\ k \in Latch /\ Relatched(k, l) /\ SameRate(k, l) /\ SameReading(k, l)
          /\ k.last_write = now
      BY LatchedIs
    <3> HIDE DEF k
    <3>3. QED
      BY <1>2, <2>1, <3>1, <3>2
         DEF Resets, Latch, Relatched, StoredNow, SameRate, SameReading
  <2>2. CASE ~StartupReset(l)
    <3>1. Reconciled(l) = [l EXCEPT !.reconciled = TRUE]
      BY <1>2, <2>2 DEF Reconciled
    <3>2. QED
      BY <1>2, <2>2, <3>1
         DEF Resets, Latch, Held, SameAnchor, SameStored, SameRate, SameReading
  <2>3. QED
    BY <2>1, <2>2
<1>3. QED
  BY <1>1, <1>2

LEMMA CheckedIs ==
  ASSUME TypeOK, CounterTrue, NEW l \in Latch
  PROVE  /\ Checked(l) \in Latch /\ Checked(l).reconciled = l.reconciled
         /\ SameRate(Checked(l), l) /\ SameReading(Checked(l), l)
         /\ \/ RateKnown(l) /\ Relatched(Checked(l), l) /\ Checked(l).last_write = now
            \/ Held(Checked(l), l)
<1>1. CASE Implausible(l) /\ DerivedBoot(l) > l.boot_time
  <2>1. Checked(l) = Latched(l) /\ RateKnown(l)
    BY <1>1 DEF Checked, Implausible
  <2>2. QED
    BY <2>1, LatchedIs
<1>2. CASE ~(Implausible(l) /\ DerivedBoot(l) > l.boot_time)
  <2>1. Checked(l) = l
    BY <1>2 DEF Checked
  <2>2. QED
    BY <2>1 DEF Held, SameAnchor, SameStored, SameRate, SameReading
<1>3. QED
  BY <1>1, <1>2

LEMMA ReadPersistedIs ==
  ASSUME TypeOK, NEW l \in Latch, NEW k, k = Persisted(Read(l))
  PROVE  /\ k \in Latch /\ k.reconciled = l.reconciled /\ SameAnchor(k, l) /\ SameRate(k, l)
         /\ k.last_counter = counter /\ k.last_poll_at = now /\ k.last_of = epoch
         /\ \/ StoredNow(k)
            \/ SameStored(k.record, l.record) /\ l.last_write # None
<1> DEFINE r == Read(l)
<1>1. /\ r \in Latch /\ SameAnchor(r, l) /\ SameRate(r, l) /\ SameStored(r.record, l.record)
      /\ r.last_counter = counter /\ r.last_poll_at = now /\ r.last_of = epoch
      /\ r.last_write = l.last_write /\ r.reconciled = l.reconciled
  BY DEF TypeOK, Latch, Reading, Read, SameAnchor, SameRate, SameStored
<1>2. (k = r /\ r.last_write # None) \/ k = Written(r)
  BY DEF Persisted
<1> HIDE DEF r
<1>3. CASE k = r /\ r.last_write # None
  BY <1>1, <1>3 DEF SameAnchor, SameRate, SameStored
<1>4. CASE k = Written(r)
  <2>1. /\ Written(r) \in Latch /\ StoredNow(Written(r)) /\ SameAnchor(Written(r), r)
        /\ SameRate(Written(r), r) /\ SameReading(Written(r), r)
        /\ Written(r).reconciled = r.reconciled
    BY <1>1, WrittenIs
  <2>2. k \in Latch /\ k.reconciled = l.reconciled /\ StoredNow(k)
    BY <1>1, <1>4, <2>1
  <2>3. SameAnchor(k, l) /\ SameRate(k, l)
    BY <1>1, <1>4, <2>1 DEF SameAnchor, SameRate
  <2>4. k.last_counter = counter /\ k.last_poll_at = now /\ k.last_of = epoch
    BY <1>1, <1>4, <2>1 DEF SameReading
  <2>5. QED
    BY <2>2, <2>3, <2>4
<1>5. QED
  BY <1>2, <1>3, <1>4

(* The sample of a poll: only the sums change, and they keep the counter's *)
(* rate unless a reset went unseen.                                        *)
LEMMA SampledIs ==
  ASSUME LatchInv
  PROVE  LET l == Sampled(latch) IN
         /\ l \in Latch /\ Held(l, latch) /\ SameReading(l, latch)
         /\ l.reconciled = latch.reconciled
         /\ ~Unseen => RateTrue(l.record)
         /\ RateKnown(latch) => RateKnown(l)
         /\ ~latch.reconciled => l = latch
<1> DEFINE l == Sampled(latch)
           wall == now - latch.last_poll_at
           advance == counter - latch.last_counter
           w == latch.record.sum_wall
           c == latch.record.sum_counter
           W == w + wall
           C == c + advance
           sums == Capped(W, C)
           skips == pauses \/ latch.last_counter = None \/ wall < DRIFT_MIN_INTERVAL
                      \/ advance <= 0
<1>1. TypeOK /\ latch \in Latch /\ RecordTrue(latch.record) /\ ReadingTrue /\ CounterTrue
  BY DEF LatchInv, TypeOK
<1>2. w \in Nat /\ w <= DRIFT_ACCUMULATOR_CAP /\ c \in Nat /\ loss \in 0..19 /\ counter \in Nat
        /\ now \in Nat /\ loss \in Losses
  BY <1>1, SumsType, WaitsAssumption DEF TypeOK, Latch
<1>3. CASE skips
  <2>1. Sampled(latch) = latch
    BY <1>3 DEF Sampled
  <2>2. QED
    BY <1>1, <2>1 DEF Held, SameAnchor, SameStored, SameReading, RecordTrue
<1>4. CASE ~skips
  <2>1. l = [latch EXCEPT !.record.sum_wall = sums.wall, !.record.sum_counter = sums.counter]
    BY <1>4 DEF Sampled
  <2>2. /\ latch.reconciled /\ ~pauses /\ wall >= 2 /\ advance > 0
        /\ latch.last_counter \in Nat /\ latch.last_poll_at \in Nat
    <3>1. latch.reconciled /\ ~pauses
      BY <1>1, <1>4 DEF ReadingTrue
    <3>2. latch.last_counter \in Nat /\ latch.last_poll_at \in Nat
      BY <1>1, <3>1 DEF ReadingTrue
    <3>3. QED
      BY <1>2, <1>4, <3>1, <3>2 DEF DRIFT_MIN_INTERVAL
  <2> HIDE DEF skips, l
  <2>3. W \in Nat /\ C \in Nat /\ wall \in Nat /\ advance \in Nat
    BY <1>2, <2>2
  <2> HIDE DEF w, c, wall, advance, W, C
  <2>4. /\ sums.wall \in 0..DRIFT_ACCUMULATOR_CAP /\ sums.counter \in Nat
        /\ W > DRIFT_MIN_ACCUMULATED => sums.wall >= DRIFT_MIN_ACCUMULATED
        /\ 100 * C = (100 - loss) * W => 100 * sums.counter = (100 - loss) * sums.wall
    BY <1>2, <2>3, CappedIs
  <2> HIDE DEF sums
  <2>5. /\ l.record.sum_wall = sums.wall /\ l.record.sum_counter = sums.counter
        /\ l \in Latch /\ Held(l, latch) /\ SameReading(l, latch)
        /\ l.reconciled = latch.reconciled
    BY <1>1, <2>1, <2>4 DEF Latch, Record, Held, SameAnchor, SameStored, SameReading
  <2>6. RateKnown(latch) => RateKnown(l)
    <3>1. RateKnown(latch) => W > DRIFT_MIN_ACCUMULATED
      BY <1>2, <2>2, <2>3 DEF RateKnown, w, W, DRIFT_MIN_ACCUMULATED
    <3>2. QED
      BY <2>2, <2>4, <2>5, <3>1 DEF RateKnown
  <2>7. ASSUME ~Unseen PROVE RateTrue(l.record)
    <3> SUFFICES ASSUME ~blind PROVE 100 * sums.counter = (100 - loss) * sums.wall
      BY <2>5 DEF RateTrue
    <3>1. ~RuntimeReset(latch)
      BY <1>2, <2>2 DEF RuntimeReset, UPTIME_REBOOT_MARGIN, advance
    <3>2. latch.last_of = epoch
      BY <2>2, <2>7, <3>1 DEF Unseen
    <3>3. 100 * latch.last_counter = (100 - loss) * (latch.last_poll_at - start)
      BY <1>1, <2>2, <3>2 DEF ReadingTrue
    <3>4. 100 * counter = (100 - loss) * (now - start) /\ start \in Nat
      BY <1>1, <2>2 DEF CounterTrue, TypeOK
    <3>5. 100 * advance = (100 - loss) * wall
      <4>1. (100 - loss) * wall
              = (100 - loss) * (now - start) - (100 - loss) * (latch.last_poll_at - start)
        <5>1. 100 - loss \in Int /\ now \in Int /\ start \in Int /\ latch.last_poll_at \in Int
          BY <1>2, <2>2, <3>4
        <5>2. QED
          BY <5>1, FactorDifference DEF wall
      <4>2. /\ 100 * advance = 100 * counter - 100 * latch.last_counter
            /\ 100 * counter \in Int /\ 100 * latch.last_counter \in Int
        BY <1>2, <2>2 DEF advance
      <4>3. QED
        BY <3>3, <3>4, <4>1, <4>2
    <3>6. 100 * c = (100 - loss) * w
      BY <1>1, <2>2 DEF RecordTrue, RateTrue, c, w
    <3>7. 100 * C = (100 - loss) * W
      BY <1>2, <2>3, <3>5, <3>6 DEF C, W
    <3>8. QED
      BY <2>4, <3>7
  <2>8. QED
    BY <2>2, <2>5, <2>6, <2>7 DEF l
<1>5. QED
  BY <1>3, <1>4

(* What a poll leaves.                                                     *)
PollLeaves(l) ==
  /\ latch' \in Latch /\ latch'.reconciled = TRUE
  /\ latch'.last_counter = counter /\ latch'.last_poll_at = now /\ latch'.last_of = epoch
  /\ SameRate(latch', l)
  /\ \/ /\ Resets(l) \/ RateKnown(l)
        /\ latch'.boot_of = epoch /\ latch'.boot_time = DerivedBoot(l)
     \/ ~Resets(l) /\ SameAnchor(latch', latch)
  /\ \/ StoredNow(latch')
     \/ SameStored(latch'.record, latch.record) /\ latch.last_write # None

LEMMA PollIs ==
  ASSUME LatchInv, Poll
  PROVE  PollLeaves(Sampled(latch))
<1> DEFINE l == Sampled(latch)
           r == Reconciled(l)
           k == Checked(r)
<1>1. TypeOK /\ CounterTrue /\ l \in Latch /\ Held(l, latch)
  BY SampledIs DEF LatchInv
<1>2. /\ r \in Latch /\ r.reconciled = TRUE /\ SameRate(r, l)
      /\ \/ Resets(l) /\ Relatched(r, l) /\ r.last_write = now
         \/ ~Resets(l) /\ Held(r, l)
  BY <1>1, ReconciledIs
<1>3. /\ k \in Latch /\ k.reconciled = r.reconciled /\ SameRate(k, r)
      /\ \/ RateKnown(r) /\ Relatched(k, r) /\ k.last_write = now
         \/ Held(k, r)
  BY <1>1, <1>2, CheckedIs
<1>4. latch' = Persisted(Read(k))
  BY DEF Poll
<1>5. /\ latch' \in Latch /\ latch'.reconciled = k.reconciled /\ SameAnchor(latch', k)
      /\ SameRate(latch', k)
      /\ latch'.last_counter = counter /\ latch'.last_poll_at = now /\ latch'.last_of = epoch
      /\ \/ StoredNow(latch')
         \/ SameStored(latch'.record, k.record) /\ k.last_write # None
  BY <1>1, <1>3, <1>4, ReadPersistedIs
<1> HIDE DEF l, r, k
<1>6. DerivedBoot(r) = DerivedBoot(l) /\ RateKnown(r) = RateKnown(l)
  BY <1>2, SameRateSame
<1>7. SameRate(latch', l)
  BY <1>2, <1>3, <1>5 DEF SameRate
<1>8. \/ /\ Resets(l) \/ RateKnown(l)
         /\ latch'.boot_of = epoch /\ latch'.boot_time = DerivedBoot(l)
      \/ ~Resets(l) /\ SameAnchor(latch', latch)
  BY <1>1, <1>2, <1>3, <1>5, <1>6 DEF Relatched, Held, SameAnchor
<1>9. \/ StoredNow(latch')
      \/ SameStored(latch'.record, latch.record) /\ latch.last_write # None
  BY <1>1, <1>2, <1>3, <1>5 DEF Relatched, Held, SameStored, StoredNow
<1>10. QED
  BY <1>2, <1>3, <1>5, <1>7, <1>8, <1>9 DEF PollLeaves, l

-----------------------------------------------------------------------------
(* The invariant is inductive.                                             *)

LEMMA NothingType ==
  /\ Nothing \in Record /\ Nothing.stored_of = 0 /\ Nothing.stored_counter = None
  /\ Nothing.sum_wall = 0 /\ Nothing.sum_counter = 0
BY WaitsAssumption DEF Nothing, Record, Reading

LEMMA NothingTrue ==
  ASSUME loss \in Losses
  PROVE  RecordTrue(Nothing)
<1>1. loss \in 0..19
  BY WaitsAssumption
<1>2. QED
  BY <1>1, NothingType DEF RecordTrue, RateTrue

LEMMA LatchInitInv == Init => LatchInv
<1> SUFFICES ASSUME Init PROVE LatchInv
  OBVIOUS
<1> USE DEF Init
<1>1. None \in Instant /\ loss \in 0..19 /\ now \in Nat /\ now = 1000
  BY WaitsAssumption DEF Instant, Install
<1>2. /\ latch \in Latch /\ latch.boot_time = None /\ latch.boot_of = 0
      /\ latch.record = Nothing /\ latch.last_counter = None /\ latch.last_poll_at = None
      /\ latch.last_of = 0 /\ latch.last_write = None /\ latch.reconciled = FALSE
  BY <1>1, NothingType DEF Setup, Latch, Reading
<1>3. TypeOK
  <2>1. saving \in Record /\ disk \in [boot_time : Instant, boot_of : Nat, record : Record]
    BY <1>1, NothingType
  <2>2. now \in Nat /\ waits \in 0..MaxWaits /\ counter \in Nat /\ epoch \in Nat /\ start \in 0..now
    BY <1>1, WaitsAssumption
  <2>3. QED
    BY <1>2, <2>1, <2>2 DEF TypeOK
<1>4. CounterTrue
  BY <1>1 DEF CounterTrue
<1>5. RecordTrue(latch.record) /\ RecordTrue(saving) /\ RecordTrue(disk.record)
  BY <1>2, NothingTrue
<1>6. ReadingTrue /\ ResetNoticed
  BY <1>2 DEF ReadingTrue, ResetNoticed
<1>7. Anchored(latch.boot_time, latch.boot_of) /\ Anchored(disk.boot_time, disk.boot_of)
  BY <1>2 DEF Anchored
<1>8. SavedBefore /\ AnchorCovers /\ RecordMissing
  BY <1>2, NothingType DEF SavedBefore, AnchorCovers, RecordMissing
<1>9. QED
  BY <1>3, <1>4, <1>5, <1>6, <1>7, <1>8 DEF LatchInv

(* The parts of the invariant that say nothing of the router.              *)
Kept == UNCHANGED <<home, latch, saving, disk, blind>>

LEMMA KeptParts ==
  ASSUME LatchInv, Kept
  PROVE  /\ home' = "running" => (SavedBefore /\ AnchorCovers /\ RecordMissing)'
         /\ home' = "stopped" =>
              Stopped' /\ (~blind' => disk'.record.stored_of <= disk'.boot_of)
         /\ ResetNoticed'
BY DEF LatchInv, Kept, SavedBefore, AnchorCovers, RecordMissing, Stopped, Setup, Nothing,
   ResetNoticed

LEMMA WaitAdvances ==
  ASSUME TypeOK, CounterTrue, Wait
  PROVE  /\ now' \in Nat /\ counter' \in Nat /\ now <= now' /\ counter <= counter'
         /\ counter' - counter <= now' - now
         /\ ~pauses => 100 * counter' = 100 * counter + (100 - loss) * (now' - now)
<1>1. PICK w \in Waits :
        /\ now' = now + w
        /\ \/ counter' = counter + (w * (100 - loss)) \div 100
           \/ pauses /\ counter' = counter
  BY DEF Wait
<1>2. /\ now \in Nat /\ counter \in Nat /\ loss \in 0..19 /\ w \in Nat
      /\ (w * (100 - loss)) % 100 = 0 /\ w * (100 - loss) \in Nat
  BY WaitsAssumption, WholeAssumption DEF TypeOK
<1> DEFINE a == (w * (100 - loss)) \div 100
<1>3. a \in Int /\ a >= 0 /\ 100 * a = w * (100 - loss)
  BY <1>2, DivType, DivHundred
<1> HIDE DEF a
<1>4. a <= w
  <2>1. w * (100 - loss) <= 100 * w
    BY <1>2
  <2>2. QED
    BY <1>2, <1>3, <2>1
<1>5. counter' = counter + a \/ (pauses /\ counter' = counter)
  BY <1>1 DEF a
<1>6. (100 - loss) * (now' - now) = w * (100 - loss)
  BY <1>1, <1>2
<1>7. QED
  BY <1>1, <1>2, <1>3, <1>4, <1>5, <1>6

LEMMA WaitInv ==
  ASSUME LatchInv, Wait
  PROVE  LatchInv'
<1>1. /\ UNCHANGED <<epoch, start, loss, pauses>> /\ Kept
      /\ waits < MaxWaits /\ waits' = waits + 1 /\ \E w \in Waits : now' = now + w
  BY DEF Wait, Kept
<1>2. /\ TypeOK /\ CounterTrue /\ now \in Nat /\ start \in Nat /\ start <= now
      /\ counter \in Nat /\ loss \in 0..19 /\ waits \in Nat
  BY WaitsAssumption DEF LatchInv, TypeOK
<1>3. /\ now' \in Nat /\ counter' \in Nat /\ now <= now' /\ counter <= counter'
      /\ counter' - counter <= now' - now
      /\ ~pauses => 100 * counter' = 100 * counter + (100 - loss) * (now' - now)
  BY <1>2, WaitAdvances
<1>4. TypeOK'
  BY <1>1, <1>2, <1>3, WaitsAssumption DEF TypeOK, Kept
<1>5. CounterTrue'
  <2>1. (100 - loss) * (now' - start) = (100 - loss) * (now - start) + (100 - loss) * (now' - now)
    BY <1>2, <1>3
  <2>2. start \in Install..now' /\ epoch >= 1
    BY <1>2, <1>3 DEF CounterTrue, Install
  <2>3. CASE pauses
    BY <1>1, <1>2, <1>3, <2>2, <2>3 DEF CounterTrue
  <2>4. CASE ~pauses
    <3>1. 100 * counter' = (100 - loss) * (now - start) + (100 - loss) * (now' - now)
      BY <1>2, <1>3, <2>4 DEF CounterTrue
    <3>2. QED
      BY <1>1, <2>1, <2>2, <2>4, <3>1 DEF CounterTrue
  <2>5. QED
    BY <2>3, <2>4
<1>6. (RecordTrue(latch.record) /\ RecordTrue(saving) /\ RecordTrue(disk.record))'
  BY <1>1, <1>2, <1>3 DEF LatchInv, RecordTrue, RateTrue, StoredTrue, Nothing, Kept, Install
<1>7. ReadingTrue'
  BY <1>1, <1>2, <1>3 DEF LatchInv, ReadingTrue, Kept, Nothing
<1>8. (Anchored(latch.boot_time, latch.boot_of) /\ Anchored(disk.boot_time, disk.boot_of))'
  <2>1. \A boot \in Instant : \A of : Anchored(boot, of) /\ boot # None => boot \in Int
    BY DEF Instant
  <2>2. latch.boot_time \in Instant /\ disk.boot_time \in Instant /\ epoch >= 1
    BY <1>2 DEF TypeOK, Latch, CounterTrue
  <2>3. QED
    BY <1>1, <1>2, <1>3, <2>1, <2>2 DEF LatchInv, Anchored, Kept
<1>9. QED
  BY <1>1, <1>4, <1>5, <1>6, <1>7, <1>8, KeptParts DEF LatchInv

LEMMA ResetsInv ==
  ASSUME LatchInv, RouterResets
  PROVE  LatchInv'
<1>1. /\ counter > 0 /\ now - start >= MinUptime
      /\ counter' = 0 /\ epoch' = epoch + 1 /\ start' = now
      /\ UNCHANGED <<now, waits, loss, pauses>> /\ Kept
  BY DEF RouterResets, Kept
<1>2. /\ TypeOK /\ CounterTrue /\ now \in Nat /\ start \in Install..now /\ start \in Nat
      /\ counter \in Nat /\ loss \in 0..19 /\ epoch \in Nat /\ epoch >= 1
      /\ MinUptime \in Nat
  BY WaitsAssumption, MarginAssumption DEF LatchInv, TypeOK, CounterTrue, Install
<1>3. TypeOK'
  BY <1>1, <1>2 DEF LatchInv, TypeOK, Kept
<1>4. CounterTrue'
  BY <1>1, <1>2 DEF CounterTrue, Install
<1>5. ASSUME NEW r, RecordTrue(r), r \in Record
      PROVE  /\ RateTrue(r)
             /\ \/ r = Nothing
                \/ /\ r.stored_counter \in Nat /\ r.written_at \in Install..now
                   /\ r.stored_of \in 1..epoch /\ r.written_at <= now
                   /\ ~pauses => 100 * r.stored_counter + (100 - loss) * (now - r.written_at)
                                   >= (100 - loss) * MinUptime
  <2>1. RateTrue(r) /\ (r = Nothing \/ StoredTrue(r))
    BY <1>5 DEF RecordTrue
  <2>2. ASSUME StoredTrue(r), ~pauses
        PROVE  100 * r.stored_counter + (100 - loss) * (now - r.written_at)
                 >= (100 - loss) * MinUptime
    <3> DEFINE W == r.written_at
               S == r.stored_counter
    <3>1. W \in Nat /\ S \in Nat
      BY <2>2 DEF StoredTrue, Install
    <3>2. CASE r.stored_of = epoch
      <4>1. 100 * S = (100 - loss) * (W - start)
        BY <2>2, <3>2 DEF StoredTrue
      <4> HIDE DEF W, S
      <4>2. (100 - loss) * (W - start) + (100 - loss) * (now - W) = (100 - loss) * (now - start)
        BY <1>2, <3>1
      <4>3. (100 - loss) * MinUptime <= (100 - loss) * (now - start)
        BY <1>1, <1>2
      <4>4. QED
        BY <4>1, <4>2, <4>3 DEF W, S
    <3>3. CASE r.stored_of # epoch
      <4>1. 100 * S + (100 - loss) * (start - W) >= (100 - loss) * MinUptime
        BY <2>2, <3>3 DEF StoredTrue
      <4> HIDE DEF W, S
      <4>2. (100 - loss) * (start - W) <= (100 - loss) * (now - W)
        BY <1>2, <3>1
      <4>3. /\ (100 - loss) * (start - W) \in Int /\ (100 - loss) * (now - W) \in Int
            /\ (100 - loss) * MinUptime \in Int
        BY <1>2, <3>1
      <4>4. QED
        BY <3>1, <4>1, <4>2, <4>3 DEF W, S
    <3>4. QED
      BY <3>2, <3>3
  <2>3. StoredTrue(r) => r.written_at <= now
    BY <1>2 DEF StoredTrue, Install
  <2>4. QED
    BY <2>1, <2>2, <2>3 DEF StoredTrue
<1>6. latch.record \in Record /\ saving \in Record /\ disk.record \in Record
  BY <1>2 DEF TypeOK, Latch
<1>7. \A n \in 1..epoch : n \in 1..epoch' /\ n # epoch'
  BY <1>1, <1>2
<1>8. (RecordTrue(latch.record) /\ RecordTrue(saving) /\ RecordTrue(disk.record))'
  BY <1>1, <1>5, <1>6, <1>7 DEF LatchInv, RecordTrue, RateTrue, StoredTrue, Nothing, Kept
<1>9. ReadingTrue'
  BY <1>1, <1>7 DEF LatchInv, ReadingTrue, Kept, Nothing
<1>10. (Anchored(latch.boot_time, latch.boot_of) /\ Anchored(disk.boot_time, disk.boot_of))'
  <2>1. latch.boot_time \in Int \cup {None} /\ disk.boot_time \in Int \cup {None}
    BY <1>2 DEF TypeOK, Latch, Instant
  <2>2. QED
    BY <1>1, <1>2, <2>1 DEF LatchInv, Anchored, Kept
<1>11. QED
  BY <1>1, <1>3, <1>4, <1>8, <1>9, <1>10, KeptParts DEF LatchInv

(* A poll that shows no reset is of the epoch the anchor is of.            *)
LEMMA NoResetSameEpoch ==
  ASSUME LatchInv, home = "running", ~blind, ~Unseen, ~Resets(Sampled(latch))
  PROVE  latch.boot_of = epoch
<1> DEFINE l == Sampled(latch)
<1>1. /\ TypeOK /\ CounterTrue /\ ReadingTrue /\ AnchorCovers /\ RecordMissing
      /\ Anchored(latch.boot_time, latch.boot_of) /\ RecordTrue(latch.record)
  BY DEF LatchInv
<1>2. /\ SameReading(l, latch) /\ l.reconciled = latch.reconciled
      /\ ~latch.reconciled => l = latch
  BY SampledIs
<1>3. latch.boot_of \in 0..epoch /\ epoch \in Nat /\ epoch >= 1 /\ latch.record \in Record
  BY <1>1 DEF Anchored, TypeOK, CounterTrue, Latch
<1>4. CASE latch.reconciled
  <2>1. ~RuntimeReset(latch)
    BY <1>2, <1>4 DEF Resets, RuntimeReset, SameReading
  <2>2. latch.last_of = epoch
    BY <1>4, <2>1 DEF Unseen
  <2>3. QED
    BY <1>4, <2>2 DEF LatchInv, ResetNoticed
<1>5. CASE ~latch.reconciled
  <2>1. ~StartupReset(latch) /\ l = latch
    BY <1>2, <1>5 DEF Resets
  <2>2. latch.record.stored_of = epoch => latch.boot_of = epoch
    BY <1>1, <1>3 DEF AnchorCovers
  <2>3. CASE latch.record = Nothing
    <3>1. latch.boot_time # None
      BY <2>1, <2>3, NothingType DEF StartupReset, ColdStartReset
    <3>2. QED
      BY <1>1, <1>5, <2>3, <3>1 DEF RecordMissing, Anchored
  <2>4. CASE latch.record # Nothing
    <3>1. /\ StoredTrue(latch.record) /\ latch.record.stored_counter # None
          /\ latch.record.stored_of \notin {0}
      BY <1>1, <2>4, WaitsAssumption DEF RecordTrue, StoredTrue
    <3>2. CASE pauses
      <4>1. ~FloorReset(latch)
        BY <2>1, <3>1, <3>2 DEF StartupReset
      <4>2. QED
        BY <1>5, <2>2, <3>1, <3>2, <4>1 DEF Unseen
    <3>3. CASE ~pauses
      <4>1. ~ShortfallReset(latch)
        BY <2>1, <3>1, <3>3 DEF StartupReset
      <4>2. RateTrue(latch.record)
        BY <1>1 DEF RecordTrue
      <4>3. latch.record.stored_of # epoch => now - latch.record.written_at < 40 * MinUptime
        <5>1. latch.record.stored_of # epoch => ~LongAway
          BY <1>5, <3>1, <3>3 DEF Unseen
        <5>2. now - latch.record.written_at \in Int /\ 40 * MinUptime \in Int
          BY <1>1, <3>1, MarginAssumption DEF TypeOK, StoredTrue, Install
        <5>3. QED
          BY <5>1, <5>2 DEF LongAway
      <4>4. QED
        BY <1>1, <1>3, <2>2, <3>1, <3>3, <4>1, <4>2, <4>3, ShortfallShows
    <3>4. QED
      BY <3>2, <3>3
  <2>5. QED
    BY <2>3, <2>4
<1>6. QED
  BY <1>4, <1>5

(* The anchor of a poll: derived anew in this epoch, or the one it was.    *)
LEMMA PollAnchor ==
  ASSUME LatchInv, Poll
  PROVE  /\ latch'.boot_of \in {epoch, latch.boot_of}
         /\ Anchored(latch.boot_time, latch.boot_of)'
         /\ ~blind' => latch'.boot_of = epoch
<1> DEFINE l == Sampled(latch)
<1>1. /\ TypeOK /\ CounterTrue /\ Anchored(latch.boot_time, latch.boot_of) /\ epoch >= 1
      /\ home = "running"
  BY DEF LatchInv, Poll, CounterTrue
<1>2. blind' = (blind \/ Unseen) /\ UNCHANGED router
  BY DEF Poll
<1>3. PollLeaves(l)
  BY PollIs
<1>4. l \in Latch /\ (~Unseen => RateTrue(l.record))
  BY SampledIs
<1>5. DerivedBoot(l) \in Int
  BY <1>1, <1>4, DerivedIs DEF Latch
<1> HIDE DEF l
<1>6. CASE /\ Resets(l) \/ RateKnown(l)
           /\ latch'.boot_of = epoch /\ latch'.boot_time = DerivedBoot(l)
  <2>1. ~blind' => start <= DerivedBoot(l) /\ DerivedBoot(l) + counter <= now
    BY <1>1, <1>2, <1>4, DerivedIs DEF Latch
  <2>2. epoch \in Nat /\ DerivedBoot(l) # None
    BY <1>1, <1>5, WaitsAssumption DEF TypeOK
  <2>3. QED
    BY <1>1, <1>2, <1>6, <2>1, <2>2 DEF Anchored, router
<1>7. CASE ~Resets(l) /\ SameAnchor(latch', latch)
  <2>1. ~blind' => latch.boot_of = epoch
    BY <1>1, <1>2, <1>7, NoResetSameEpoch DEF l
  <2>2. QED
    BY <1>1, <1>2, <1>7, <2>1 DEF Anchored, SameAnchor, router
<1>8. QED
  BY <1>3, <1>6, <1>7 DEF PollLeaves

LEMMA PollInv ==
  ASSUME LatchInv, Poll
  PROVE  LatchInv'
<1> DEFINE l == Sampled(latch)
<1>1. /\ home = "running" /\ UNCHANGED <<router, home, disk>>
      /\ blind' = (blind \/ Unseen)
      /\ \/ saving' = latch'.record
         \/ SameStored(latch'.record, latch.record) /\ saving' = saving
  BY DEF Poll
<1>2. /\ TypeOK /\ CounterTrue /\ ReadingTrue /\ SavedBefore /\ AnchorCovers /\ loss \in 0..19
      /\ RecordTrue(latch.record) /\ RecordTrue(saving) /\ RecordTrue(disk.record)
  BY <1>1, WaitsAssumption DEF LatchInv, TypeOK
<1>3. PollLeaves(l)
  BY PollIs
<1>4. l \in Latch /\ Held(l, latch) /\ (~Unseen => RateTrue(l.record))
  BY SampledIs
<1>5. /\ latch'.boot_of \in {epoch, latch.boot_of} /\ Anchored(latch.boot_time, latch.boot_of)'
      /\ ~blind' => latch'.boot_of = epoch
  BY PollAnchor
<1> HIDE DEF l
<1>6. TypeOK'
  <2>1. latch' \in Latch /\ latch'.record \in Record
    BY <1>3 DEF PollLeaves, Latch
  <2>2. saving' \in Record
    BY <1>1, <1>2, <2>1 DEF TypeOK
  <2>3. blind' \in BOOLEAN
    BY <1>1, <1>2 DEF TypeOK, Unseen
  <2>4. QED
    BY <1>1, <1>2, <2>1, <2>2, <2>3 DEF TypeOK, router
<1>7. CounterTrue'
  BY <1>1 DEF LatchInv, CounterTrue, router
<1>8. /\ counter \in Nat /\ now \in Nat /\ start \in Install..now /\ epoch \in Nat /\ epoch >= 1
      /\ now \in Install..now
  BY <1>2 DEF TypeOK, CounterTrue, Install
<1>9. RecordTrue(latch.record)' /\ latch'.record # Nothing
  <2>1. RateTrue(latch.record)'
    BY <1>1, <1>3, <1>4 DEF RateTrue, PollLeaves, SameRate, router
  <2>2. CASE StoredNow(latch')
    <3>1. StoredTrue(latch.record)'
      BY <1>1, <1>2, <1>8, <2>2 DEF StoredTrue, StoredNow, CounterTrue, router
    <3>2. latch'.record.stored_of # 0
      BY <1>8, <2>2 DEF StoredNow
    <3>3. QED
      BY <2>1, <3>1, <3>2, NothingType DEF RecordTrue
  <2>3. CASE SameStored(latch'.record, latch.record) /\ latch.last_write # None
    <3>1. latch.record # Nothing
      BY <1>2, <2>3 DEF ReadingTrue
    <3>2. StoredTrue(latch.record)
      BY <1>2, <3>1 DEF RecordTrue
    <3>3. StoredTrue(latch.record)'
      BY <1>1, <2>3, <3>2 DEF StoredTrue, SameStored, router
    <3>4. latch'.record.stored_of # 0
      BY <2>3, <3>2 DEF StoredTrue, SameStored
    <3>5. QED
      BY <2>1, <3>3, <3>4, NothingType DEF RecordTrue
  <2>4. QED
    BY <1>3, <2>2, <2>3 DEF PollLeaves
<1>10. RecordTrue(saving)' /\ RecordTrue(disk.record)'
  <2>1. UNCHANGED router /\ (blind => blind')
    BY <1>1
  <2>2. RecordTrue(disk.record)'
    BY <1>1, <1>2, <2>1 DEF RecordTrue, RateTrue, StoredTrue, Nothing, router
  <2>3. saving' = saving => RecordTrue(saving)'
    BY <1>2, <2>1 DEF RecordTrue, RateTrue, StoredTrue, Nothing, router
  <2>4. saving' = latch'.record => RecordTrue(saving)'
    BY <1>9 DEF RecordTrue, RateTrue, StoredTrue, Nothing
  <2>5. QED
    BY <1>1, <2>2, <2>3, <2>4
<1>11. ReadingTrue'
  BY <1>1, <1>2, <1>3, <1>8, <1>9 DEF ReadingTrue, PollLeaves, CounterTrue, router
<1>12. Anchored(disk.boot_time, disk.boot_of)'
  BY <1>1 DEF LatchInv, Anchored, router
<1>13. SavedBefore'
  <2>1. latch.boot_of \in 0..epoch /\ disk.boot_of \in 0..epoch
    BY DEF LatchInv, Anchored
  <2>2. disk'.boot_of <= latch'.boot_of
    BY <1>1, <1>2, <1>5, <1>8, <2>1 DEF SavedBefore
  <2>3. ASSUME ~blind', disk'.boot_of \in 1..(latch'.boot_of - 1)
        PROVE  disk'.boot_time < latch'.boot_time
    <3>1. /\ latch'.boot_of = epoch /\ disk.boot_of \in 1..(epoch - 1) /\ disk.boot_time < start
          /\ start <= latch'.boot_time
      BY <1>1, <1>5, <2>1, <2>3 DEF LatchInv, Anchored, router
    <3>2. /\ disk.boot_time \in Int /\ latch'.boot_time \in Int
      <4>1. disk.boot_time # None /\ latch'.boot_time # None
        BY <1>5, <1>8, <2>1, <3>1 DEF LatchInv, Anchored
      <4>2. QED
        BY <1>2, <1>6, <4>1 DEF TypeOK, Latch, Instant
    <3>3. QED
      BY <1>1, <1>8, <3>1, <3>2
  <2>4. QED
    BY <2>2, <2>3 DEF SavedBefore
<1>14. AnchorCovers'
  <2> SUFFICES ASSUME ~blind'
               PROVE  /\ disk'.record.stored_of <= disk'.boot_of
                      /\ latch'.record.stored_of <= latch'.boot_of
                      /\ saving'.stored_of <= latch'.boot_of
    BY DEF AnchorCovers
  <2>1. latch'.boot_of = epoch /\ ~blind
    BY <1>1, <1>5
  <2>2. latch'.record.stored_of \in 1..epoch
    BY <1>1, <1>9 DEF RecordTrue, StoredTrue, router
  <2>3. saving.stored_of \in 0..epoch
    BY <1>2, <1>8, NothingType DEF RecordTrue, StoredTrue
  <2>4. QED
    BY <1>1, <1>2, <1>8, <2>1, <2>2, <2>3 DEF AnchorCovers
<1>15. RecordMissing' /\ ResetNoticed'
  BY <1>3, <1>5 DEF PollLeaves, RecordMissing, ResetNoticed
<1>16. QED
  BY <1>1, <1>5, <1>6, <1>7, <1>9, <1>10, <1>11, <1>12, <1>13, <1>14, <1>15 DEF LatchInv

(* While the router is left alone and no reset that was missed is          *)
(* forgotten, what is true of a record or of an anchor stays true.         *)
Alone == UNCHANGED router /\ blind \in BOOLEAN /\ blind' \in BOOLEAN /\ (blind => blind')

LEMMA RouterParts ==
  ASSUME LatchInv, Alone
  PROVE  /\ CounterTrue'
         /\ now' \in Nat /\ waits' \in 0..MaxWaits /\ counter' \in Nat /\ epoch' \in Nat
         /\ start' \in 0..now' /\ loss' \in Losses /\ pauses' \in BOOLEAN
BY DEF LatchInv, TypeOK, CounterTrue, router, Alone

LEMMA NothingRate ==
  ASSUME loss' \in Losses
  PROVE  RateTrue(Nothing)'
<1>1. (100 - loss') * 0 = 100 * 0
  <2>1. loss' \in 0..19
    BY WaitsAssumption
  <2>2. \A n \in 0..19 : (100 - n) * 0 = 100 * 0
    OBVIOUS
  <2>3. QED
    BY <2>1, <2>2, Zenon
<1>2. RateTrue(Nothing)' = (~pauses' /\ ~blind' => 100 * 0 = (100 - loss') * 0)
  BY DEF RateTrue, Nothing
<1>3. QED
  BY <1>1, <1>2

(* A latch that was set up has read nothing yet.                           *)
LEMMA SetupParts ==
  ASSUME NEW boot \in Instant, NEW of \in Nat, NEW r \in Record, latch' = Setup(boot, of, r)
  PROVE  /\ latch'.boot_time = boot /\ latch'.boot_of = of /\ latch'.record = r
         /\ latch' \in Latch /\ ReadingTrue' /\ ResetNoticed'
<1>1. /\ latch'.boot_time = boot /\ latch'.boot_of = of /\ latch'.record = r
      /\ latch'.last_counter = None /\ latch'.last_poll_at = None /\ latch'.last_of = 0
      /\ latch'.last_write = None /\ latch'.reconciled = FALSE
  BY DEF Setup
<1>2. latch' \in Latch
  BY DEF Setup, Latch, Reading
<1>3. ReadingTrue' /\ ResetNoticed'
  BY <1>1 DEF ReadingTrue, ResetNoticed
<1>4. QED
  BY <1>1, <1>2, <1>3

LEMMA DiskType ==
  ASSUME LatchInv
  PROVE  /\ disk.boot_time \in Instant /\ disk.boot_of \in Nat /\ disk.record \in Record
         /\ latch.boot_time \in Instant /\ latch.boot_of \in Nat /\ latch.record \in Record
         /\ saving \in Record /\ blind \in BOOLEAN /\ epoch \in Nat
BY DEF LatchInv, TypeOK, Latch

(* An instant that is saved is saved with its epoch.                       *)
LEMMA SavedEpoch ==
  ASSUME LatchInv, home = "running", ~blind, disk.boot_time = latch.boot_time
  PROVE  disk.boot_of = latch.boot_of
<1>1. /\ SavedBefore /\ Anchored(latch.boot_time, latch.boot_of)
      /\ Anchored(disk.boot_time, disk.boot_of) /\ disk.boot_of \in Nat /\ latch.boot_of \in Nat
      /\ latch.boot_time \in Int \cup {None}
  BY DiskType DEF LatchInv, Instant
<1>2. CASE disk.boot_of = 0
  BY <1>1, <1>2 DEF Anchored
<1>3. CASE disk.boot_of \in 1..(latch.boot_of - 1)
  <2>1. disk.boot_time < latch.boot_time /\ latch.boot_time \in Int
    BY <1>1, <1>3 DEF SavedBefore, Anchored
  <2>2. QED
    BY <2>1
<1>4. QED
  BY <1>1, <1>2, <1>3 DEF SavedBefore

LEMMA SaveEntryInv ==
  ASSUME LatchInv, SaveEntry
  PROVE  LatchInv'
<1>1. /\ home = "running" /\ UNCHANGED <<router, home, latch, saving, blind>>
      /\ disk' = [disk EXCEPT !.boot_time = latch.boot_time, !.boot_of = latch.boot_of]
  BY DEF SaveEntry
<1>2. /\ TypeOK /\ SavedBefore /\ AnchorCovers /\ Alone
      /\ Anchored(latch.boot_time, latch.boot_of) /\ disk.record.stored_of \in Nat
  BY <1>1, DiskType DEF LatchInv, Alone, Record
<1>3. /\ disk' \in [boot_time : Instant, boot_of : Nat, record : Record]
      /\ disk'.boot_time = latch.boot_time /\ disk'.boot_of = latch.boot_of
      /\ disk'.record = disk.record
  BY <1>1, <1>2, DiskType DEF TypeOK
<1>4. TypeOK' /\ CounterTrue'
  BY <1>1, <1>2, <1>3, RouterParts DEF TypeOK
<1>5. (RecordTrue(latch.record) /\ RecordTrue(saving) /\ RecordTrue(disk.record))'
  BY <1>1, <1>3 DEF LatchInv, RecordTrue, RateTrue, StoredTrue, Nothing, router
<1>6. ReadingTrue' /\ ResetNoticed' /\ RecordMissing'
  BY <1>1 DEF LatchInv, ReadingTrue, ResetNoticed, RecordMissing, Nothing, router
<1>7. (Anchored(latch.boot_time, latch.boot_of) /\ Anchored(disk.boot_time, disk.boot_of))'
  BY <1>1, <1>2, <1>3 DEF Anchored, router
<1>8. SavedBefore' /\ AnchorCovers'
  <2>1. SavedBefore'
    BY <1>1, <1>3, DiskType DEF SavedBefore
  <2>2. AnchorCovers'
    BY <1>1, <1>2, <1>3, DiskType DEF AnchorCovers, SavedBefore
  <2>3. QED
    BY <2>1, <2>2
<1>9. QED
  BY <1>1, <1>4, <1>5, <1>6, <1>7, <1>8 DEF LatchInv

LEMMA SaveStoreInv ==
  ASSUME LatchInv, SaveStore
  PROVE  LatchInv'
<1>1. /\ home = "running" /\ UNCHANGED <<router, home, latch, blind>>
      /\ disk.boot_time = latch.boot_time
      /\ disk' = [disk EXCEPT !.record = saving] /\ saving' = Nothing
  BY DEF SaveStore
<1>2. TypeOK /\ SavedBefore /\ AnchorCovers /\ Alone
  BY <1>1, DiskType DEF LatchInv, Alone
<1>3. /\ disk' \in [boot_time : Instant, boot_of : Nat, record : Record]
      /\ disk'.boot_time = disk.boot_time /\ disk'.boot_of = disk.boot_of
      /\ disk'.record = saving /\ saving' \in Record
  BY <1>1, <1>2, DiskType, NothingType DEF TypeOK
<1>4. TypeOK' /\ CounterTrue'
  BY <1>1, <1>2, <1>3, RouterParts DEF TypeOK
<1>5. (RecordTrue(latch.record) /\ RecordTrue(saving) /\ RecordTrue(disk.record))'
  <2>1. RateTrue(Nothing)'
    BY <1>4, NothingRate DEF TypeOK
  <2>2. RecordTrue(saving)'
    BY <1>1, <2>1 DEF RecordTrue, RateTrue, Nothing
  <2>3. (RecordTrue(latch.record) /\ RecordTrue(disk.record))'
    BY <1>1, <1>3 DEF LatchInv, RecordTrue, RateTrue, StoredTrue, Nothing, router
  <2>4. QED
    BY <2>2, <2>3
<1>6. ReadingTrue' /\ ResetNoticed' /\ RecordMissing'
  BY <1>1 DEF LatchInv, ReadingTrue, ResetNoticed, RecordMissing, Nothing, router
<1>7. (Anchored(latch.boot_time, latch.boot_of) /\ Anchored(disk.boot_time, disk.boot_of))'
  BY <1>1, <1>3 DEF LatchInv, Anchored, router
<1>8. SavedBefore' /\ AnchorCovers'
  <2>1. SavedBefore'
    BY <1>1, <1>2, <1>3 DEF SavedBefore
  <2>2. ~blind => disk.boot_of = latch.boot_of
    BY <1>1, SavedEpoch
  <2>3. AnchorCovers'
    BY <1>1, <1>2, <1>3, <2>2, NothingType, DiskType DEF AnchorCovers
  <2>4. QED
    BY <2>1, <2>3
<1>9. QED
  BY <1>1, <1>4, <1>5, <1>6, <1>7, <1>8 DEF LatchInv

(* Nothing is left in memory; what is on the disk is consistent.           *)
LEMMA GoneInv ==
  ASSUME LatchInv, Alone, home' = "stopped", blind' = blind,
         saving' = Nothing, latch' = Setup(None, 0, Nothing),
         disk' \in [boot_time : Instant, boot_of : Nat, record : Record],
         RecordTrue(disk.record)', Anchored(disk.boot_time, disk.boot_of)',
         ~blind => disk'.record.stored_of <= disk'.boot_of
  PROVE  LatchInv'
<1>1. None \in Instant /\ Nothing \in Record
  BY NothingType DEF Instant
<1>2. latch' \in Latch /\ ReadingTrue' /\ ResetNoticed'
  BY <1>1, SetupParts
<1>3. /\ latch'.boot_time = None /\ latch'.boot_of = 0 /\ latch'.record = Nothing
  BY <1>1, SetupParts
<1>4. TypeOK' /\ CounterTrue'
  BY <1>1, <1>2, RouterParts DEF TypeOK, Alone
<1>5. (RecordTrue(latch.record) /\ RecordTrue(saving))'
  <2>1. RateTrue(Nothing)'
    BY <1>4, NothingRate DEF TypeOK
  <2>2. QED
    BY <1>3, <2>1 DEF RecordTrue, RateTrue, Nothing
<1>6. Anchored(latch.boot_time, latch.boot_of)'
  <2>1. epoch' >= 1 /\ epoch' \in Nat
    BY <1>4 DEF CounterTrue, TypeOK
  <2>2. QED
    BY <1>3, <2>1 DEF Anchored
<1>7. Stopped'
  BY DEF Stopped, Setup, Nothing
<1>8. QED
  BY <1>2, <1>4, <1>5, <1>6, <1>7 DEF LatchInv

LEMMA StopInv ==
  ASSUME LatchInv, Stop
  PROVE  LatchInv'
<1>1. /\ home = "running" /\ home' = "stopped" /\ UNCHANGED <<router, blind>>
      /\ saving' = Nothing /\ latch' = Setup(None, 0, Nothing)
      /\ disk' = [boot_time |-> latch.boot_time, boot_of |-> latch.boot_of,
                  record |-> IF saving # Nothing THEN saving ELSE disk.record]
  BY DEF Stop
<1>2. Alone /\ SavedBefore /\ AnchorCovers
  BY <1>1, DiskType DEF LatchInv, Alone
<1>3. /\ disk'.boot_time = latch.boot_time /\ disk'.boot_of = latch.boot_of
      /\ disk'.record \in {saving, disk.record}
      /\ disk' \in [boot_time : Instant, boot_of : Nat, record : Record]
  BY <1>1, DiskType
<1>4. RecordTrue(disk.record)'
  BY <1>1, <1>3 DEF LatchInv, RecordTrue, RateTrue, StoredTrue, Nothing, router
<1>5. Anchored(disk.boot_time, disk.boot_of)'
  BY <1>1, <1>3 DEF LatchInv, Anchored, router
<1>6. ~blind => disk'.record.stored_of <= disk'.boot_of
  <2>1. disk.record.stored_of \in Nat
    BY DiskType DEF Record
  <2>2. QED
    BY <1>2, <1>3, <2>1, DiskType DEF AnchorCovers, SavedBefore
<1>7. QED
  BY <1>1, <1>2, <1>3, <1>4, <1>5, <1>6, GoneInv

LEMMA CrashInv ==
  ASSUME LatchInv, Crash
  PROVE  LatchInv'
<1>1. /\ home = "running" /\ home' = "stopped" /\ UNCHANGED <<router, disk, blind>>
      /\ saving' = Nothing /\ latch' = Setup(None, 0, Nothing)
  BY DEF Crash
<1>2. Alone /\ AnchorCovers
  BY <1>1, DiskType DEF LatchInv, Alone
<1>3. disk' \in [boot_time : Instant, boot_of : Nat, record : Record]
  BY <1>1 DEF LatchInv, TypeOK
<1>4. RecordTrue(disk.record)'
  BY <1>1 DEF LatchInv, RecordTrue, RateTrue, StoredTrue, Nothing, router
<1>5. Anchored(disk.boot_time, disk.boot_of)'
  BY <1>1 DEF LatchInv, Anchored, router
<1>6. ~blind => disk'.record.stored_of <= disk'.boot_of
  BY <1>1, <1>2 DEF AnchorCovers
<1>7. QED
  BY <1>1, <1>2, <1>3, <1>4, <1>5, <1>6, GoneInv

(* A latch that is set up from an anchor it may have, with the record of   *)
(* the disk or none.                                                       *)
LEMMA LoadsInv ==
  ASSUME LatchInv, NEW boot, NEW of, Loads(boot, of),
         UNCHANGED <<router, saving, disk>>, home' = "running",
         boot \in Instant, of \in Nat, Anchored(boot, of),
         disk.boot_of <= of,
         ~blind /\ disk.boot_of \in 1..(of - 1) => disk.boot_time < boot,
         ~blind => disk.record.stored_of <= disk.boot_of /\ saving.stored_of <= of
  PROVE  LatchInv'
<1>1. PICK record \in {disk.record, Nothing} :
        /\ latch' = Setup(boot, of, record)
        /\ blind' = (blind \/ (record = Nothing /\ boot # None))
  BY DEF Loads
<1>2. record \in Record /\ Alone
  BY <1>1, DiskType, NothingType DEF Alone
<1>3. latch' \in Latch /\ ReadingTrue' /\ ResetNoticed'
  BY <1>1, <1>2, SetupParts
<1>4. latch'.boot_time = boot /\ latch'.boot_of = of /\ latch'.record = record
  BY <1>1, <1>2, SetupParts
<1>5. TypeOK' /\ CounterTrue'
  BY <1>2, <1>3, RouterParts DEF LatchInv, TypeOK, Alone
<1>6. (RecordTrue(latch.record) /\ RecordTrue(saving) /\ RecordTrue(disk.record))'
  <2>1. RateTrue(Nothing)'
    BY <1>5, NothingRate DEF TypeOK
  <2>2. (RecordTrue(saving) /\ RecordTrue(disk.record))'
    BY <1>2 DEF LatchInv, RecordTrue, RateTrue, StoredTrue, Nothing, router, Alone
  <2>3. CASE record = Nothing
    BY <1>4, <2>1, <2>2, <2>3 DEF RecordTrue, RateTrue, Nothing
  <2>4. CASE record = disk.record
    <3>1. latch'.record = disk'.record
      BY <1>4, <2>4
    <3>2. QED
      BY <2>2, <3>1 DEF RecordTrue, RateTrue, StoredTrue, Nothing
  <2>5. QED
    BY <1>1, <2>3, <2>4
<1>7. (Anchored(latch.boot_time, latch.boot_of) /\ Anchored(disk.boot_time, disk.boot_of))'
  BY <1>2, <1>4 DEF LatchInv, Anchored, router, Alone
<1>8. SavedBefore'
  BY <1>2, <1>4 DEF SavedBefore, Alone
<1>9. AnchorCovers'
  <2>1. record.stored_of = 0 \/ record.stored_of = disk.record.stored_of
    BY <1>1, NothingType
  <2>2. disk.record.stored_of \in Nat
    BY DiskType DEF Record
  <2>3. QED
    BY <1>2, <1>4, <2>1, <2>2, DiskType DEF AnchorCovers, Alone
<1>10. RecordMissing'
  <2>1. latch'.record = Nothing /\ ~blind' => of = 0
    BY <1>1, <1>4 DEF Anchored
  <2>2. QED
    BY <1>4, <2>1 DEF RecordMissing, Nothing
<1>11. QED
  BY <1>3, <1>5, <1>6, <1>7, <1>8, <1>9, <1>10 DEF LatchInv

LEMMA StartInv ==
  ASSUME LatchInv, Start
  PROVE  LatchInv'
<1>1. /\ home = "stopped" /\ home' = "running" /\ UNCHANGED <<router, saving, disk>>
      /\ Loads(disk.boot_time, disk.boot_of)
  BY DEF Start
<1>2. saving.stored_of = 0 /\ (~blind => disk.record.stored_of <= disk.boot_of)
  BY <1>1, NothingType DEF LatchInv, Stopped
<1>3. Anchored(disk.boot_time, disk.boot_of)
  BY DEF LatchInv
<1>4. disk.boot_of <= disk.boot_of /\ disk.boot_of \notin 1..(disk.boot_of - 1)
  BY DiskType
<1>5. QED
  BY <1>1, <1>2, <1>3, <1>4, DiskType, LoadsInv

LEMMA ReloadInv ==
  ASSUME LatchInv, Reload
  PROVE  LatchInv'
<1>1. /\ home = "running" /\ home' = "running" /\ UNCHANGED <<router, saving, disk>>
      /\ Loads(latch.boot_time, latch.boot_of)
  BY DEF Reload
<1>2. /\ SavedBefore /\ AnchorCovers /\ Anchored(latch.boot_time, latch.boot_of)
  BY <1>1 DEF LatchInv
<1>3. QED
  BY <1>1, <1>2, DiskType, LoadsInv DEF SavedBefore, AnchorCovers

LEMMA LatchNextInv == LatchInv /\ [Next]_vars => LatchInv'
<1> SUFFICES ASSUME LatchInv, [Next]_vars PROVE LatchInv'
  OBVIOUS
<1>1. CASE UNCHANGED vars
  <2>1. Kept /\ UNCHANGED router
    BY <1>1 DEF vars, Kept
  <2>2. TypeOK' /\ CounterTrue'
    BY <2>1 DEF LatchInv, TypeOK, CounterTrue, Kept, router
  <2>3. (RecordTrue(latch.record) /\ RecordTrue(saving) /\ RecordTrue(disk.record))'
    BY <2>1 DEF LatchInv, RecordTrue, RateTrue, StoredTrue, Nothing, Kept, router
  <2>4. ReadingTrue'
    BY <2>1 DEF LatchInv, ReadingTrue, Nothing, Kept, router
  <2>5. (Anchored(latch.boot_time, latch.boot_of) /\ Anchored(disk.boot_time, disk.boot_of))'
    BY <2>1 DEF LatchInv, Anchored, Kept, router
  <2>6. QED
    BY <2>1, <2>2, <2>3, <2>4, <2>5, KeptParts DEF LatchInv
<1>2. CASE Next
  BY <1>2, WaitInv, ResetsInv, PollInv, SaveEntryInv, SaveStoreInv, StopInv, CrashInv,
     StartInv, ReloadInv DEF Next
<1>3. QED
  BY <1>1, <1>2

LEMMA LatchInvariant == Spec => []LatchInv
BY LatchInitInv, LatchNextInv, PTL DEF Spec

-----------------------------------------------------------------------------
(* The results.                                                            *)

(* Every value the latch, its record and its saved copies take is of the   *)
(* kind the code declares for it; the sums never pass their cap            *)
(* (`_UptimeLatch`, `_record_drift_sample`).                               *)
THEOREM LatchTypeCorrect == Spec => []TypeOK
BY LatchInvariant, PTL DEF LatchInv

(* No reboot stays hidden: while the anchor is kept, the last reading was  *)
(* of the anchor's own epoch, across polls, reloads, stops and crashes     *)
(* (`_reconcile_startup_uptime`).                                          *)
THEOREM ResetNoticedHolds == Spec => []ResetNoticed
BY LatchInvariant, PTL DEF LatchInv

(* The anchor of a clock is the instant its counter started, late by no    *)
(* more than what the counter lost (`_derived_boot`).                      *)
THEOREM AnchorTrueHolds == Spec => []AnchorTrue
<1>1. LatchInv => AnchorTrue
  <2> SUFFICES ASSUME LatchInv, ~pauses, ~blind, latch.boot_of = epoch
               PROVE  100 * (latch.boot_time - start) \in -100..(loss * (now - start) + 100)
    BY DEF AnchorTrue
  <2>1. /\ now \in Nat /\ start \in Nat /\ counter \in Nat /\ loss \in 0..19 /\ epoch >= 1
        /\ latch.boot_time \in Int \cup {None} /\ start <= now
    BY WaitsAssumption, DiskType DEF LatchInv, TypeOK, CounterTrue, Instant
  <2>2. /\ latch.boot_time # None /\ start <= latch.boot_time
        /\ latch.boot_time + counter <= now
    BY <2>1 DEF LatchInv, Anchored
  <2>3. 100 * counter = (100 - loss) * (now - start)
    BY DEF LatchInv, CounterTrue
  <2>4. (100 - loss) * (now - start) = 100 * (now - start) - loss * (now - start)
    BY <2>1
  <2>5. loss * (now - start) \in Int /\ latch.boot_time \in Int
    BY <2>1, <2>2
  <2>6. 100 * (latch.boot_time - start) <= loss * (now - start)
    BY <2>1, <2>2, <2>3, <2>4, <2>5
  <2>7. QED
    BY <2>1, <2>2, <2>5, <2>6
<1>2. QED
  BY <1>1, LatchInvariant, PTL

(* A counter that pauses is not taken for reset within its epoch.          *)
LEMMA PausedNotReset ==
  ASSUME LatchInv, home = "running", pauses, ~blind, latch.boot_of = epoch, Informed
  PROVE  ~Resets(Sampled(latch))
<1> DEFINE l == Sampled(latch)
<1>1. /\ ReadingTrue /\ ResetNoticed /\ RecordMissing /\ RecordTrue(latch.record)
      /\ counter \in Nat /\ epoch >= 1
  BY DEF LatchInv, TypeOK, CounterTrue
<1>2. /\ SameReading(l, latch) /\ l.reconciled = latch.reconciled
      /\ ~latch.reconciled => l = latch
  BY SampledIs
<1> HIDE DEF l
<1>3. CASE latch.reconciled
  <2>1. latch.last_counter \in Nat /\ latch.last_counter <= counter
    BY <1>1, <1>3 DEF ReadingTrue, ResetNoticed
  <2>2. ~RuntimeReset(l)
    BY <1>1, <1>2, <2>1 DEF RuntimeReset, SameReading, UPTIME_REBOOT_MARGIN
  <2>3. QED
    BY <1>2, <1>3, <2>2 DEF Resets, l
<1>4. CASE ~latch.reconciled
  <2>1. latch.record # Nothing
    BY <1>1, <1>4 DEF RecordMissing
  <2>2. StoredTrue(latch.record)
    BY <1>1, <2>1 DEF RecordTrue
  <2>3. latch.record.stored_of = epoch
    BY <2>2 DEF StoredTrue, Informed
  <2>4. latch.record.stored_counter \in Nat /\ latch.record.stored_counter <= counter
    BY <2>2, <2>3 DEF StoredTrue
  <2>5. ~FloorReset(latch) /\ latch.record.stored_counter # None
    BY <1>1, <2>4, WaitsAssumption DEF FloorReset
  <2>6. ~StartupReset(latch)
    BY <2>5 DEF StartupReset
  <2>7. QED
    BY <1>2, <1>4, <2>6 DEF Resets, l
<1>5. QED
  BY <1>3, <1>4

LEMMA PollMoves ==
  ASSUME LatchInv, Poll, ~blind, latch.boot_of = epoch, Informed
  PROVE  latch'.boot_time - latch.boot_time <= 1
<1> DEFINE l == Sampled(latch)
<1>1. /\ TypeOK /\ CounterTrue /\ ResetNoticed /\ home = "running" /\ epoch >= 1
      /\ latch.boot_time \in Int \cup {None} /\ start \in Nat
  BY DiskType DEF LatchInv, Poll, TypeOK, CounterTrue, Instant
<1>2. latch.boot_time \in Int /\ start <= latch.boot_time
  BY <1>1 DEF LatchInv, Anchored
<1>3. PollLeaves(l)
  BY PollIs
<1>4. latch.reconciled => ~Unseen
  BY <1>1 DEF Unseen, ResetNoticed
<1>5. l \in Latch /\ RateTrue(l.record) /\ (RateKnown(latch) => RateKnown(l))
  BY <1>4, SampledIs DEF LatchInv, RecordTrue
<1>6. pauses => ~Resets(l)
  BY <1>1, PausedNotReset
<1>7. ~pauses => DerivedBoot(l) = start
  <2>1. l.record \in Record
    BY <1>5 DEF Latch
  <2>2. ~pauses => loss = 0 \/ RateKnown(l)
    BY <1>5 DEF Informed
  <2>3. QED
    BY <1>1, <1>5, <2>1, <2>2, DerivedIs
<1> HIDE DEF l
<1>8. CASE SameAnchor(latch', latch)
  BY <1>2, <1>8 DEF SameAnchor
<1>9. CASE (Resets(l) \/ RateKnown(l)) /\ latch'.boot_time = DerivedBoot(l)
  <2>1. ~pauses
    BY <1>6, <1>9 DEF RateKnown
  <2>2. QED
    BY <1>1, <1>2, <1>7, <1>9, <2>1
<1>10. QED
  BY <1>3, <1>8, <1>9 DEF PollLeaves

(* No reboot is invented: within an epoch no step moves the anchor later   *)
(* than one unit, once a clock's rate is known, or the record of a counter *)
(* that pauses was kept (`_check_anchor_plausible`, `_floor_test`).        *)
THEOREM MovesMeanResetHolds == Spec => MovesMeanReset
<1> DEFINE Still == ~blind /\ latch.boot_of = epoch /\ latch'.boot_of = epoch /\ Informed
                      => latch'.boot_time - latch.boot_time <= 1
<1>1. LatchInv /\ [Next]_vars => Still
  <2> SUFFICES ASSUME LatchInv, [Next]_vars, ~blind, latch.boot_of = epoch,
                      latch'.boot_of = epoch, Informed
               PROVE  latch'.boot_time - latch.boot_time <= 1
    OBVIOUS
  <2>1. epoch >= 1 /\ epoch \in Nat /\ latch.boot_time \in Int
    <3>1. epoch >= 1 /\ latch.boot_time \in Int \cup {None} /\ epoch \in Nat
      BY DiskType DEF LatchInv, CounterTrue, Instant
    <3>2. QED
      BY <3>1 DEF LatchInv, Anchored
  <2>2. CASE latch'.boot_time = latch.boot_time
    BY <2>1, <2>2
  <2>3. CASE UNCHANGED vars
    BY <2>2, <2>3 DEF vars
  <2>4. CASE Wait \/ RouterResets \/ SaveEntry \/ SaveStore
    BY <2>2, <2>4 DEF Wait, RouterResets, SaveEntry, SaveStore
  <2>5. CASE Poll
    BY <2>5, PollMoves
  <2>6. CASE Stop \/ Crash
    <3>1. latch' = Setup(None, 0, Nothing)
      BY <2>6 DEF Stop, Crash
    <3>2. latch'.boot_of = 0
      BY <3>1 DEF Setup
    <3>3. QED
      BY <2>1, <3>2
  <2>7. CASE Start
    <3>1. latch = Setup(None, 0, Nothing)
      BY <2>7 DEF Start, LatchInv, Stopped
    <3>2. latch.boot_of = 0
      BY <3>1 DEF Setup
    <3>3. QED
      BY <2>1, <3>2
  <2>8. CASE Reload
    <3>1. PICK record \in {disk.record, Nothing} :
            latch' = Setup(latch.boot_time, latch.boot_of, record)
      BY <2>8 DEF Reload, Loads
    <3>2. latch'.boot_time = latch.boot_time
      BY <3>1 DEF Setup
    <3>3. QED
      BY <2>2, <3>2
  <2>9. QED
    BY <2>3, <2>4, <2>5, <2>6, <2>7, <2>8 DEF Next
<1>2. QED
  BY <1>1, LatchInvariant, PTL DEF Spec, MovesMeanReset
=============================================================================
