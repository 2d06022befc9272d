----------------------------- MODULE Synchronizer -----------------------------
(***************************************************************************)
(* Clock synchronization: Synchronizer (synchronizer.rs) and the           *)
(* ClockManager (clock_manager.rs) behind its asynchronous lock.           *)
(*                                                                         *)
(* A call of synchronize() or update() finds the flag up, then waits for   *)
(* the lock and does the rest while it has it: two steps, between which    *)
(* the session may be stopped and another one started.  start() is two     *)
(* steps as well: it raises the flag, then waits for the lock and resets.  *)
(*                                                                         *)
(* Offsets are integers of one unit, small against the threshold.  The     *)
(* drift estimator's regression is any member of Estimates once it has two *)
(* samples.                                                                *)
(***************************************************************************)
EXTENDS Integers

CONSTANTS
  Syncers,         \* callers of synchronize()
  Updaters,        \* callers of update()
  Measurements,    \* host timestamp less local timestamp, as it may be offered
  Estimates,       \* drift rates the regression may yield
  MaxOffset,       \* config.max_allowed_offset
  MaxDrift,        \* config.max_drift_ppm
  RateNum, RateDen,\* config.correction_rate
  MaxStep,         \* config.max_correction_step
  Threshold,       \* config.resync_threshold
  Window,          \* config.drift_window_samples
  MaxStarts,       \* bound: calls of start()
  MaxSyncs         \* bound: calls of synchronize()

\* SyncConfig::validate, and the types of its fields.
validate ==
  /\ MaxOffset \in Nat \ {0} /\ MaxDrift \in Nat \ {0}
  /\ RateDen \in Nat \ {0} /\ RateNum \in 1..RateDen
  /\ MaxStep \in Nat \ {0} /\ Threshold \in 1..MaxOffset
  /\ Window \in Nat \ {0, 1}

ASSUME SyncAssumption ==
  /\ validate
  /\ Measurements \subseteq Int /\ Estimates \subseteq Int /\ 0 \in Estimates
  /\ MaxStarts \in Nat /\ MaxSyncs \in Nat
  /\ Syncers \cap Updaters = {}

VARIABLES
  running,      \* Synchronizer.running
  resetting,    \* calls of start() that have raised it and not reset the clock
  offset,       \* ClockManager.current_offset_ms
  target,       \* ClockManager.target_offset_ms
  drift,        \* ClockManager.current_drift_ppm
  has_synced,   \* ClockManager.has_synced
  samples,      \* how many samples the drift estimator holds
  stats,        \* StatisticsTracker
  stage,        \* where each call is
  measured,     \* the measurement each call of synchronize() brings
  \* Bounds and history:
  starts, syncs,
  applied       \* measurements apply_offset() took since the reset

clock == <<offset, target, drift, has_synced, samples, stats, applied>>
calls == <<stage, measured, syncs>>
session == <<running, resetting, starts>>
vars == <<clock, calls, session>>

NoCounts == [corrections |-> 0, resyncs |-> 0, successes |-> 0, failures |-> 0]

Init ==
  /\ running = FALSE /\ resetting = 0 /\ starts = 0
  /\ offset = 0 /\ target = 0 /\ drift = 0
  /\ has_synced = FALSE /\ samples = 0
  /\ stats = NoCounts /\ applied = {}
  /\ stage = [c \in Syncers \cup Updaters |-> "idle"]
  /\ measured = [c \in Syncers |-> 0]
  /\ syncs = 0

AtMost(a, b) == IF a <= b THEN a ELSE b
Magnitude(a) == IF a < 0 THEN -a ELSE a

-----------------------------------------------------------------------------
(* start() and stop() *)

Start ==
  /\ ~running
  /\ starts < MaxStarts
  /\ running' = TRUE
  /\ resetting' = resetting + 1
  /\ starts' = starts + 1
  /\ UNCHANGED <<clock, calls>>

\* Mutated form of ResetClock: the target survives.
ResetKeepsTarget ==
  /\ resetting > 0
  /\ resetting' = resetting - 1
  /\ offset' = 0 /\ drift' = 0 /\ has_synced' = FALSE /\ samples' = 0
  /\ stats' = NoCounts /\ applied' = {}
  /\ UNCHANGED <<target, running, starts, calls>>

\* ... the clock of the new session starts from nothing.
ResetClock ==
  /\ resetting > 0
  /\ resetting' = resetting - 1
  /\ offset' = 0 /\ target' = 0 /\ drift' = 0
  /\ has_synced' = FALSE /\ samples' = 0
  /\ stats' = NoCounts /\ applied' = {}
  /\ UNCHANGED <<running, starts, calls>>

Stop ==
  /\ running
  /\ running' = FALSE
  /\ UNCHANGED <<clock, calls, resetting, starts>>

-----------------------------------------------------------------------------
(* ClockManager *)

InRange(measurement) == Magnitude(measurement) <= MaxOffset

\* Mutated form of Step: as far as is allowed, whatever the distance.
StepAllTheWay(delta) == IF delta < 0 THEN -MaxStep ELSE MaxStep

\* The correction for a distance: its part correction_rate, MaxStep at most.
\* It is rounded up, because the code's is zero only if the distance is.
Step(delta) ==
  LET size == AtMost((Magnitude(delta) * RateNum + RateDen - 1) \div RateDen, MaxStep)
  IN  IF delta < 0 THEN -size ELSE size

Within(o, t) == Magnitude(t - o) <= Threshold

\* is_synchronized()
IsSynchronized == has_synced /\ Within(offset, target)

\* Mutated form of Seed: the first measurement is not told from the others.
SeedAlways(measurement) == measurement

\* The applied offset after apply_offset(): the first measurement of a session
\* is applied at once.
Seed(measurement) == IF has_synced THEN offset ELSE measurement

\* apply_offset(), except for the offset itself.
Apply(measurement) ==
  /\ target' = measurement
  /\ has_synced' = TRUE
  /\ samples' = AtMost(samples + 1, Window)
  /\ applied' = applied \cup {measurement}

\* correct_drift() from an offset o to a target t, and what it adds to the
\* counters: a correction unless there is nothing to correct, and a
\* resynchronization if the step leaves the threshold.
Corrected(o, t) == IF o = t THEN o ELSE o + Step(t - o)

CountCorrection(o, t, counts) ==
  IF o = t THEN counts
  ELSE [counts EXCEPT !.corrections = @ + 1,
                      !.resyncs = IF Within(o, t) /\ ~Within(Corrected(o, t), t)
                                  THEN @ + 1 ELSE @]

\* What the regression may yield: nothing with fewer than two samples.
Regression == IF samples + 1 < 2 THEN {0} ELSE Estimates

-----------------------------------------------------------------------------
(* synchronize() *)

GoTo(c, where) == stage' = [stage EXCEPT ![c] = where]

BeginSync(c, measurement) ==
  /\ stage[c] = "idle"
  /\ syncs < MaxSyncs
  /\ running
  /\ measured' = [measured EXCEPT ![c] = measurement]
  /\ syncs' = syncs + 1
  /\ GoTo(c, "locking")
  /\ UNCHANGED <<clock, session>>

EndSync(c) ==
  /\ GoTo(c, "idle")
  /\ measured' = [measured EXCEPT ![c] = 0]
  /\ UNCHANGED <<syncs, session>>

\* The measurement is out of range, and nothing but a counter changes ...
RefuseOffset(c) ==
  /\ stage[c] = "locking"
  /\ ~InRange(measured[c])
  /\ stats' = [stats EXCEPT !.failures = @ + 1]
  /\ EndSync(c)
  /\ UNCHANGED <<offset, target, drift, has_synced, samples, applied>>

\* ... or it is applied, and then the drift is found out of range ...
RefuseDrift(c, estimate) ==
  /\ stage[c] = "locking"
  /\ InRange(measured[c])
  /\ Magnitude(estimate) > MaxDrift
  /\ Apply(measured[c])
  /\ offset' = Seed(measured[c])
  /\ drift' = estimate
  /\ stats' = [stats EXCEPT !.failures = @ + 1]
  /\ EndSync(c)

\* ... or the offset is corrected a step towards it.
Accept(c, estimate) ==
  /\ stage[c] = "locking"
  /\ InRange(measured[c])
  /\ Magnitude(estimate) <= MaxDrift
  /\ Apply(measured[c])
  /\ drift' = estimate
  /\ LET o == Seed(measured[c])
     IN  /\ offset' = Corrected(o, measured[c])
         /\ stats' = [CountCorrection(o, measured[c], stats) EXCEPT !.successes = @ + 1]
  /\ EndSync(c)

Sync(c) ==
  \/ RefuseOffset(c)
  \/ \E estimate \in Regression : RefuseDrift(c, estimate) \/ Accept(c, estimate)

-----------------------------------------------------------------------------
(* update() *)

BeginUpdate(c) ==
  /\ stage[c] = "idle"
  /\ running
  /\ GoTo(c, "locking")
  /\ UNCHANGED <<clock, session, measured, syncs>>

\* Mutated form of Update: it waits for a synchronized clock.
UpdateIfSynchronized(c) ==
  /\ stage[c] = "locking"
  /\ IF IsSynchronized
     THEN /\ offset' = Corrected(offset, target)
          /\ stats' = CountCorrection(offset, target, stats)
     ELSE UNCHANGED <<offset, stats>>
  /\ GoTo(c, "idle")
  /\ UNCHANGED <<target, drift, has_synced, samples, applied, session, measured, syncs>>

Update(c) ==
  /\ stage[c] = "locking"
  /\ offset' = Corrected(offset, target)
  /\ stats' = CountCorrection(offset, target, stats)
  /\ GoTo(c, "idle")
  /\ UNCHANGED <<target, drift, has_synced, samples, applied, session, measured, syncs>>

Next ==
  \/ Start \/ ResetClock \/ Stop
  \/ \E c \in Syncers : Sync(c) \/ \E m \in Measurements : BeginSync(c, m)
  \/ \E c \in Updaters : BeginUpdate(c) \/ Update(c)

Spec == Init /\ [][Next]_vars

\* Calls that wait for the lock get it, and update() is called again and again
\* while the synchronizer runs, as its documentation asks (once per playback
\* frame, synchronizer.rs:133-137).  Nothing is assumed of synchronize().
Fairness ==
  /\ WF_vars(ResetClock)
  /\ \A c \in Syncers : WF_vars(Sync(c))
  /\ \A c \in Updaters : WF_vars(BeginUpdate(c)) /\ WF_vars(Update(c))

FairSpec == Spec /\ Fairness

-----------------------------------------------------------------------------
(* Properties *)

Allowed == (-MaxOffset)..MaxOffset

TypeOK ==
  /\ running \in BOOLEAN /\ resetting \in Nat /\ starts \in 0..MaxStarts
  /\ offset \in Allowed /\ target \in Allowed
  /\ drift \in Estimates
  /\ has_synced \in BOOLEAN
  /\ samples \in 0..Window
  /\ stats \in [corrections : Nat, resyncs : Nat, successes : Nat, failures : Nat]
  /\ stage \in [Syncers \cup Updaters -> {"idle", "locking"}]
  /\ measured \in [Syncers -> Measurements \cup {0}]
  /\ syncs \in 0..MaxSyncs
  /\ applied \subseteq Allowed

\* A session that has not measured anything yet has an offset of nothing, also
\* when calls of the session before it end in it: nothing is corrected towards
\* a target nobody measured (synchronizer.rs:66-74, clock_manager.rs:277-287).
UnsyncedIsBlank ==
  ~has_synced => /\ offset = 0 /\ target = 0 /\ samples = 0 /\ applied = {}
                 /\ stats.corrections = 0 /\ stats.successes = 0

\* The applied offset lies between two offsets that were measured since the
\* reset: no correction overshoots, whatever the targets were on the way
\* (clock_manager.rs:204-232).
OffsetWithinMeasured ==
  has_synced => /\ target \in applied
                /\ \E low, high \in applied : low <= offset /\ offset <= high

Clock == INSTANCE SteadyClock

\* Whoever reads the offset sees a clock that takes the first measurement as it
\* is, and then moves by max_correction_step at most, towards the newest one and
\* never beyond it, whatever calls and sessions overlap (clock_manager.rs:157-232).
ImplementsSteadyClock == Clock!Spec

\* A session that is left running ends up synchronized once measurements cease
\* (synchronizer.rs:133-148).
Converges ==
  <>[](running /\ resetting = 0 /\ has_synced) => <>[]IsSynchronized

=============================================================================
