------------------------- MODULE SynchronizerProofs -------------------------
(***************************************************************************)
(* Theorems about Synchronizer, for every configuration that               *)
(* SyncConfig::validate accepts, any number of callers and any             *)
(* measurements: whatever they offer, the clock is a SteadyClock, and its  *)
(* offset stays within what was measured.                                  *)
(***************************************************************************)
EXTENDS Synchronizer, TLAPS

\* A quotient that is rounded up is no more than what it is rounded up to.
LEMMA RoundedUp ==
  ASSUME NEW a \in Nat, NEW b \in Nat \ {0}, NEW q \in Nat, a <= q * b
  PROVE  /\ (a + b - 1) \div b \in Nat
         /\ (a + b - 1) \div b <= q
         /\ a > 0 => (a + b - 1) \div b > 0
<1> DEFINE n == a + b - 1
           d == n \div b
<1>1. n \in Nat /\ d \in Int /\ d * b <= n /\ n < (d + 1) * b
  OBVIOUS
<1>2. d >= 0
  BY <1>1
<1>3. d <= q
  <2> SUFFICES ASSUME d >= q + 1 PROVE FALSE
    BY <1>1
  <2>1. d * b >= (q + 1) * b
    BY <1>1
  <2>2. (q + 1) * b = q * b + b
    OBVIOUS
  <2> QED
    BY <1>1, <2>1, <2>2
<1>4. a > 0 => d > 0
  BY <1>1
<1> QED
  BY <1>1, <1>2, <1>3, <1>4

\* A correction is small, in the direction of the distance, no longer than it,
\* and nothing only where the distance is.
LEMMA StepIsGentle ==
  ASSUME NEW delta \in Int
  PROVE  /\ Step(delta) \in Int
         /\ delta >= 0 => 0 <= Step(delta) /\ Step(delta) <= delta
         /\ delta <= 0 => delta <= Step(delta) /\ Step(delta) <= 0
         /\ delta # 0 => Step(delta) # 0
         /\ -MaxStep <= Step(delta) /\ Step(delta) <= MaxStep
<1> DEFINE m == Magnitude(delta)
           part == (m * RateNum + RateDen - 1) \div RateDen
<1>1. /\ RateDen \in Nat \ {0} /\ RateNum \in 1..RateDen /\ MaxStep \in Nat \ {0}
  BY SyncAssumption DEF SyncAssumption, validate
<1>2. m \in Nat /\ (delta # 0 => m > 0)
  BY DEF Magnitude
<1>3. m * RateNum \in Nat /\ m * RateNum <= m * RateDen /\ (m > 0 => m * RateNum > 0)
  BY <1>1, <1>2
<1>4. part \in Nat /\ part <= m /\ (m > 0 => part > 0)
  <2> HIDE DEF m
  <2> QED
    BY <1>1, <1>2, <1>3, RoundedUp
<1>5. Step(delta) = IF delta < 0 THEN -AtMost(part, MaxStep) ELSE AtMost(part, MaxStep)
  BY DEF Step
<1>6. m = IF delta < 0 THEN -delta ELSE delta
  BY DEF Magnitude
<1> HIDE DEF m, part
<1> QED
  BY <1>1, <1>2, <1>4, <1>5, <1>6 DEF AtMost

-----------------------------------------------------------------------------
(* What a correction does *)

\* A correction leads from o to a number between o and t, near o, and to o only
\* if o is t.
LEMMA CorrectedIsBetween ==
  ASSUME NEW o \in Int, NEW t \in Int
  PROVE  /\ Corrected(o, t) \in Int
         /\ o <= t => o <= Corrected(o, t) /\ Corrected(o, t) <= t
         /\ t <= o => t <= Corrected(o, t) /\ Corrected(o, t) <= o
         /\ o # t => Corrected(o, t) # o
         /\ o - MaxStep <= Corrected(o, t) /\ Corrected(o, t) <= o + MaxStep
<1>1. MaxStep \in Nat
  BY SyncAssumption DEF SyncAssumption, validate
<1>2. CASE o = t
  BY <1>1, <1>2 DEF Corrected
<1>3. CASE o # t
  <2>1. Corrected(o, t) = o + Step(t - o)
    BY <1>3 DEF Corrected
  <2>2. t - o \in Int /\ t - o # 0
    BY <1>3
  <2> QED
    BY <1>1, <2>1, <2>2, StepIsGentle
<1> QED
  BY <1>2, <1>3

\* What is allowed, in other words.
LEMMA AllowedMeans ==
  /\ MaxOffset \in Nat /\ 0 \in Allowed
  /\ \A x \in Allowed : x \in Int
  /\ \A x \in Int : x \in Allowed <=> -MaxOffset <= x /\ x <= MaxOffset
<1>1. MaxOffset \in Nat
  BY SyncAssumption DEF SyncAssumption, validate
<1>2. -MaxOffset \in Int /\ -MaxOffset <= 0
  BY <1>1
<1> QED
  BY <1>1, <1>2 DEF Allowed

\* It is a step of the abstract clock.
LEMMA CorrectedIsTowards ==
  ASSUME NEW o \in Allowed, NEW t \in Allowed
  PROVE  Corrected(o, t) \in Clock!Towards(o, t)
<1> DEFINE n == Corrected(o, t)
<1>1. MaxOffset \in Nat /\ MaxStep \in Nat
  BY SyncAssumption DEF SyncAssumption, validate
<1>2. o \in Int /\ t \in Int
  BY AllowedMeans
<1>3. /\ n \in Int
      /\ o <= t => o <= n /\ n <= t
      /\ t <= o => t <= n /\ n <= o
      /\ o # t => n # o
      /\ o - MaxStep <= n /\ n <= o + MaxStep
  BY <1>2, CorrectedIsBetween
<1> HIDE DEF n
<1>4. n \in Allowed
  <2>1. -MaxOffset <= o /\ o <= MaxOffset /\ -MaxOffset <= t /\ t <= MaxOffset
    BY <1>2, AllowedMeans
  <2>2. -MaxOffset <= n /\ n <= MaxOffset
    BY <1>1, <1>2, <1>3, <2>1
  <2> QED
    BY <1>3, <2>2, AllowedMeans
<1>5. /\ Clock!Distance(o, n) <= MaxStep
      /\ Clock!Distance(o, n) + Clock!Distance(n, t) = Clock!Distance(o, t)
  BY <1>1, <1>2, <1>3 DEF Clock!Distance
<1>6. n \in Clock!Towards(o, t)
  BY <1>3, <1>4, <1>5 DEF Clock!Towards, Clock!Allowed, Allowed
<1> QED
  BY <1>6 DEF n

-----------------------------------------------------------------------------
(* The clock keeps its range, whatever is offered *)

ClockInRange ==
  /\ offset \in Allowed /\ target \in Allowed
  /\ has_synced \in BOOLEAN
  /\ measured \in [Syncers -> Int]

LEMMA InitInRange == Init => ClockInRange
BY AllowedMeans DEF Init, ClockInRange

\* A measurement in range, and the offset it is corrected from, are allowed.
LEMMA SeedIsAllowed ==
  ASSUME ClockInRange, NEW c \in Syncers, InRange(measured[c])
  PROVE  measured[c] \in Allowed /\ Seed(measured[c]) \in Allowed
<1>1. MaxOffset \in Nat /\ measured[c] \in Int
  BY SyncAssumption DEF SyncAssumption, validate, ClockInRange
<1>2. measured[c] \in Allowed
  BY <1>1 DEF InRange, Magnitude, Allowed
<1> QED
  BY <1>2 DEF Seed, ClockInRange

LEMMA StepKeepsRange == ClockInRange /\ [Next]_vars => ClockInRange'
<1> SUFFICES ASSUME ClockInRange, [Next]_vars PROVE ClockInRange'
  OBVIOUS
<1>1. CASE Start \/ Stop
  BY <1>1 DEF Start, Stop, clock, calls, ClockInRange
<1>2. CASE ResetClock
  BY <1>2, AllowedMeans DEF ResetClock, calls, ClockInRange
<1>3. ASSUME NEW c \in Syncers, NEW m \in Measurements, BeginSync(c, m)
      PROVE  ClockInRange'
  BY <1>3, SyncAssumption DEF SyncAssumption, BeginSync, clock, ClockInRange
<1>4. ASSUME NEW c \in Syncers, RefuseOffset(c) PROVE ClockInRange'
  BY <1>4 DEF RefuseOffset, EndSync, ClockInRange
<1>5. ASSUME NEW c \in Syncers, NEW e \in Regression, RefuseDrift(c, e)
      PROVE  ClockInRange'
  BY <1>5, SeedIsAllowed DEF RefuseDrift, Apply, EndSync, ClockInRange
<1>6. ASSUME NEW c \in Syncers, NEW e \in Regression, Accept(c, e)
      PROVE  ClockInRange'
  <2> DEFINE o == Seed(measured[c])
  <2>1. o \in Allowed /\ measured[c] \in Allowed
    BY <1>6, SeedIsAllowed DEF Accept
  <2>2. Corrected(o, measured[c]) \in Allowed
    BY <2>1, CorrectedIsTowards DEF Clock!Towards, Clock!Allowed, Allowed
  <2>3. offset' = Corrected(o, measured[c]) /\ target' = measured[c] /\ has_synced' = TRUE
    BY <1>6 DEF Accept, Apply
  <2>4. measured' \in [Syncers -> Int]
    BY <1>6 DEF Accept, EndSync, ClockInRange
  <2> QED
    BY <2>1, <2>2, <2>3, <2>4 DEF ClockInRange
<1>7. ASSUME NEW c \in Updaters, BeginUpdate(c) PROVE ClockInRange'
  BY <1>7 DEF BeginUpdate, clock, ClockInRange
<1>8. ASSUME NEW c \in Updaters, Update(c) PROVE ClockInRange'
  <2>1. Corrected(offset, target) \in Allowed
    BY CorrectedIsTowards DEF Clock!Towards, Clock!Allowed, Allowed, ClockInRange
  <2> QED
    BY <1>8, <2>1 DEF Update, ClockInRange
<1>9. CASE UNCHANGED vars
  BY <1>9 DEF vars, clock, calls, ClockInRange
<1> QED
  BY <1>1, <1>2, <1>3, <1>4, <1>5, <1>6, <1>7, <1>8, <1>9 DEF Next, Sync

LEMMA AlwaysInRange == Spec => []ClockInRange
BY InitInRange, StepKeepsRange, PTL DEF Spec

-----------------------------------------------------------------------------
(* The abstract clock *)

\* Every step is one of SteadyClock's, or a stutter: a synchronize() whose
\* measurement is in range measures, an update() corrects, and start() resets.
LEMMA StepIsSteady == ClockInRange /\ [Next]_vars => [Clock!Next]_(Clock!vars)
<1> SUFFICES ASSUME ClockInRange, [Next]_vars PROVE [Clock!Next]_(Clock!vars)
  OBVIOUS
<1> USE DEF Clock!vars
<1>1. CASE Start \/ Stop
  BY <1>1 DEF Start, Stop, clock
<1>2. CASE ResetClock
  BY <1>2 DEF ResetClock, Clock!Reset, Clock!Next
<1>3. ASSUME NEW c \in Syncers, NEW m \in Measurements, BeginSync(c, m)
      PROVE  UNCHANGED Clock!vars
  BY <1>3 DEF BeginSync, clock
<1>4. ASSUME NEW c \in Syncers, RefuseOffset(c) PROVE UNCHANGED Clock!vars
  BY <1>4 DEF RefuseOffset
<1>5. ASSUME NEW c \in Syncers, NEW e \in Regression, RefuseDrift(c, e)
      PROVE  Clock!Next
  <2>1. measured[c] \in Clock!Allowed
    BY <1>5, SeedIsAllowed DEF RefuseDrift, Clock!Allowed, Allowed
  <2>2. Clock!Measure(measured[c])
    BY <1>5 DEF RefuseDrift, Apply, Seed, Clock!Measure
  <2> QED
    BY <2>1, <2>2 DEF Clock!Next
<1>6. ASSUME NEW c \in Syncers, NEW e \in Regression, Accept(c, e)
      PROVE  Clock!Next
  <2> DEFINE o == Seed(measured[c])
  <2>1. o \in Allowed /\ measured[c] \in Allowed
    BY <1>6, SeedIsAllowed DEF Accept
  <2>2. Corrected(o, measured[c]) \in Clock!Towards(o, measured[c])
    BY <2>1, CorrectedIsTowards
  <2>3. Clock!Measure(measured[c])
    BY <1>6, <2>2 DEF Accept, Apply, Seed, Clock!Measure
  <2> QED
    BY <2>1, <2>3 DEF Clock!Next, Clock!Allowed, Allowed
<1>7. ASSUME NEW c \in Updaters, BeginUpdate(c) PROVE UNCHANGED Clock!vars
  BY <1>7 DEF BeginUpdate, clock
<1>8. ASSUME NEW c \in Updaters, Update(c) PROVE Clock!Next
  <2>1. Corrected(offset, target) \in Clock!Towards(offset, target)
    BY CorrectedIsTowards DEF ClockInRange
  <2> QED
    BY <1>8, <2>1 DEF Update, Clock!Correct, Clock!Next
<1>9. CASE UNCHANGED vars
  BY <1>9 DEF vars, clock
<1> QED
  BY <1>1, <1>2, <1>3, <1>4, <1>5, <1>6, <1>7, <1>8, <1>9 DEF Next, Sync

\* The synchronizer implements SteadyClock (clock_manager.rs:157-232).
THEOREM SynchronizerIsSteady == Spec => ImplementsSteadyClock
<1>1. Init => Clock!Init
  BY DEF Init, Clock!Init
<1> QED
  BY <1>1, AlwaysInRange, StepIsSteady, PTL DEF Spec, ImplementsSteadyClock, Clock!Spec

-----------------------------------------------------------------------------
(* No correction overshoots *)

\* Between two numbers that lie between members of a set of allowed offsets lies
\* nothing beyond them.
LEMMA CorrectedStaysWithin ==
  ASSUME NEW S \in SUBSET Allowed, NEW o \in Allowed, NEW t \in S,
         \E low, high \in S : low <= o /\ o <= high
  PROVE  \E low, high \in S : low <= Corrected(o, t) /\ Corrected(o, t) <= high
<1> PICK low \in S, high \in S : low <= o /\ o <= high
  OBVIOUS
<1>1. o \in Int /\ t \in Int /\ low \in Int /\ high \in Int
  BY AllowedMeans
<1>2. /\ Corrected(o, t) \in Int
      /\ o <= t => o <= Corrected(o, t) /\ Corrected(o, t) <= t
      /\ t <= o => t <= Corrected(o, t) /\ Corrected(o, t) <= o
  BY <1>1, CorrectedIsBetween
<1>3. CASE o <= t
  <2>1. low <= Corrected(o, t) /\ Corrected(o, t) <= t
    BY <1>1, <1>2, <1>3
  <2> QED
    BY <2>1
<1>4. CASE t <= o
  <2>1. t <= Corrected(o, t) /\ Corrected(o, t) <= high
    BY <1>1, <1>2, <1>4
  <2> QED
    BY <2>1
<1> QED
  BY <1>1, <1>3, <1>4

WithinInv == ClockInRange /\ applied \subseteq Allowed /\ OffsetWithinMeasured

\* The offset a measurement is corrected from lies within what was measured, the
\* measurement included.
LEMMA SeedIsWithin ==
  ASSUME WithinInv, NEW m \in Allowed
  PROVE  \E low, high \in applied \cup {m} : low <= Seed(m) /\ Seed(m) <= high
<1>1. m <= m
  BY AllowedMeans
<1>2. CASE has_synced
  BY <1>2 DEF Seed, WithinInv, OffsetWithinMeasured
<1>3. CASE ~has_synced
  BY <1>1, <1>3 DEF Seed
<1> QED
  BY <1>2, <1>3

LEMMA StepKeepsWithin == WithinInv /\ ClockInRange' /\ [Next]_vars => WithinInv'
<1> SUFFICES ASSUME WithinInv, ClockInRange', [Next]_vars
             PROVE  (applied \subseteq Allowed)' /\ OffsetWithinMeasured'
  BY DEF WithinInv
<1>1. CASE UNCHANGED clock
  BY <1>1 DEF clock, WithinInv, OffsetWithinMeasured, Allowed
<1>2. CASE ResetClock
  BY <1>2 DEF ResetClock, OffsetWithinMeasured
<1>3. ASSUME NEW c \in Syncers, RefuseOffset(c)
      PROVE  (applied \subseteq Allowed)' /\ OffsetWithinMeasured'
  BY <1>3 DEF RefuseOffset, WithinInv, OffsetWithinMeasured, Allowed
<1>4. ASSUME NEW c \in Syncers, NEW e \in Regression, RefuseDrift(c, e) \/ Accept(c, e)
      PROVE  (applied \subseteq Allowed)' /\ OffsetWithinMeasured'
  <2> DEFINE m == measured[c]
             S == applied \cup {m}
  <2>1. m \in Allowed /\ Seed(m) \in Allowed
    BY <1>4, SeedIsAllowed DEF RefuseDrift, Accept, WithinInv
  <2>2. S \subseteq Allowed
    BY <2>1 DEF WithinInv
  <2>3. applied' = S /\ target' = m
    BY <1>4 DEF RefuseDrift, Accept, Apply
  <2>4. \E low, high \in S : low <= Seed(m) /\ Seed(m) <= high
    BY <2>1, SeedIsWithin
  <2>5. \E low, high \in S : low <= Corrected(Seed(m), m) /\ Corrected(Seed(m), m) <= high
    <3> HIDE DEF m, S
    <3>1. m \in S
      BY DEF S
    <3> QED
      BY <2>1, <2>2, <2>4, <3>1, CorrectedStaysWithin
  <2>6. offset' = Seed(m) \/ offset' = Corrected(Seed(m), m)
    BY <1>4 DEF RefuseDrift, Accept
  <2> QED
    BY <2>2, <2>3, <2>4, <2>5, <2>6 DEF OffsetWithinMeasured, Allowed
<1>5. ASSUME NEW c \in Updaters, Update(c)
      PROVE  (applied \subseteq Allowed)' /\ OffsetWithinMeasured'
  <2>1. /\ offset' = Corrected(offset, target)
        /\ UNCHANGED <<target, has_synced, applied>>
    BY <1>5 DEF Update
  <2>2. CASE has_synced
    <3>1. /\ applied \subseteq Allowed /\ offset \in Allowed /\ target \in applied
          /\ \E low, high \in applied : low <= offset /\ offset <= high
      BY <2>2 DEF WithinInv, OffsetWithinMeasured, ClockInRange
    <3>2. \E low, high \in applied : low <= offset' /\ offset' <= high
      BY <2>1, <3>1, CorrectedStaysWithin
    <3> QED
      BY <2>1, <3>1, <3>2 DEF OffsetWithinMeasured, Allowed
  <2>3. CASE ~has_synced
    BY <2>1, <2>3 DEF OffsetWithinMeasured, WithinInv, Allowed
  <2> QED
    BY <2>2, <2>3
<1> QED
  <2>1. Start \/ Stop \/ UNCHANGED vars => UNCHANGED clock
    BY DEF Start, Stop, vars, clock
  <2>2. \A c \in Syncers : \A m \in Measurements : BeginSync(c, m) => UNCHANGED clock
    BY DEF BeginSync
  <2>3. \A c \in Updaters : BeginUpdate(c) => UNCHANGED clock
    BY DEF BeginUpdate
  <2> QED
    BY <1>1, <1>2, <1>3, <1>4, <1>5, <2>1, <2>2, <2>3 DEF Next, Sync

\* The applied offset lies between two offsets measured since the reset, whatever
\* calls of an earlier session end in this one (clock_manager.rs:204-232).
THEOREM NothingOvershoots == Spec => []OffsetWithinMeasured
<1>1. Init => WithinInv
  BY InitInRange DEF Init, WithinInv, OffsetWithinMeasured
<1>2. WithinInv => OffsetWithinMeasured
  BY DEF WithinInv
<1> QED
  BY <1>1, <1>2, AlwaysInRange, StepKeepsWithin, PTL DEF Spec

-----------------------------------------------------------------------------
(* What a session starts from *)

Counts == [corrections : Nat, resyncs : Nat, successes : Nat, failures : Nat]

BlankInv == stats \in Counts /\ has_synced \in BOOLEAN /\ UnsyncedIsBlank

LEMMA CountingCounts ==
  ASSUME NEW o, NEW t, stats \in Counts
  PROVE  CountCorrection(o, t, stats) \in Counts
<1> DEFINE corrections == stats.corrections + 1
           resyncs == IF Within(o, t) /\ ~Within(Corrected(o, t), t)
                      THEN stats.resyncs + 1 ELSE stats.resyncs
<1>1. CASE o = t
  BY <1>1 DEF CountCorrection
<1>2. CASE o # t
  <2>1. CountCorrection(o, t, stats)
          = [stats EXCEPT !.corrections = corrections, !.resyncs = resyncs]
    BY <1>2 DEF CountCorrection
  <2>2. corrections \in Nat /\ resyncs \in Nat
    BY DEF Counts
  <2> HIDE DEF corrections, resyncs
  <2> QED
    BY <2>1, <2>2 DEF Counts
<1> QED
  BY <1>1, <1>2

LEMMA BlankStep == BlankInv /\ [Next]_vars => BlankInv'
<1> SUFFICES ASSUME BlankInv, [Next]_vars PROVE BlankInv'
  OBVIOUS
<1>1. CASE Start \/ Stop \/ UNCHANGED vars
  BY <1>1 DEF Start, Stop, vars, clock, BlankInv, UnsyncedIsBlank
<1>2. CASE ResetClock
  BY <1>2 DEF ResetClock, NoCounts, Counts, BlankInv, UnsyncedIsBlank
<1>3. ASSUME NEW c \in Syncers, NEW m \in Measurements, BeginSync(c, m)
      PROVE  BlankInv'
  BY <1>3 DEF BeginSync, clock, BlankInv, UnsyncedIsBlank
<1>4. ASSUME NEW c \in Syncers, RefuseOffset(c) PROVE BlankInv'
  <2>1. /\ stats' \in Counts
        /\ stats'.corrections = stats.corrections /\ stats'.successes = stats.successes
    BY <1>4 DEF RefuseOffset, BlankInv, Counts
  <2> QED
    BY <1>4, <2>1 DEF RefuseOffset, BlankInv, UnsyncedIsBlank
<1>5. ASSUME NEW c \in Syncers, NEW e \in Regression, RefuseDrift(c, e) PROVE BlankInv'
  <2>1. stats' \in Counts
    BY <1>5 DEF RefuseDrift, BlankInv, Counts
  <2> QED
    BY <1>5, <2>1 DEF RefuseDrift, Apply, BlankInv, UnsyncedIsBlank
<1>6. ASSUME NEW c \in Syncers, NEW e \in Regression, Accept(c, e) PROVE BlankInv'
  <2> DEFINE counts == CountCorrection(Seed(measured[c]), measured[c], stats)
  <2>1. counts \in Counts
    BY CountingCounts DEF BlankInv
  <2>2. stats' = [counts EXCEPT !.successes = counts.successes + 1] /\ has_synced' = TRUE
    BY <1>6 DEF Accept, Apply
  <2> HIDE DEF counts
  <2>3. stats' \in Counts
    BY <2>1, <2>2 DEF Counts
  <2> QED
    BY <2>2, <2>3 DEF BlankInv, UnsyncedIsBlank
<1>7. ASSUME NEW c \in Updaters, BeginUpdate(c) PROVE BlankInv'
  BY <1>7 DEF BeginUpdate, clock, BlankInv, UnsyncedIsBlank
<1>8. ASSUME NEW c \in Updaters, Update(c) PROVE BlankInv'
  <2>1. stats' \in Counts
    BY <1>8, CountingCounts DEF Update, BlankInv
  <2>2. CASE ~has_synced
    <3>1. offset' = offset /\ stats' = stats
      BY <1>8, <2>2 DEF Update, Corrected, CountCorrection, BlankInv, UnsyncedIsBlank
    <3> QED
      BY <1>8, <2>1, <3>1 DEF Update, BlankInv, UnsyncedIsBlank
  <2>3. CASE has_synced
    BY <1>8, <2>1, <2>3 DEF Update, BlankInv, UnsyncedIsBlank
  <2> QED
    BY <2>2, <2>3
<1> QED
  BY <1>1, <1>2, <1>3, <1>4, <1>5, <1>6, <1>7, <1>8 DEF Next, Sync

\* Nothing of the session before is left in a clock that has not measured yet, also
\* when calls that began before stop() end after the next start()
\* (synchronizer.rs:66-74, clock_manager.rs:277-287).
THEOREM SessionsStartBlank == Spec => []UnsyncedIsBlank
<1>1. ASSUME Init PROVE BlankInv
  <2>1. /\ has_synced = FALSE /\ offset = 0 /\ target = 0 /\ samples = 0 /\ applied = {}
        /\ stats = NoCounts
    BY <1>1 DEF Init
  <2>2. /\ NoCounts \in Counts
        /\ NoCounts.corrections = 0 /\ NoCounts.successes = 0
    BY DEF NoCounts, Counts
  <2> QED
    BY <2>1, <2>2 DEF BlankInv, UnsyncedIsBlank
<1>2. BlankInv => UnsyncedIsBlank
  BY DEF BlankInv
<1> QED
  BY <1>1, <1>2, BlankStep, PTL DEF Spec

=============================================================================
