------------------------- MODULE JitterBufferProofs -------------------------
(***************************************************************************)
(* Theorems about JitterBuffer, for every configuration that               *)
(* BufferConfig::validate accepts and every bound on the arrivals.         *)
(***************************************************************************)
EXTENDS JitterBuffer, FiniteSetTheorems, SequenceTheorems, WellFoundedInduction, TLAPS

\* The buffer and each part of it are finite sets.
LEMMA PartsAreFinite ==
  ASSUME TypeOK, NEW T \in SUBSET buffered
  PROVE  IsFiniteSet(T) /\ Cardinality(T) \in Nat
<1>1. IsFiniteSet(SeqNum)
  BY FS_Interval, ConfigAssumption DEF ConfigAssumption, validate, SeqNum
<1>2. T \subseteq SeqNum
  BY DEF TypeOK
<1> QED
  BY <1>1, <1>2, FS_Subset, FS_CardinalityType

\* What PacketWindow::advance does to the types of what it assigns.
LEMMA AdvanceTypes ==
  ASSUME TypeOK, NEW s \in SeqNum, Advance(s)
  PROVE  /\ expected_sequence' \in SeqNum \cup {None}
         /\ seen_cache' \in Seq(SeqNum)
         /\ seen_set' \subseteq SeqNum
         /\ window_stats' \in [lost : Nat, duplicates : Nat]
         /\ passed' \in [first : SeqNum \cup {None}, last : SeqNum \cup {None},
                         count : Nat]
<1>1. MaxSeq \in Nat /\ expected_sequence \in SeqNum \cup {None}
  BY ConfigAssumption DEF ConfigAssumption, validate, TypeOK
<1>2. expected_sequence' \in SeqNum \cup {None}
  <2>1. expected_sequence' = AtLeast(expected_sequence, After(s))
    BY DEF Advance
  <2> QED
    BY <1>1, <2>1 DEF AtLeast, After, AtMost, SeqNum, None
<1>3. window_stats' \in [lost : Nat, duplicates : Nat]
  <2>1. Gap(s) \in Nat
    BY <1>1 DEF Gap, SeqNum, None
  <2>2. window_stats \in [lost : Nat, duplicates : Nat]
    BY DEF TypeOK
  <2>3. window_stats' = [window_stats EXCEPT !.lost = @ + Gap(s)]
    BY DEF Advance
  <2> QED
    BY <2>1, <2>2, <2>3
<1>4. passed' \in [first : SeqNum \cup {None}, last : SeqNum \cup {None},
                   count : Nat]
  <2>1. passed \in [first : SeqNum \cup {None}, last : SeqNum \cup {None},
                    count : Nat]
    BY DEF TypeOK
  <2>2. passed' = [first |-> IF passed.first = None THEN s ELSE passed.first,
                   last  |-> s,
                   count |-> passed.count + 1]
    BY DEF Advance
  <2> QED
    BY <2>1, <2>2
<1>5. seen_cache' \in Seq(SeqNum) /\ seen_set' \subseteq SeqNum
  <2>1. seen_cache \in Seq(SeqNum) /\ seen_set \subseteq SeqNum
    BY DEF TypeOK
  <2>2. Remember(s)
    BY DEF Advance
  <2>3. CASE s \in seen_set
    BY <2>1, <2>2, <2>3 DEF Remember
  <2>4. CASE s \notin seen_set
    <3> DEFINE grown == Append(seen_cache, s)
               full == Len(grown) > DuplicateCacheSize
    <3>1. grown \in Seq(SeqNum) /\ grown # <<>>
      BY <2>1
    <3>2. Tail(grown) \in Seq(SeqNum)
      BY <3>1
    <3>3. /\ seen_cache' = IF full THEN Tail(grown) ELSE grown
          /\ seen_set' = (seen_set \cup {s}) \ (IF full THEN {Head(grown)} ELSE {})
      BY <2>2, <2>4 DEF Remember
    <3> HIDE DEF grown, full
    <3> QED
      BY <2>1, <3>1, <3>2, <3>3
  <2> QED
    BY <2>3, <2>4
<1> QED
  BY <1>2, <1>3, <1>4, <1>5

\* adapt_target_delay never leaves the configured bounds.
LEMMA AdaptedWithinBounds ==
  ASSUME TypeOK, NEW h \in JitterHeadrooms
  PROVE  Adapted(h) \in MinTargetDelay..MaxTargetDelay
<1>1. /\ MinTargetDelay \in Nat /\ MaxTargetDelay \in Nat
      /\ TargetDelay \in MinTargetDelay..MaxTargetDelay
  BY ConfigAssumption DEF ConfigAssumption, validate
<1>2. AdaptiveStep \in Nat /\ h \in Nat
  BY ConfigAssumption DEF ConfigAssumption, validate
<1>3. target_delay \in MinTargetDelay..MaxTargetDelay
  BY DEF TypeOK
<1>4. ASSUME NEW d \in Int
      PROVE  Clamp(d, MinTargetDelay, MaxTargetDelay) \in MinTargetDelay..MaxTargetDelay
  BY <1>1 DEF Clamp, AtMost, AtLeast
<1>5. \E d \in Int : Adapted(h) = Clamp(d, MinTargetDelay, MaxTargetDelay)
  BY <1>1, <1>2, <1>3, <1>4 DEF Adapted, AtMost, AtLeast
<1> QED
  BY <1>4, <1>5


\* Counting keeps the totals well-typed.
LEMMA TotalsUpdates ==
  ASSUME NEW t \in Totals, NEW m \in Nat, NEW n \in Nat
  PROVE  /\ [t EXCEPT !.delivered = @ + 1] \in Totals
         /\ [t EXCEPT !.dropped = @ + 1] \in Totals
         /\ [t EXCEPT !.buffered = @ + 1, !.dropped = @ + m, !.occupancy = n] \in Totals
<1>1. ASSUME NEW u \in Totals, NEW k \in Nat
      PROVE  /\ [u EXCEPT !.buffered = k] \in Totals
             /\ [u EXCEPT !.delivered = k] \in Totals
             /\ [u EXCEPT !.dropped = k] \in Totals
             /\ [u EXCEPT !.occupancy = k] \in Totals
  BY DEF Totals
<1>2. /\ t.buffered + 1 \in Nat /\ t.delivered + 1 \in Nat
      /\ t.dropped + 1 \in Nat /\ t.dropped + m \in Nat
  BY DEF Totals
<1>3. [t EXCEPT !.delivered = @ + 1] \in Totals /\ [t EXCEPT !.dropped = @ + 1] \in Totals
  BY <1>1, <1>2
<1>4. [t EXCEPT !.buffered = @ + 1] \in Totals
  BY <1>1, <1>2
<1>5. [t EXCEPT !.buffered = @ + 1, !.dropped = @ + m] \in Totals
  BY <1>1, <1>2, <1>4
<1>6. [t EXCEPT !.buffered = @ + 1, !.dropped = @ + m, !.occupancy = n] \in Totals
  BY <1>1, <1>5
<1> QED
  BY <1>3, <1>6

\* The values Init and reset() start from are well-typed.
LEMMA InitialTypes ==
  /\ None \in SeqNum \cup {None} /\ <<>> \in Seq(SeqNum)
  /\ [lost |-> 0, duplicates |-> 0] \in [lost : Nat, duplicates : Nat]
  /\ [first |-> None, last |-> None, count |-> 0]
       \in [first : SeqNum \cup {None}, last : SeqNum \cup {None}, count : Nat]
OBVIOUS

\* Ages are not negative, whatever the configuration.
LEMMA AgeCapIsNat == AgeCap \in Nat
BY ConfigAssumption DEF ConfigAssumption, validate, AgeCap, AtLeast

\* A part of the buffer keeps well-typed entries, and its size is a number.
LEMMA KeptEntries ==
  ASSUME TypeOK, NEW T \in SUBSET buffered, entries' = Restrict(entries, T)
  PROVE  /\ buffered' = T
         /\ buffered' \subseteq SeqNum /\ \A s \in buffered' : entries'[s] \in 0..AgeCap
         /\ Cardinality(T) \in Nat
BY PartsAreFinite DEF TypeOK, Restrict, buffered

\* Every operation keeps the types.
LEMMA TypeStep == TypeOK /\ [Next]_vars => TypeOK'
<1> SUFFICES ASSUME TypeOK, [Next]_vars PROVE TypeOK'
  OBVIOUS
<1>0. /\ buffered \subseteq SeqNum /\ \A s \in buffered : entries[s] \in 0..AgeCap
      /\ totals \in Totals
      /\ window_stats \in [lost : Nat, duplicates : Nat]
      /\ arrivals \in 0..MaxArrivals /\ lost_to_reset \in Nat
      /\ out \in Seq(SeqNum)
      /\ Cardinality(buffered) \in Nat
  BY PartsAreFinite DEF TypeOK
<1>c. TargetDelay \in MinTargetDelay..MaxTargetDelay /\ MaxArrivals \in Nat
  BY ConfigAssumption DEF ConfigAssumption, validate
<1>1. ASSUME NEW s \in SeqNum, NEW headroom \in JitterHeadrooms,
             PushPacket(s, headroom)
      PROVE  TypeOK'
  <2>1. arrivals' \in 0..MaxArrivals
    BY <1>0, <1>1, <1>c DEF PushPacket
  <2>2. CASE Refuse(s)
    <3>1. window_stats' \in [lost : Nat, duplicates : Nat]
      BY <1>0, <2>2 DEF Refuse
    <3> QED
      BY <1>0, <1>1, <2>1, <2>2, <3>1 DEF PushPacket, Refuse, TypeOK, buffered, Holders
  <2>3. CASE Store(s, headroom)
    <3> DEFINE kept == (buffered \ Overflow) \cup {s}
    <3>1. entries' = [t \in kept |-> IF t = s THEN 0 ELSE entries[t]]
      BY <2>3 DEF Store
    <3>2. buffered' = kept /\ Overflow \subseteq buffered
      BY <3>1 DEF buffered, Overflow
    <3>3. buffered' \subseteq SeqNum /\ \A t \in buffered' : entries'[t] \in 0..AgeCap
      BY <1>0, <3>1, <3>2, AgeCapIsNat
    <3>4. Cardinality(kept) \in Nat /\ Cardinality(Overflow) \in Nat
      BY <3>2, PartsAreFinite, FS_AddElement, FS_CardinalityType
    <3>5. totals' \in Totals
      <4>1. totals' = [totals EXCEPT !.buffered = @ + 1,
                                     !.dropped = @ + Cardinality(Overflow),
                                     !.occupancy = AtLeast(@, Cardinality(kept))]
        BY <2>3 DEF Store
      <4>2. AtLeast(totals.occupancy, Cardinality(kept)) \in Nat
        BY <1>0, <3>4 DEF AtLeast, Totals
      <4> HIDE DEF kept
      <4> QED
        BY <1>0, <3>4, <4>1, <4>2, TotalsUpdates
    <3>6. target_delay' \in MinTargetDelay..MaxTargetDelay
      BY <2>3, AdaptedWithinBounds DEF Store, TypeOK
    <3> HIDE DEF kept
    <3>7. saw_arrival' = TRUE
      BY <2>3 DEF Store
    <3>8. /\ UNCHANGED <<window, out, passed, lost_to_reset, approx_len, judged>>
          /\ mutex' = "pushed"
      BY <1>1, <2>3 DEF PushPacket, Store
    <3> QED
      BY <2>1, <3>3, <3>5, <3>6, <3>7, <3>8 DEF TypeOK, window, Holders
  <2> QED
    BY <1>1, <2>2, <2>3 DEF PushPacket
<1>2. ASSUME NEW s \in buffered, PopReady(s) PROVE TypeOK'
  <2>1. s \in SeqNum /\ buffered \ {s} \subseteq buffered
    BY <1>0
  <2>2. entries' = Restrict(entries, buffered \ {s}) /\ Advance(s)
    BY <1>2 DEF PopReady, Without
  <2>3. totals' \in Totals
    <3>1. totals' = [totals EXCEPT !.delivered = @ + 1]
      BY <1>2 DEF PopReady
    <3> QED
      BY <1>0, <3>1, TotalsUpdates
  <2>4. out' \in Seq(SeqNum)
    BY <1>0, <1>2, <2>1 DEF PopReady
  <2>5. /\ UNCHANGED <<target_delay, saw_arrival, approx_len, arrivals, lost_to_reset>>
        /\ mutex' \in Holders \cup {"free"} /\ judged' \in SeqNum \cup {None}
    BY <1>2 DEF PopReady, Holders
  <2> QED
    BY <2>1, <2>2, <2>3, <2>4, <2>5, AdvanceTypes, KeptEntries DEF TypeOK
<1>3. ASSUME NEW s \in buffered, Evict(s) PROVE TypeOK'
  <2>1. s \in SeqNum /\ buffered \ {s} \subseteq buffered
    BY <1>0
  <2>2. entries' = Restrict(entries, buffered \ {s}) /\ judged' = s
    BY <1>3 DEF Evict, Without
  <2>3. totals' \in Totals
    <3>1. totals' = [totals EXCEPT !.dropped = @ + 1]
      BY <1>3 DEF Evict
    <3> QED
      BY <1>0, <3>1, TotalsUpdates
  <2>4. UNCHANGED <<window, target_delay, saw_arrival, approx_len, mutex, history>>
    BY <1>3 DEF Evict
  <2> QED
    BY <2>1, <2>2, <2>3, <2>4, KeptEntries DEF TypeOK, window, history
<1>4. ASSUME NEW delay \in MinTargetDelay..MaxTargetDelay, SetTargetDelay(delay)
      PROVE  TypeOK'
  BY <1>4 DEF SetTargetDelay, TypeOK, window, history, call, buffered
<1>5. CASE BeginClear \/ BeginPop
  BY <1>5 DEF BeginClear, BeginPop, TypeOK, window, history, buffered, Holders
<1>6. ASSUME NEW s \in buffered, FlushOne(s) PROVE TypeOK'
  <2>1. s \in SeqNum /\ buffered \ {s} \subseteq buffered
    BY <1>0
  <2>2. entries' = Restrict(entries, buffered \ {s}) /\ Advance(s)
    BY <1>6 DEF FlushOne, Without
  <2>3. totals' \in Totals
    <3>1. totals' = [totals EXCEPT !.delivered = @ + 1]
      BY <1>6 DEF FlushOne
    <3> QED
      BY <1>0, <3>1, TotalsUpdates
  <2>4. UNCHANGED <<target_delay, saw_arrival, approx_len, mutex, judged, arrivals, out,
                    lost_to_reset>>
    BY <1>6 DEF FlushOne, call
  <2> QED
    BY <2>1, <2>2, <2>3, <2>4, AdvanceTypes, KeptEntries DEF TypeOK
<1>7. CASE StoreLen
  BY <1>0, <1>7 DEF StoreLen, TypeOK, window, history, buffered
<1>8. CASE Reset
  <2>1. buffered' = {}
    BY <1>8 DEF Reset, buffered
  <2>2. /\ expected_sequence' = None /\ seen_cache' = <<>> /\ seen_set' = {}
        /\ window_stats' = [lost |-> 0, duplicates |-> 0]
        /\ target_delay' = TargetDelay /\ saw_arrival' = FALSE
        /\ out' = <<>> /\ passed' = [first |-> None, last |-> None, count |-> 0]
        /\ lost_to_reset' = lost_to_reset + Cardinality(buffered)
        /\ mutex' \in Holders \cup {"free"}
        /\ UNCHANGED <<totals, approx_len, judged, arrivals>>
    BY <1>8 DEF Reset, Holders
  <2> QED
    <3>1. /\ lost_to_reset' \in Nat /\ approx_len' \in Nat
          /\ target_delay' \in MinTargetDelay..MaxTargetDelay
      BY <1>0, <1>c, <2>2 DEF TypeOK
    <3>2. saw_arrival' \in BOOLEAN /\ judged' \in SeqNum \cup {None}
      BY <2>2 DEF TypeOK
    <3>3. totals' \in Totals /\ arrivals' \in 0..MaxArrivals
      BY <1>0, <2>2
    <3> QED
      BY <2>1, <2>2, <3>1, <3>2, <3>3, InitialTypes, Zenon DEF TypeOK
<1>9. CASE Tick
  <2>1. entries' = [s \in buffered |-> AtMost(entries[s] + 1, AgeCap)]
    BY <1>9 DEF Tick
  <2>2. buffered' = buffered /\ \A s \in buffered' : entries'[s] \in 0..AgeCap
    BY <1>0, <2>1, AgeCapIsNat DEF buffered, AtMost
  <2> QED
    BY <1>9, <2>2 DEF Tick, TypeOK, window, history, call
<1>10. CASE UNCHANGED vars
  BY <1>10 DEF vars, TypeOK, window, history, buffered
<1>11. ASSUME NEW s \in buffered, Spare(s) PROVE TypeOK'
  BY <1>0, <1>11 DEF Spare, TypeOK, window, history, buffered, Holders
<1>12. CASE PopNothing
  BY <1>12 DEF PopNothing, TypeOK, window, history, buffered, Holders
<1> QED
  BY <1>1, <1>2, <1>3, <1>4, <1>5, <1>6, <1>7, <1>8, <1>9, <1>10, <1>11, <1>12
  DEF Next, PopPacket

LEMMA InitialTypeOK == Init => TypeOK
<1> SUFFICES ASSUME Init PROVE TypeOK
  OBVIOUS
<1>1. buffered = {} /\ TargetDelay \in MinTargetDelay..MaxTargetDelay /\ MaxArrivals \in Nat
  BY ConfigAssumption DEF ConfigAssumption, validate, Init, buffered
<1>2. totals \in Totals
  BY DEF Init, Totals
<1>3. /\ lost_to_reset \in Nat /\ approx_len \in Nat /\ arrivals \in 0..MaxArrivals
      /\ target_delay \in MinTargetDelay..MaxTargetDelay
  BY <1>1 DEF Init
<1> QED
  BY <1>1, <1>2, <1>3, InitialTypes, Zenon DEF Init, TypeOK

\* The types of every variable, in every reachable state; in particular the
\* target delay never leaves the configured bounds.
THEOREM TypeCorrect == Spec => []TypeOK
BY InitialTypeOK, TypeStep, PTL DEF Spec

-----------------------------------------------------------------------------
(* Ordered delivery without repetition *)

\* The watermark is the number after the last one passed, stuck at MaxSeq.
WatermarkFollows ==
  expected_sequence = IF passed.last = None THEN None ELSE After(passed.last)

\* The consumer saw nothing above the last number passed.
OutputPassed == \A i \in 1..Len(out) : out[i] <= passed.last

\* The inductive invariant: order of the output needs that nothing buffered was
\* passed, which at MaxSeq needs the cache, because the watermark is stuck there.
OrderInv ==
  /\ TypeOK
  /\ WatermarkFollows
  /\ CacheMirrorsSet
  /\ NothingBufferedIsPassed
  /\ OutputPassed
  /\ OutputInOrder

\* The elements of a sequence of sequence numbers are numbers.
LEMMA ElementIsNumber ==
  ASSUME NEW c \in Seq(SeqNum), NEW i \in 1..Len(c)
  PROVE  c[i] \in SeqNum /\ c[i] \in Int
<1>1. c[i] \in SeqNum
  BY ElementOfSeq
<1> QED
  BY <1>1, ConfigAssumption DEF ConfigAssumption, validate, SeqNum

\* The last number passed is an integer, also when there is none.
LEMMA LastIsInt == TypeOK => passed.last \in Int
<1> SUFFICES ASSUME TypeOK PROVE passed.last \in Int
  OBVIOUS
<1>1. passed.last \in SeqNum \cup {None}
  BY DEF TypeOK
<1> QED
  BY <1>1, ConfigAssumption DEF ConfigAssumption, validate, SeqNum, None

\* The numbers the cache remembers were passed.
LEMMA RememberedIsPassed ==
  ASSUME TypeOK, CacheMirrorsSet
  PROVE  /\ \A x \in seen_set : x <= passed.last
         /\ passed.last # None => passed.last \in seen_set
<1>1. seen_cache \in Seq(SeqNum) /\ SeqNum \subseteq Int
  BY ConfigAssumption DEF ConfigAssumption, validate, TypeOK, SeqNum
<1>2. CASE passed.last = None
  BY <1>1, <1>2 DEF CacheMirrorsSet
<1>3. CASE passed.last # None
  <2>1. Len(seen_cache) \in 1..Len(seen_cache)
    BY <1>1, <1>3 DEF CacheMirrorsSet
  <2>2. \A i \in 1..Len(seen_cache) : seen_cache[i] <= seen_cache[Len(seen_cache)]
    <3>1. \A i \in 1..Len(seen_cache) : seen_cache[i] \in Int
      BY <1>1, ElementIsNumber
    <3>2. \A i \in 1..Len(seen_cache) :
            i = Len(seen_cache) \/ (i < Len(seen_cache) /\ Len(seen_cache) \in 1..Len(seen_cache))
      BY <2>1
    <3> QED
      BY <3>1, <3>2 DEF CacheMirrorsSet
  <2> QED
    BY <1>3, <2>1, <2>2 DEF CacheMirrorsSet
<1> QED
  BY <1>2, <1>3

\* Passing a number above all earlier ones keeps the cache exact, even when it
\* is full: what leaves is the oldest number, never the one just passed.
LEMMA AdvanceKeepsCache ==
  ASSUME TypeOK, CacheMirrorsSet, NEW s \in SeqNum, s > passed.last, Advance(s)
  PROVE  CacheMirrorsSet' /\ passed'.last = s
<1> DEFINE grown == Append(seen_cache, s)
           full == Len(grown) > DuplicateCacheSize
           n == Len(seen_cache)
<1>1. /\ seen_cache \in Seq(SeqNum) /\ n \in Nat /\ SeqNum \subseteq Int
      /\ DuplicateCacheSize \in Nat \ {0}
  BY ConfigAssumption DEF ConfigAssumption, validate, TypeOK, SeqNum
<1>2. passed'.last = s /\ s # None /\ Remember(s)
  BY ConfigAssumption DEF Advance, SeqNum, None
<1>3. passed.last \in Int /\ \A x \in seen_set : x <= passed.last
  BY RememberedIsPassed, ConfigAssumption DEF ConfigAssumption, validate, TypeOK, SeqNum, None
<1>4. s \notin seen_set
  BY <1>1, <1>3 DEF TypeOK
<1>5. /\ grown \in Seq(SeqNum) /\ Len(grown) = n + 1 /\ grown # <<>>
      /\ \A i \in 1..n : grown[i] = seen_cache[i]
      /\ grown[n + 1] = s
  BY <1>1
<1>6. \A i \in 1..n : seen_cache[i] < s
  <2>1. \A i \in 1..n : seen_cache[i] \in Int /\ seen_cache[i] \in seen_set
    BY <1>1, ElementIsNumber DEF CacheMirrorsSet
  <2>2. s \in Int /\ s > passed.last
    BY <1>1
  <2> HIDE DEF n
  <2> QED
    BY <1>3, <2>1, <2>2
<1>7. \A i, j \in 1..(n + 1) : i < j => grown[i] < grown[j]
  BY <1>1, <1>5, <1>6 DEF CacheMirrorsSet
<1>8. /\ seen_cache' = IF full THEN Tail(grown) ELSE grown
      /\ seen_set' = (seen_set \cup {s}) \ (IF full THEN {Head(grown)} ELSE {})
  BY <1>2, <1>4 DEF Remember
<1>9. seen_set \cup {s} = {grown[i] : i \in 1..(n + 1)}
  BY <1>1, <1>5 DEF CacheMirrorsSet
<1>10. n <= DuplicateCacheSize
  BY DEF CacheMirrorsSet
<1> HIDE DEF grown, n
<1>11. CASE ~full
  <2>1. seen_cache' = grown /\ seen_set' = {grown[i] : i \in 1..(n + 1)}
    BY <1>8, <1>9, <1>11
  <2>2. n + 1 <= DuplicateCacheSize
    BY <1>1, <1>5, <1>11
  <2> HIDE DEF full
  <2> QED
    BY <1>1, <1>2, <1>5, <1>7, <2>1, <2>2 DEF CacheMirrorsSet
<1>12. CASE full
  <2>1. n >= 1 /\ n = DuplicateCacheSize
    BY <1>1, <1>5, <1>10, <1>12
  <2>2. /\ Len(Tail(grown)) = n
        /\ \A i \in 1..n : Tail(grown)[i] = grown[i + 1]
        /\ Head(grown) = grown[1]
    BY <1>1, <1>5
  <2>3. \A i, j \in 1..n : i < j => Tail(grown)[i] < Tail(grown)[j]
    BY <1>1, <1>7, <2>2
  <2>4. seen_set' = {Tail(grown)[i] : i \in 1..n}
    <3>1. seen_set' = {grown[i] : i \in 1..(n + 1)} \ {grown[1]}
      BY <1>8, <1>9, <1>12, <2>2
    <3>2. \A i \in 2..(n + 1) : grown[i] # grown[1]
      <4>1. \A i \in 2..(n + 1) : 1 < i /\ i \in 1..(n + 1) /\ 1 \in 1..(n + 1)
        BY <1>1
      <4>2. \A i \in 1..(n + 1) : grown[i] \in Int
        BY <1>5, ElementIsNumber
      <4> QED
        BY <1>7, <4>1, <4>2
    <3>3. seen_set' = {grown[i] : i \in 2..(n + 1)}
      BY <1>1, <3>1, <3>2
    <3>4. {grown[i] : i \in 2..(n + 1)} = {grown[i + 1] : i \in 1..n}
      <4>1. \A i \in 2..(n + 1) : i - 1 \in 1..n /\ i = (i - 1) + 1
        BY <1>1
      <4>2. \A i \in 1..n : i + 1 \in 2..(n + 1)
        BY <1>1
      <4> QED
        BY <4>1, <4>2
    <3>5. {grown[i + 1] : i \in 1..n} = {Tail(grown)[i] : i \in 1..n}
      BY <2>2
    <3> QED
      BY <3>3, <3>4, <3>5
  <2>5. Tail(grown)[n] = s /\ Tail(grown) # <<>>
    BY <1>1, <1>5, <2>1, <2>2
  <2> QED
    <3>1. seen_cache' = Tail(grown)
      BY <1>8, <1>12
    <3> HIDE DEF full
    <3> QED
      BY <1>1, <1>2, <2>1, <2>2, <2>3, <2>4, <2>5, <3>1 DEF CacheMirrorsSet
<1> QED
  BY <1>11, <1>12

\* What Advance gives to the rest of the invariant.
LEMMA AdvanceKeepsWatermark ==
  ASSUME TypeOK, WatermarkFollows, NEW s \in SeqNum, s > passed.last, Advance(s)
  PROVE  WatermarkFollows'
<1>1. MaxSeq \in Nat /\ passed.last \in SeqNum \cup {None}
  BY ConfigAssumption DEF ConfigAssumption, validate, TypeOK
<1>2. passed'.last = s /\ expected_sequence' = AtLeast(expected_sequence, After(s))
  BY DEF Advance
<1> QED
  BY <1>1, <1>2 DEF WatermarkFollows, AtLeast, After, AtMost, SeqNum, None


\* A number above everything passed is not remembered, and one that is admitted
\* lies above everything passed, also where the watermark is stuck.
LEMMA AdmissibleIsNew ==
  ASSUME TypeOK, WatermarkFollows, CacheMirrorsSet, NEW s \in SeqNum, Admissible(s)
  PROVE  s > passed.last
<1>1. MaxSeq \in Nat /\ passed.last \in SeqNum \cup {None}
  BY ConfigAssumption DEF ConfigAssumption, validate, TypeOK
<1>2. s # passed.last
  BY RememberedIsPassed, ConfigAssumption
  DEF ConfigAssumption, validate, Admissible, SeqNum, None
<1>3. expected_sequence = None \/ s >= expected_sequence
  BY DEF Admissible
<1> QED
  BY <1>1, <1>2, <1>3 DEF WatermarkFollows, After, AtMost, SeqNum, None

\* Steps that pass the lowest packet.
LEMMA PassingStep ==
  ASSUME OrderInv, NEW s, IsLowest(s, buffered), Advance(s),
         buffered' = buffered \ {s}
  PROVE  /\ s \in SeqNum /\ s > passed.last
         /\ WatermarkFollows' /\ CacheMirrorsSet' /\ NothingBufferedIsPassed'
         /\ passed'.last = s
<1>1. s \in SeqNum /\ s > passed.last /\ SeqNum \subseteq Int
  BY ConfigAssumption
  DEF OrderInv, TypeOK, NothingBufferedIsPassed, IsLowest, ConfigAssumption, validate, SeqNum
<1>2. TypeOK /\ WatermarkFollows /\ CacheMirrorsSet
  BY DEF OrderInv
<1>3. WatermarkFollows' /\ CacheMirrorsSet' /\ passed'.last = s
  BY <1>1, <1>2, AdvanceKeepsCache, AdvanceKeepsWatermark
<1>4. \A x \in seen_set' : x <= s
  <2>1. seen_set' \subseteq seen_set \cup {s}
    BY <1>2 DEF Advance, Remember
  <2>2. \A x \in seen_set : x \in Int /\ x <= passed.last
    BY <1>1, <1>2, RememberedIsPassed DEF TypeOK
  <2>3. passed.last \in Int
    BY <1>2, LastIsInt
  <2> QED
    BY <1>1, <2>1, <2>2, <2>3
<1>5. \A t \in buffered' : t \in Int /\ t > s
  BY <1>1, <1>2 DEF IsLowest, TypeOK
<1>6. NothingBufferedIsPassed'
  BY <1>1, <1>3, <1>4, <1>5 DEF NothingBufferedIsPassed
<1> QED
  BY <1>1, <1>3, <1>6

\* Steps that pass nothing and add nothing.
LEMMA DroppingStep ==
  ASSUME OrderInv, TypeOK', buffered' \subseteq buffered,
         UNCHANGED <<expected_sequence, seen_cache, seen_set, passed, out>>
  PROVE  OrderInv'
BY DEF OrderInv, WatermarkFollows, CacheMirrorsSet, NothingBufferedIsPassed,
       OutputPassed, OutputInOrder

LEMMA OrderStep == OrderInv /\ [Next]_vars => OrderInv'
<1> SUFFICES ASSUME OrderInv, [Next]_vars PROVE OrderInv'
  OBVIOUS
<1>0. TypeOK /\ TypeOK'
  BY TypeStep DEF OrderInv
<1>1. ASSUME NEW s \in SeqNum, NEW headroom \in JitterHeadrooms,
             PushPacket(s, headroom)
      PROVE  OrderInv'
  <2>1. CASE Refuse(s)
    BY <1>0, <2>1, DroppingStep DEF Refuse, buffered
  <2>2. CASE Store(s, headroom)
    <3>1. UNCHANGED <<expected_sequence, seen_cache, seen_set, passed, out>>
      BY <2>2 DEF Store, window
    <3>2. buffered' \subseteq buffered \cup {s}
      BY <2>2 DEF Store, buffered, Overflow
    <3>3. s \notin seen_set /\ s > passed.last
      BY <1>0, <2>2, AdmissibleIsNew DEF Store, Admissible, OrderInv
    <3> QED
      BY <1>0, <3>1, <3>2, <3>3
      DEF OrderInv, WatermarkFollows, CacheMirrorsSet, NothingBufferedIsPassed,
          OutputPassed, OutputInOrder
  <2> QED
    BY <1>1, <2>1, <2>2 DEF PushPacket
<1>2. ASSUME NEW s \in buffered, PopReady(s) PROVE OrderInv'
  <2>1. IsLowest(s, buffered) /\ Advance(s)
    BY <1>2 DEF PopReady
  <2>2. buffered' = buffered \ {s} /\ out' = Append(out, s)
    BY <1>2 DEF PopReady, Without, Restrict, buffered
  <2>3. /\ s \in SeqNum /\ s > passed.last
        /\ WatermarkFollows' /\ CacheMirrorsSet' /\ NothingBufferedIsPassed'
        /\ passed'.last = s
    BY <2>1, <2>2, PassingStep
  <2>4. out \in Seq(SeqNum) /\ SeqNum \subseteq Int /\ passed.last \in Int
    BY <1>0, ConfigAssumption DEF TypeOK, ConfigAssumption, validate, SeqNum, None
  <2>5. \A i \in 1..Len(out) : out[i] \in Int /\ out[i] < s
    BY <2>3, <2>4, ElementIsNumber DEF OrderInv, OutputPassed
  <2>6. /\ Len(out') = Len(out) + 1 /\ out'[Len(out) + 1] = s
        /\ \A i \in 1..Len(out) : out'[i] = out[i]
    BY <2>2, <2>3, <2>4
  <2>7. OutputPassed'
    BY <2>3, <2>4, <2>5, <2>6 DEF OutputPassed
  <2>8. OutputInOrder'
    <3>1. DOMAIN out = 1..Len(out) /\ DOMAIN out' = 1..(Len(out) + 1)
      BY <2>2, <2>3, <2>4, LenProperties
    <3>2. \A i, j \in 1..Len(out) : i < j => out[i] < out[j]
      BY <3>1 DEF OrderInv, OutputInOrder
    <3> QED
      BY <2>4, <2>5, <2>6, <3>1, <3>2 DEF OutputInOrder
  <2> QED
    BY <1>0, <2>3, <2>7, <2>8 DEF OrderInv
<1>3. ASSUME NEW s \in buffered, Evict(s) PROVE OrderInv'
  BY <1>0, <1>3, DroppingStep
  DEF Evict, Without, Restrict, window, history, buffered
<1>4. ASSUME NEW delay \in MinTargetDelay..MaxTargetDelay, SetTargetDelay(delay)
      PROVE  OrderInv'
  BY <1>0, <1>4, DroppingStep DEF SetTargetDelay, window, history, buffered
<1>5. CASE BeginClear \/ BeginPop \/ PopNothing \/ StoreLen
  BY <1>0, <1>5, DroppingStep
  DEF BeginClear, BeginPop, PopNothing, StoreLen, window, history, buffered
<1>6. ASSUME NEW s \in buffered, FlushOne(s) PROVE OrderInv'
  <2>1. /\ IsLowest(s, buffered) /\ Advance(s)
        /\ buffered' = buffered \ {s} /\ out' = out
    BY <1>6 DEF FlushOne, Without, Restrict, buffered
  <2>2. /\ s \in SeqNum /\ s > passed.last
        /\ WatermarkFollows' /\ CacheMirrorsSet' /\ NothingBufferedIsPassed'
        /\ passed'.last = s
    BY <2>1, PassingStep
  <2>3. OutputPassed'
    <3>1. passed.last \in Int /\ s \in Int /\ out \in Seq(SeqNum)
      BY <1>0, <2>2, ConfigAssumption DEF TypeOK, ConfigAssumption, validate, SeqNum, None
    <3>2. \A i \in 1..Len(out) : out[i] \in Int /\ out[i] <= passed.last
      BY <3>1, ElementIsNumber DEF OrderInv, OutputPassed
    <3> QED
      BY <2>1, <2>2, <3>1, <3>2 DEF OutputPassed
  <2> QED
    BY <1>0, <2>1, <2>2, <2>3 DEF OrderInv, OutputInOrder
<1>7. ASSUME NEW s \in buffered, Spare(s) PROVE OrderInv'
  BY <1>0, <1>7, DroppingStep DEF Spare, window, history, buffered
<1>8. CASE Reset
  <2>1. /\ buffered' = {} /\ out' = <<>> /\ seen_cache' = <<>> /\ seen_set' = {}
        /\ expected_sequence' = None /\ passed'.last = None
    BY <1>8 DEF Reset, buffered
  <2> QED
    BY <1>0, <2>1, ConfigAssumption
    DEF ConfigAssumption, validate, OrderInv, WatermarkFollows, CacheMirrorsSet,
        NothingBufferedIsPassed, OutputPassed, OutputInOrder
<1>9. CASE Tick
  BY <1>0, <1>9, DroppingStep DEF Tick, window, history, buffered
<1>10. CASE UNCHANGED vars
  BY <1>0, <1>10, DroppingStep DEF vars, window, history, buffered
<1> QED
  BY <1>1, <1>2, <1>3, <1>4, <1>5, <1>6, <1>7, <1>8, <1>9, <1>10
  DEF Next, PopPacket

LEMMA OrderInvariant == Spec => []OrderInv
<1>1. Init => OrderInv
  <2> SUFFICES ASSUME Init PROVE OrderInv
    OBVIOUS
  <2>1. TypeOK
    BY InitialTypeOK
  <2>2. /\ buffered = {} /\ out = <<>> /\ seen_cache = <<>> /\ seen_set = {}
        /\ expected_sequence = None /\ passed.last = None
    BY DEF Init, buffered
  <2> QED
    BY <2>1, <2>2, ConfigAssumption
    DEF ConfigAssumption, validate, OrderInv, WatermarkFollows, CacheMirrorsSet,
        NothingBufferedIsPassed, OutputPassed, OutputInOrder
<1> QED
  BY <1>1, OrderStep, PTL DEF Spec

\* The consumer never sees a sequence number twice, nor one below an earlier
\* one, between two resets.
THEOREM OutputIsInOrder == Spec => []OutputInOrder
<1>1. OrderInv => OutputInOrder
  BY DEF OrderInv
<1> QED
  BY <1>1, OrderInvariant, PTL

\* No packet that waits in the buffer was delivered or flushed before.
THEOREM NothingIsBufferedTwice == Spec => []NothingBufferedIsPassed
<1>1. OrderInv => NothingBufferedIsPassed
  BY DEF OrderInv
<1> QED
  BY <1>1, OrderInvariant, PTL

\* The duplicate cache is exact, bounded, and holds the last packet passed.
THEOREM CacheIsExact == Spec => []CacheMirrorsSet
<1>1. OrderInv => CacheMirrorsSet
  BY DEF OrderInv
<1> QED
  BY <1>1, OrderInvariant, PTL


-----------------------------------------------------------------------------
(* Implementation of OrderedDelivery *)

LEMMA RefinementStep ==
  OrderInv /\ [Next]_vars => [Abstract!Next]_(Abstract!vars)
<1> SUFFICES ASSUME OrderInv, [Next]_vars
             PROVE  Abstract!Next \/ UNCHANGED Abstract!vars
  OBVIOUS
<1>0. TypeOK /\ SeqNum = Abstract!SeqNum
  BY DEF OrderInv, SeqNum, Abstract!SeqNum
<1>1. ASSUME NEW s \in SeqNum, NEW headroom \in JitterHeadrooms,
             PushPacket(s, headroom)
      PROVE  Abstract!Next \/ UNCHANGED Abstract!vars
  <2>1. CASE Refuse(s)
    BY <2>1 DEF Refuse, buffered, Abstract!vars
  <2>2. CASE Store(s, headroom)
    <3>1. s > passed.last /\ s \notin buffered
      BY <1>0, <2>2, AdmissibleIsNew DEF Store, OrderInv
    <3>2. s >= passed.last + 1
      <4>1. s \in Int /\ passed.last \in Int
        BY <1>0, LastIsInt, ConfigAssumption DEF ConfigAssumption, validate, SeqNum
      <4> QED
        BY <3>1, <4>1
    <3>3. Overflow \in SUBSET buffered
      BY DEF Overflow
    <3>4. UNCHANGED <<passed, out>> /\ buffered' = (buffered \ Overflow) \cup {s}
      BY <2>2 DEF Store, buffered
    <3>5. Abstract!Accept(s, Overflow)
      BY <1>0, <3>1, <3>2, <3>4 DEF Abstract!Accept
    <3> QED
      BY <1>0, <3>3, <3>5 DEF Abstract!Next
  <2> QED
    BY <1>1, <2>1, <2>2 DEF PushPacket
<1>2. ASSUME NEW s \in buffered, PopReady(s) PROVE Abstract!Next
  <2>1. /\ IsLowest(s, buffered) /\ passed'.last = s
        /\ out' = Append(out, s) /\ buffered' = buffered \ {s}
    BY <1>2 DEF PopReady, Without, Restrict, buffered, Advance
  <2>2. Abstract!Deliver(s, {})
    BY <2>1 DEF Abstract!Deliver, Abstract!IsLowest, IsLowest
  <2> QED
    BY <2>2 DEF Abstract!Next
<1>3. ASSUME NEW s \in buffered, Evict(s) PROVE Abstract!Next
  <2>1. /\ {s} \in SUBSET buffered /\ buffered' = buffered \ {s}
        /\ UNCHANGED <<passed, out>>
    BY <1>3 DEF Evict, Without, Restrict, buffered, history
  <2>2. Abstract!Drop({s})
    BY <2>1 DEF Abstract!Drop
  <2> QED
    BY <2>1, <2>2 DEF Abstract!Next
<1>4. ASSUME NEW delay \in MinTargetDelay..MaxTargetDelay, SetTargetDelay(delay)
      PROVE  UNCHANGED Abstract!vars
  BY <1>4 DEF SetTargetDelay, history, buffered, Abstract!vars
<1>5. CASE BeginClear \/ BeginPop \/ PopNothing \/ StoreLen
  BY <1>5 DEF BeginClear, BeginPop, PopNothing, StoreLen, history, buffered, Abstract!vars
<1>6. ASSUME NEW s \in buffered, FlushOne(s) PROVE Abstract!Next
  <2>1. /\ IsLowest(s, buffered) /\ passed'.last = s
        /\ out' = out /\ buffered' = buffered \ {s}
    BY <1>6 DEF FlushOne, Without, Restrict, buffered, Advance
  <2>2. Abstract!Skip(s)
    BY <2>1 DEF Abstract!Skip, Abstract!IsLowest, IsLowest
  <2> QED
    BY <2>2 DEF Abstract!Next
<1>7. ASSUME NEW s \in buffered, Spare(s) PROVE UNCHANGED Abstract!vars
  BY <1>7 DEF Spare, history, buffered, Abstract!vars
<1>8. CASE Reset
  <2>1. buffered' = {} /\ passed'.last + 1 = 0 /\ out' = <<>>
    BY <1>8 DEF Reset, buffered, None
  <2> QED
    BY <2>1 DEF Abstract!Next, Abstract!Restart
<1>9. CASE Tick
  BY <1>9 DEF Tick, history, buffered, Abstract!vars
<1>10. CASE UNCHANGED vars
  BY <1>10 DEF vars, history, buffered, Abstract!vars
<1> QED
  BY <1>1, <1>2, <1>3, <1>4, <1>5, <1>6, <1>7, <1>8, <1>9, <1>10
  DEF Next, PopPacket

\* The buffer, with its window, cache, delays and ages, implements the ordered
\* delivery that its consumer relies on.
THEOREM Refinement == Spec => ImplementsOrderedDelivery
<1>1. Init => Abstract!Init
  BY DEF Init, Abstract!Init, buffered, None
<1> QED
  BY <1>1, RefinementStep, OrderInvariant, PTL
  DEF Spec, ImplementsOrderedDelivery, Abstract!Spec

-----------------------------------------------------------------------------
(* Accounting *)

\* Before the first packet is passed nothing counts as lost.
LossInv ==
  /\ passed.count > 0 <=> passed.last # None
  /\ passed.first = None <=> passed.last = None
  /\ passed.last = None => window_stats.lost = 0
  /\ LossAccounting

LEMMA PassingCounts ==
  ASSUME OrderInv, LossInv, NEW s \in SeqNum, s > passed.last, Advance(s)
  PROVE  LossInv'
<1>1. /\ MaxSeq \in Nat /\ passed.last \in SeqNum \cup {None}
      /\ passed.first \in SeqNum \cup {None} /\ passed.count \in Nat
      /\ window_stats.lost \in Nat
  BY ConfigAssumption DEF ConfigAssumption, validate, OrderInv, TypeOK
<1>2. /\ passed'.first = IF passed.first = None THEN s ELSE passed.first
      /\ passed'.last = s /\ passed'.count = passed.count + 1
  BY DEF Advance
<1>3. window_stats'.lost = window_stats.lost + Gap(s)
  BY DEF Advance, OrderInv, TypeOK
<1>4. s # None /\ s \in Int
  BY <1>1 DEF SeqNum, None
<1>5. CASE passed.last = None
  <2>1. Gap(s) = 0
    BY <1>5 DEF OrderInv, WatermarkFollows, Gap
  <2> QED
    BY <1>1, <1>2, <1>3, <1>4, <1>5, <2>1 DEF LossInv, LossAccounting, None
<1>6. CASE passed.last # None
  <2>1. expected_sequence = passed.last + 1
    BY <1>1, <1>6 DEF OrderInv, WatermarkFollows, After, AtMost, SeqNum, None
  <2>2. Gap(s) = s - passed.last - 1
    BY <1>1, <1>4, <1>6, <2>1 DEF Gap, SeqNum, None
  <2> QED
    BY <1>1, <1>2, <1>3, <1>4, <1>6, <2>2 DEF LossInv, LossAccounting, SeqNum, None
<1> QED
  BY <1>5, <1>6

LEMMA LossStep == OrderInv /\ LossInv /\ [Next]_vars => LossInv'
<1> SUFFICES ASSUME OrderInv, LossInv, [Next]_vars PROVE LossInv'
  OBVIOUS
<1> USE DEF LossInv, LossAccounting
<1>1. ASSUME NEW s \in SeqNum, NEW headroom \in JitterHeadrooms,
             PushPacket(s, headroom)
      PROVE  LossInv'
  <2>1. CASE Refuse(s)
    <3>1. window_stats'.lost = window_stats.lost /\ UNCHANGED passed
      BY <2>1 DEF Refuse, OrderInv, TypeOK
    <3> QED
      BY <3>1
  <2>2. CASE Store(s, headroom)
    BY <2>2 DEF Store, window
  <2> QED
    BY <1>1, <2>1, <2>2 DEF PushPacket
<1>2. ASSUME NEW s \in buffered, PopReady(s) PROVE LossInv'
  <2>1. Advance(s) /\ s \in SeqNum /\ s > passed.last
    BY <1>2 DEF PopReady, OrderInv, TypeOK, NothingBufferedIsPassed
  <2> QED
    BY <2>1, PassingCounts
<1>3. ASSUME NEW s \in buffered, Evict(s) \/ Spare(s) PROVE LossInv'
  BY <1>3 DEF Evict, Spare, window, history
<1>4. ASSUME NEW delay \in MinTargetDelay..MaxTargetDelay, SetTargetDelay(delay)
      PROVE  LossInv'
  BY <1>4 DEF SetTargetDelay, window, history
<1>5. CASE BeginClear \/ BeginPop
  BY <1>5 DEF BeginClear, BeginPop, window, history
<1>6. ASSUME NEW s \in buffered, FlushOne(s) PROVE LossInv'
  <2>1. Advance(s) /\ s \in SeqNum /\ s > passed.last
    BY <1>6 DEF FlushOne, OrderInv, TypeOK, NothingBufferedIsPassed
  <2> QED
    BY <2>1, PassingCounts
<1>7. CASE PopNothing \/ StoreLen
  BY <1>7 DEF PopNothing, StoreLen, window, history
<1>8. CASE Reset
  BY <1>8 DEF Reset
<1>9. CASE Tick
  BY <1>9 DEF Tick, window, history
<1>10. CASE UNCHANGED vars
  BY <1>10 DEF vars, window, history
<1> QED
  BY <1>1, <1>2, <1>3, <1>4, <1>5, <1>6, <1>7, <1>8, <1>9, <1>10
  DEF Next, PopPacket

\* From the first packet passed to the last, every sequence number is counted
\* once: as passed or as lost.
THEOREM LossIsExact == Spec => []LossAccounting
<1>1. Init => LossInv
  BY DEF Init, LossInv, LossAccounting
<1>2. LossInv => LossAccounting
  BY DEF LossInv
<1> QED
  BY <1>1, <1>2, LossStep, OrderInvariant, PTL DEF Spec


\* Taking a part out of the buffer, or putting a new packet in.
LEMMA PartSizes ==
  ASSUME TypeOK, NEW T \in SUBSET buffered
  PROVE  /\ Cardinality(T) \in Nat /\ Cardinality(buffered \ T) \in Nat
         /\ Cardinality(buffered \ T) = Cardinality(buffered) - Cardinality(T)
<1>1. IsFiniteSet(T) /\ IsFiniteSet(buffered \ T)
  BY PartsAreFinite
<1>2. (buffered \ T) \cup T = buffered /\ (buffered \ T) \cap T = {}
  OBVIOUS
<1>3. Cardinality(buffered)
        = Cardinality(buffered \ T) + Cardinality(T) - Cardinality({})
  BY <1>1, <1>2, FS_Union
<1> QED
  BY <1>1, <1>3, FS_EmptySet, FS_CardinalityType

LEMMA ConservationStep ==
  TypeOK /\ PacketConservation /\ [Next]_vars => PacketConservation'
<1> SUFFICES ASSUME TypeOK, PacketConservation, [Next]_vars
             PROVE  PacketConservation'
  OBVIOUS
<1>0. /\ totals.buffered \in Nat /\ totals.delivered \in Nat
      /\ totals.dropped \in Nat /\ lost_to_reset \in Nat /\ totals \in Totals
      /\ Cardinality(buffered) \in Nat
      /\ totals.buffered =
           totals.delivered + totals.dropped + lost_to_reset + Cardinality(buffered)
  BY PartsAreFinite DEF TypeOK, PacketConservation, Totals
<1>1. ASSUME NEW s \in SeqNum, NEW headroom \in JitterHeadrooms,
             PushPacket(s, headroom)
      PROVE  PacketConservation'
  <2>1. CASE Refuse(s)
    BY <2>1 DEF Refuse, PacketConservation, buffered
  <2>2. CASE Store(s, headroom)
    <3>1. Overflow \in SUBSET buffered /\ s \notin buffered
      BY <2>2 DEF Overflow, Store
    <3>2. buffered' = (buffered \ Overflow) \cup {s}
      BY <2>2 DEF Store, buffered
    <3>3. /\ Cardinality(Overflow) \in Nat
          /\ Cardinality(buffered')
               = Cardinality(buffered) - Cardinality(Overflow) + 1
      <4>1. IsFiniteSet(buffered \ Overflow) /\ s \notin buffered \ Overflow
        BY <3>1, PartsAreFinite
      <4>2. Cardinality(buffered') = Cardinality(buffered \ Overflow) + 1
        BY <3>2, <4>1, FS_AddElement
      <4> QED
        BY <3>1, <4>2, PartSizes
    <3>4. /\ totals'.buffered = totals.buffered + 1
          /\ totals'.dropped = totals.dropped + Cardinality(Overflow)
          /\ totals'.delivered = totals.delivered /\ lost_to_reset' = lost_to_reset
      BY <1>0, <2>2 DEF Store, Totals
    <3> QED
      BY <1>0, <3>3, <3>4 DEF PacketConservation
  <2> QED
    BY <1>1, <2>1, <2>2 DEF PushPacket
<1>2. ASSUME NEW s \in buffered, buffered' = buffered \ {s},
             totals'.buffered = totals.buffered, lost_to_reset' = lost_to_reset,
             totals'.delivered + totals'.dropped = totals.delivered + totals.dropped + 1,
             totals'.delivered \in Nat, totals'.dropped \in Nat
      PROVE  PacketConservation'
  <2>1. {s} \in SUBSET buffered /\ Cardinality({s}) = 1
    BY FS_Singleton
  <2>2. Cardinality(buffered') = Cardinality(buffered) - 1
    BY <1>2, <2>1, PartSizes
  <2> QED
    BY <1>0, <1>2, <2>2 DEF PacketConservation
<1>3. ASSUME NEW s \in buffered, PopReady(s) \/ Evict(s) PROVE PacketConservation'
  <2>1. /\ buffered' = buffered \ {s} /\ lost_to_reset' = lost_to_reset
        /\ \/ totals' = [totals EXCEPT !.delivered = @ + 1]
           \/ totals' = [totals EXCEPT !.dropped = @ + 1]
    BY <1>3 DEF PopReady, Evict, Without, Restrict, buffered, history
  <2>2. /\ totals'.buffered = totals.buffered
        /\ totals'.delivered \in Nat /\ totals'.dropped \in Nat
        /\ totals'.delivered + totals'.dropped = totals.delivered + totals.dropped + 1
    BY <1>0, <2>1 DEF Totals
  <2> QED
    BY <1>2, <2>1, <2>2
<1>4. ASSUME NEW delay \in MinTargetDelay..MaxTargetDelay, SetTargetDelay(delay)
      PROVE  PacketConservation'
  BY <1>4 DEF SetTargetDelay, history, PacketConservation, buffered
<1>5. CASE BeginClear \/ BeginPop \/ PopNothing \/ StoreLen
  BY <1>5 DEF BeginClear, BeginPop, PopNothing, StoreLen, history, PacketConservation, buffered
<1>6. ASSUME NEW s \in buffered, FlushOne(s) PROVE PacketConservation'
  <2>1. /\ buffered' = buffered \ {s} /\ lost_to_reset' = lost_to_reset
        /\ totals' = [totals EXCEPT !.delivered = @ + 1]
    BY <1>6 DEF FlushOne, Without, Restrict, buffered
  <2>2. /\ totals'.buffered = totals.buffered
        /\ totals'.delivered \in Nat /\ totals'.dropped \in Nat
        /\ totals'.delivered + totals'.dropped = totals.delivered + totals.dropped + 1
    BY <1>0, <2>1 DEF Totals
  <2> QED
    BY <1>2, <2>1, <2>2
<1>7. ASSUME NEW s \in buffered, Spare(s) PROVE PacketConservation'
  BY <1>7 DEF Spare, history, PacketConservation, buffered
<1>8. CASE Reset
  <2>1. /\ buffered' = {} /\ lost_to_reset' = lost_to_reset + Cardinality(buffered)
        /\ UNCHANGED totals
    BY <1>8 DEF Reset, buffered
  <2>2. Cardinality(buffered') = 0
    BY <2>1, FS_EmptySet
  <2> QED
    BY <1>0, <2>1, <2>2 DEF PacketConservation
<1>9. CASE Tick
  BY <1>9 DEF Tick, history, PacketConservation, buffered
<1>10. CASE UNCHANGED vars
  BY <1>10 DEF vars, history, PacketConservation, buffered
<1> QED
  BY <1>1, <1>2, <1>3, <1>4, <1>5, <1>6, <1>7, <1>8, <1>9, <1>10
  DEF Next, PopPacket

\* No packet accepted is forgotten or counted twice.
THEOREM PacketsAreConserved == Spec => []PacketConservation
<1>1. Init => PacketConservation
  <2> SUFFICES ASSUME Init PROVE PacketConservation
    OBVIOUS
  <2>1. Cardinality(buffered) = 0
    BY FS_EmptySet DEF Init, buffered
  <2> QED
    BY <2>1 DEF Init, PacketConservation
<1> QED
  BY <1>1, ConservationStep, TypeCorrect, PTL DEF Spec

-----------------------------------------------------------------------------
(* The size of the buffer *)

\* A buffer that is not empty has a lowest sequence number.
LEMMA LowestExists ==
  ASSUME NEW T \in SUBSET Nat, T # {}
  PROVE  \E m \in T : IsLowest(m, T)
<1> DEFINE Below == OpToRel(<, Nat)
<1>1. \A x, y \in Nat : <<x, y>> \in Below <=> x < y
  BY DEF OpToRel
<1>2. IsWellFoundedOn(Below, Nat)
  BY NatLessThanWellFounded
<1> HIDE DEF Below
<1>3. PICK m \in T : \A t \in T : ~(<<t, m>> \in Below)
  BY <1>2, WFMin
<1>4. \A t \in T : m <= t
  <2> SUFFICES ASSUME NEW t \in T PROVE m <= t
    OBVIOUS
  <2>1. m \in Nat /\ t \in Nat
    OBVIOUS
  <2>2. ~(t < m)
    BY <1>1, <1>3, <2>1
  <2> QED
    BY <2>1, <2>2
<1> QED
  BY <1>4 DEF IsLowest

\* Dropping the lowest packet of a full buffer makes room for one.
LEMMA RoomForOne ==
  ASSUME TypeOK, Cardinality(buffered) <= MaxBufferSize
  PROVE  /\ Overflow \in SUBSET buffered
         /\ Cardinality(buffered \ Overflow) \in Nat
         /\ Cardinality(buffered \ Overflow) + 1 <= MaxBufferSize
<1>1. /\ MaxBufferSize \in Nat \ {0} /\ SeqNum \subseteq Nat /\ buffered \subseteq SeqNum
      /\ Cardinality(buffered) \in Nat
  BY PartsAreFinite, ConfigAssumption DEF ConfigAssumption, validate, SeqNum, TypeOK
<1>2. Overflow \in SUBSET buffered
  BY DEF Overflow
<1>3. CASE Cardinality(buffered) < MaxBufferSize
  <2>1. Overflow = {}
    BY <1>1, <1>3 DEF Overflow
  <2> QED
    BY <1>1, <1>2, <1>3, <2>1
<1>4. CASE Cardinality(buffered) = MaxBufferSize
  <2>1. buffered # {}
    BY <1>1, <1>4, FS_EmptySet
  <2>2. PICK m \in buffered : IsLowest(m, buffered)
    BY <1>1, <2>1, LowestExists
  <2>3. Overflow = {m}
    <3>1. Overflow = {s \in buffered : IsLowest(s, buffered)}
      BY <1>1, <1>4 DEF Overflow
    <3>2. \A s \in buffered : IsLowest(s, buffered) => s = m
      BY <1>1, <2>2 DEF IsLowest
    <3> QED
      BY <2>2, <3>1, <3>2
  <2>4. Cardinality({m}) = 1
    BY FS_Singleton
  <2>5. Cardinality(buffered \ Overflow) = Cardinality(buffered) - 1
    BY <1>2, <2>3, <2>4, PartSizes
  <2> QED
    BY <1>1, <1>2, <1>4, <2>5
<1> QED
  BY <1>1, <1>3, <1>4

LEMMA SizeStep == TypeOK /\ SizeAgrees /\ [Next]_vars => SizeAgrees'
<1> SUFFICES ASSUME TypeOK, SizeAgrees, [Next]_vars PROVE SizeAgrees'
  OBVIOUS
<1> DEFINE n == Cardinality(buffered)
<1>0. /\ totals.occupancy <= MaxBufferSize
      /\ n <= MaxBufferSize /\ approx_len <= MaxBufferSize
      /\ mutex = "free" => n = approx_len
      /\ n <= approx_len + (IF mutex = "pushed" THEN 1 ELSE 0)
  BY DEF SizeAgrees
<1>c. /\ MaxBufferSize \in Nat \ {0} /\ approx_len \in Nat /\ n \in Nat
      /\ totals \in Totals /\ totals.occupancy \in Nat
  BY PartsAreFinite, ConfigAssumption DEF ConfigAssumption, validate, TypeOK, Totals
<1>1. ASSUME NEW s \in SeqNum, NEW headroom \in JitterHeadrooms, PushPacket(s, headroom)
      PROVE  SizeAgrees'
  <2>0. mutex = "free" /\ mutex' = "pushed" /\ approx_len' = approx_len
    BY <1>1 DEF PushPacket
  <2>1. CASE Refuse(s)
    <3>1. buffered' = buffered /\ totals' = totals
      BY <2>1 DEF Refuse, buffered
    <3> QED
      BY <1>0, <1>c, <2>0, <3>1 DEF SizeAgrees
  <2>2. CASE Store(s, headroom)
    <3> DEFINE kept == (buffered \ Overflow) \cup {s}
               rest == Cardinality(buffered \ Overflow)
    <3>1. buffered' = kept /\ s \notin buffered
      BY <2>2 DEF Store, buffered
    <3>2. /\ IsFiniteSet(buffered \ Overflow) /\ rest \in Nat
          /\ rest + 1 <= MaxBufferSize /\ Overflow \in SUBSET buffered
      BY <1>0, RoomForOne, PartsAreFinite
    <3>3. Cardinality(kept) = rest + 1
      BY <3>1, <3>2, FS_AddElement
    <3>4. totals'.occupancy = AtLeast(totals.occupancy, Cardinality(kept))
      BY <1>c, <2>2 DEF Store, Totals
    <3>5. rest <= n
      <4>1. rest = n - Cardinality(Overflow) /\ Cardinality(Overflow) \in Nat
        BY <3>2, PartSizes
      <4> HIDE DEF n, rest
      <4> QED
        BY <1>c, <3>2, <4>1
    <3> HIDE DEF kept, n, rest
    <3>6. Cardinality(kept) <= MaxBufferSize /\ Cardinality(kept) <= approx_len + 1
      BY <1>0, <1>c, <2>0, <3>2, <3>3, <3>5
    <3> QED
      BY <1>0, <2>0, <3>1, <3>4, <3>6 DEF SizeAgrees, AtLeast
  <2> QED
    BY <1>1, <2>1, <2>2 DEF PushPacket
<1>2. ASSUME NEW s \in buffered, buffered' = buffered \ {s}, approx_len' = approx_len,
             totals'.occupancy = totals.occupancy, mutex # "pushed", mutex' # "free"
      PROVE  SizeAgrees'
  <2>1. Cardinality(buffered') = n - 1
    <3>1. {s} \in SUBSET buffered /\ Cardinality({s}) = 1
      BY FS_Singleton
    <3> QED
      BY <1>2, <3>1, PartSizes
  <2> HIDE DEF n
  <2> QED
    BY <1>0, <1>2, <1>c, <2>1 DEF SizeAgrees
<1>3. ASSUME NEW s \in buffered, PopReady(s) \/ Evict(s) \/ FlushOne(s) PROVE SizeAgrees'
  <2>1. /\ buffered' = buffered \ {s} /\ approx_len' = approx_len
        /\ mutex # "pushed" /\ mutex' # "free"
    BY <1>3 DEF PopReady, Evict, FlushOne, Without, Restrict, buffered, call
  <2>2. totals'.occupancy = totals.occupancy
    BY <1>3, <1>c DEF PopReady, Evict, FlushOne, Totals
  <2> QED
    BY <1>2, <2>1, <2>2
<1>4. CASE StoreLen
  <2>1. /\ buffered' = buffered /\ approx_len' = n /\ mutex' = "free" /\ totals' = totals
    BY <1>4 DEF StoreLen, buffered
  <2> QED
    BY <1>0, <1>c, <2>1 DEF SizeAgrees
<1>5. CASE Reset
  <2>1. /\ buffered' = {} /\ approx_len' = approx_len /\ mutex' = "removed" /\ totals' = totals
    BY <1>5 DEF Reset, buffered
  <2> QED
    BY <1>0, <1>c, <2>1, FS_EmptySet DEF SizeAgrees
<1>6. ASSUME buffered' = buffered, UNCHANGED <<approx_len, totals>>,
             \/ mutex' = mutex
             \/ mutex # "pushed" /\ mutex' # "free"
      PROVE  SizeAgrees'
  BY <1>0, <1>6, <1>c DEF SizeAgrees
<1>7. ASSUME NEW delay \in MinTargetDelay..MaxTargetDelay, SetTargetDelay(delay)
      PROVE  SizeAgrees'
  BY <1>6, <1>7 DEF SetTargetDelay, call, buffered
<1>8. CASE BeginClear \/ BeginPop \/ PopNothing
  BY <1>6, <1>8 DEF BeginClear, BeginPop, PopNothing, buffered
<1>9. ASSUME NEW s \in buffered, Spare(s) PROVE SizeAgrees'
  BY <1>6, <1>9 DEF Spare, buffered
<1>10. CASE Tick
  BY <1>6, <1>10 DEF Tick, call, buffered
<1>11. CASE UNCHANGED vars
  BY <1>6, <1>11 DEF vars, buffered
<1> QED
  BY <1>1, <1>3, <1>4, <1>5, <1>7, <1>8, <1>9, <1>10, <1>11 DEF Next, PopPacket

\* The buffer never outgrows its limit.  What size() reads, without the mutex and
\* at any point of another call, is exact between two operations; within one it
\* is never too low, but for the packet that a push_packet() has not counted yet.
THEOREM SizeIsKnown == Spec => []SizeAgrees
<1>1. Init => SizeAgrees
  <2> SUFFICES ASSUME Init PROVE SizeAgrees
    OBVIOUS
  <2>1. /\ buffered = {} /\ approx_len = 0 /\ mutex = "free" /\ totals.occupancy = 0
    BY DEF Init, buffered
  <2>2. MaxBufferSize \in Nat
    BY ConfigAssumption DEF ConfigAssumption, validate
  <2> QED
    BY <2>1, <2>2, FS_EmptySet DEF SizeAgrees
<1> QED
  BY <1>1, SizeStep, TypeCorrect, PTL DEF Spec

=============================================================================
