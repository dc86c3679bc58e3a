--------------------------- MODULE CpuClockProofs ---------------------------
(***************************************************************************)
(* Proofs about CpuClock: its books balance, for every duration of a tick, *)
(* every sampling frequency and every host.                                *)
(***************************************************************************)
EXTENDS CpuClock, TLAPS

\* The assumptions on the constants, as the leaves cite them.
LEMMA ConstantFacts ==
  /\ Period \in Nat /\ MaxResolution \in Nat /\ IntMax \in Nat
  /\ Resolutions \subseteq Nat /\ Ticks \subseteq Nat
  /\ Over \in Nat /\ Gap \in Nat /\ HostMax \in Nat
BY PeriodAssumption, IntMaxAssumption, InputsAssumption, HostAssumption

\* The duration of ticks is a natural number, and durations add up.
LEMMA DurationsAdd ==
  ASSUME NEW a \in Nat, NEW b \in Nat
  PROVE  /\ a * Period \in Nat
         /\ (a + b) * Period = a * Period + b * Period
BY ConstantFacts

\* The invariant holds of a new clock.
LEMMA InitIInv == Init => IInv
BY ConstantFacts DEF Init, IInv, TypeOK, Readings, Accounting

\* totalTicks_ is an int whatever was asked for.
LEMMA TicksPerSampleIsInt ==
  ASSUME NEW r \in Resolutions \cup {EveryTick, NoSampling}
  PROVE  TicksPerSample(r) \in Int
<1>1. CASE r \in {EveryTick, NoSampling}
  BY <1>1 DEF TicksPerSample, EveryTick, NoSampling
<1>2. CASE r \in Nat
  <2>1. r \div Period \in Int
    BY <1>2, PeriodAssumption
  <2>2. Narrow(r \div Period) \in Int
    BY <2>1, IntMaxAssumption DEF Narrow
  <2>3. QED BY <1>2, <2>2 DEF TicksPerSample, EveryTick, NoSampling
<1>3. QED BY <1>1, <1>2, ConstantFacts

\* The machine is held for a time, and for long enough.
LEMMA HeldLongEnough ==
  ASSUME NEW nanos \in Int, NEW held \in Held(nanos)
  PROVE  held \in Nat /\ nanos - held <= 0
BY ConstantFacts DEF Held

\* A sample pays for the ticks it is given, corrects the last error and leaves
\* the machine no earlier than it should be.
LEMMA SamplePays ==
  ASSUME TypeOK, Readings, NEW count \in Nat, Sample(count)
  PROVE  /\ now' \in Nat /\ error_' \in Int /\ lost' \in Nat
         /\ time_' \in Nat /\ currTime' \in Nat
         /\ lastTime_' = now' /\ epoch_ <= lastTime_'
         /\ error_' <= 0
         /\ lastTime_' + error_' - lost' = lastTime_ + count * Period + error_ - lost
<1> DEFINE nanos == count * Period - (now - lastTime_) + error_
<1>0. count * Period \in Nat
  BY DurationsAdd
<1>1. nanos \in Int
  BY <1>0 DEF TypeOK
<1>2. PICK held \in Held(nanos), gap \in 0..Gap :
        /\ error_' = nanos - held
        /\ lost' = lost + gap
        /\ Sampled(now + held + gap)
  BY DEF Sample
<1>3. held \in Nat /\ nanos - held <= 0 /\ gap \in Nat
  BY <1>1, HeldLongEnough, ConstantFacts
<1> HIDE DEF nanos
<1>4. /\ now' = now + held + gap /\ lastTime_' = now'
      /\ time_' = now' - epoch_ /\ currTime' = time_'
  BY <1>2 DEF Sampled
<1>5. error_' \in Int /\ error_' <= 0 /\ lost' \in Nat /\ now' \in Nat
  BY <1>1, <1>2, <1>3, <1>4 DEF TypeOK
<1>6. epoch_ <= lastTime_' /\ time_' \in Nat /\ currTime' \in Nat
  BY <1>3, <1>4, <1>5 DEF TypeOK, Readings
<1>7. lastTime_' + error_' - lost' = lastTime_ + count * Period + error_ - lost
  BY <1>0, <1>1, <1>2, <1>3, <1>4 DEF nanos, TypeOK
<1>8. QED BY <1>4, <1>5, <1>6, <1>7

\* If the books balanced before a sample, they do after it; the durations of the
\* ticks sampled, of those before them and of the new ones are plain numbers.
LEMMA BalanceCarriesOver ==
  ASSUME NEW last \in Int, NEW last2 \in Int, NEW epoch \in Int,
         NEW err \in Int, NEW err2 \in Int, NEW gaps \in Int, NEW gaps2 \in Int,
         NEW waiting \in Int, NEW new \in Int, NEW done \in Int, NEW start \in Int,
         last2 + err2 - gaps2 = last + (waiting + new) + err - gaps,
         last - epoch + err + waiting = done + start + gaps
  PROVE  last2 - epoch + err2 = (done + new) + start + gaps2
OBVIOUS

\* A tick of any length preserves the invariant, sampled or not.
LEMMA TickIInv == ASSUME IInv, NEW t \in Ticks, Tick(t) PROVE IInv'
<1> DEFINE count == tickCount_ + t
<1>0. /\ t \in Nat /\ count \in Nat
      /\ ticks \in Nat /\ tickCount_ \in Nat
  BY ConstantFacts DEF IInv, TypeOK
<1>1. /\ phase = "ticking" /\ UNCHANGED <<setting, epoch_, phase, carried>>
  BY DEF Tick
<1>2. CASE totalTicks_ < 0 /\ Sampled(now)
           /\ UNCHANGED <<tickCount_, error_, ticks, lost>>
  BY <1>1, <1>2 DEF Sampled, setting, IInv, TypeOK, Readings, Accounting
<1>3. CASE totalTicks_ >= 0 /\ Sample(count) /\ tickCount_' = 0 /\ ticks' = ticks + t
  <2> HIDE DEF count
  <2>1. /\ now' \in Nat /\ error_' \in Int /\ lost' \in Nat
        /\ time_' \in Nat /\ currTime' \in Nat
        /\ lastTime_' = now' /\ epoch_ <= lastTime_'
        /\ error_' <= 0
        /\ lastTime_' + error_' - lost' = lastTime_ + count * Period + error_ - lost
    BY <1>0, <1>3, SamplePays DEF IInv
  <2>2. TypeOK' /\ Readings'
    BY <1>0, <1>1, <1>3, <2>1 DEF setting, IInv, TypeOK, Readings
  <2>3. /\ count * Period = tickCount_ * Period + t * Period
        /\ (ticks + t) * Period = ticks * Period + t * Period
        /\ {tickCount_ * Period, t * Period, ticks * Period} \subseteq Nat
        /\ 0 * Period = 0
    BY <1>0, DurationsAdd, ConstantFacts DEF count
  <2>4. lastTime_ - epoch_ + error_ + tickCount_ * Period
          = ticks * Period + carried + lost
    BY <1>1, <1>3 DEF IInv, Accounting
  <2>5. /\ {lastTime_, lastTime_', epoch_, error_, error_', lost, lost', carried}
             \subseteq Int
        /\ {tickCount_ * Period, t * Period, ticks * Period} \subseteq Int
    BY <2>1, <2>3 DEF IInv, TypeOK
  <2>6. lastTime_' - epoch_ + error_' = (ticks * Period + t * Period) + carried + lost'
    BY <2>1, <2>3, <2>4, <2>5, BalanceCarriesOver
  <2>7. lastTime_' - epoch_ + error_' + 0 * Period
          = (ticks + t) * Period + carried + lost'
    BY <2>3, <2>5, <2>6
  <2>8. Accounting'
    BY <1>1, <1>3, <2>7 DEF Accounting
  <2>9. QED BY <2>2, <2>8 DEF IInv
<1>4. CASE /\ ~Due(count) /\ tickCount_' = count /\ ticks' = ticks + t
           /\ currTime' = time_
           /\ UNCHANGED <<now, error_, lastTime_, time_, lost>>
  <2> HIDE DEF count
  <2>1. TypeOK' /\ Readings'
    BY <1>0, <1>1, <1>4 DEF setting, IInv, TypeOK, Readings
  <2>2. /\ count * Period = tickCount_ * Period + t * Period
        /\ (ticks + t) * Period = ticks * Period + t * Period
        /\ {tickCount_ * Period, t * Period, ticks * Period} \subseteq Nat
    BY <1>0, DurationsAdd DEF count
  <2>3. CASE totalTicks_ < 0
    <3>1. ~(totalTicks_' >= 0)
      BY <1>1, <2>3 DEF setting, IInv, TypeOK
    <3>2. QED BY <2>1, <3>1 DEF IInv, Accounting
  <2>4. CASE totalTicks_ >= 0
    <3>1. lastTime_ - epoch_ + error_ + tickCount_ * Period
            = ticks * Period + carried + lost
      BY <1>1, <2>4 DEF IInv, Accounting
    <3>2. lastTime_ - epoch_ + error_ + count * Period
            = (ticks + t) * Period + carried + lost
      BY <2>2, <3>1 DEF IInv, TypeOK
    <3>3. Accounting'
      BY <1>1, <1>4, <3>2 DEF Accounting
    <3>4. QED BY <2>1, <3>3 DEF IInv
  <2>5. QED BY <2>3, <2>4 DEF IInv, TypeOK
<1>5. QED BY <1>2, <1>3, <1>4 DEF Tick

\* Every step of the clock, its machine and its host preserves the invariant.
LEMMA NextIInv == IInv /\ [Next]_vars => IInv'
<1> SUFFICES ASSUME IInv, [Next]_vars PROVE IInv'
  OBVIOUS
<1> USE DEF IInv, TypeOK, Readings, Accounting, setting, history
<1>1. CASE Elapse
  BY <1>1 DEF Elapse
<1>2. ASSUME NEW r \in Resolutions \cup {EveryTick, NoSampling}, SetSamplingFrequency(r)
      PROVE  IInv'
  <2>1. totalTicks_' \in Int
    BY <1>2, TicksPerSampleIsInt DEF SetSamplingFrequency
  <2>2. phase' \in {"stopped", "starting"}
    BY <1>2 DEF SetSamplingFrequency
  <2>3. QED BY <1>2, <2>1, <2>2 DEF SetSamplingFrequency
<1>3. CASE Reset
  <2>1. tickCount_ * Period \in Nat /\ 0 * Period = 0
    BY DurationsAdd, ConstantFacts
  <2>2. QED BY <1>3, <2>1 DEF Reset
<1>4. ASSUME NEW t \in Ticks, Tick(t) PROVE IInv'
  BY <1>4, TickIInv
<1>5. CASE Stop
  BY <1>5 DEF Stop
<1>6. CASE UNCHANGED vars
  BY <1>6 DEF vars
<1>7. QED BY <1>1, <1>2, <1>3, <1>4, <1>5, <1>6 DEF Next

\* The clock's history stays consistent in every Run.
THEOREM ClockIsConsistent == Spec => []IInv
BY InitIInv, NextIInv, PTL DEF Spec

\* The clock's books balance in every state of every Run.
THEOREM BooksBalance == Spec => []Accounting
<1>1. IInv => Accounting
  BY DEF IInv
<1>2. QED BY <1>1, ClockIsConsistent, PTL

\* A sampled machine is never ahead of its speed but for the lag it began with.
THEOREM SpeedNeverExceeded == Spec => []NeverFast
<1>1. IInv => NeverFast
  <2> SUFFICES ASSUME IInv, phase = "ticking", totalTicks_ >= 0
               PROVE  lastTime_ - epoch_ + tickCount_ * Period >= ticks * Period + carried
    BY DEF NeverFast
  <2>1. tickCount_ * Period \in Nat /\ ticks * Period \in Nat
    BY DurationsAdd DEF IInv, TypeOK
  <2>2. lastTime_ - epoch_ + error_ + tickCount_ * Period
          = ticks * Period + carried + lost
    BY DEF IInv, Accounting
  <2>3. QED BY <2>1, <2>2 DEF IInv, TypeOK, Readings
<1>2. QED BY <1>1, ClockIsConsistent, PTL

\* Once a Run has ticked, no more ticks than an interval's wait to be sampled.
THEOREM SamplesAreInTime == Spec => []SampledInTime
<1>1. Init => SampledInTime
  BY DEF Init, SampledInTime
<1>2. IInv /\ SampledInTime /\ [Next]_vars => SampledInTime'
  <2> SUFFICES ASSUME IInv, SampledInTime, [Next]_vars PROVE SampledInTime'
    OBVIOUS
  <2> USE DEF SampledInTime, setting, history
  <2>1. CASE Elapse \/ Stop \/ UNCHANGED vars
    BY <2>1 DEF Elapse, Stop, vars
  <2>2. ASSUME NEW r \in Resolutions \cup {EveryTick, NoSampling},
               SetSamplingFrequency(r)
        PROVE  SampledInTime'
    BY <2>2 DEF SetSamplingFrequency
  <2>3. CASE Reset
    BY <2>3 DEF Reset
  <2>4. ASSUME NEW t \in Ticks, Tick(t) PROVE SampledInTime'
    <3>1. totalTicks_ \in Int /\ tickCount_ \in Nat /\ t \in Nat /\ totalTicks_' = totalTicks_
      BY <2>4, ConstantFacts DEF IInv, TypeOK, Tick
    <3>2. CASE totalTicks_ < 0
      BY <3>1, <3>2
    <3>3. CASE tickCount_' = 0
      BY <3>3
    <3>4. CASE ~Due(tickCount_ + t) /\ tickCount_' = tickCount_ + t
      BY <3>1, <3>4 DEF Due
    <3>5. QED BY <2>4, <3>2, <3>3, <3>4 DEF Tick
  <2>5. QED BY <2>1, <2>2, <2>3, <2>4 DEF Next
<1>3. QED BY <1>1, <1>2, ClockIsConsistent, PTL DEF Spec
=============================================================================
