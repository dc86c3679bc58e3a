------------------------------ MODULE CpuClock ------------------------------
(***************************************************************************)
(* CpuClock: it holds the thread of RunMachine back so that the emulated   *)
(* cpu keeps to its speed, and tells the machine the host's time.  One     *)
(* clock serves every Run of its machine, so what a Run leaves in it is    *)
(* there in the next.  Times are in nanoseconds of the host's clock.       *)
(*                                                                         *)
(* A definition named D_Something is D with a plausible bug.  Nothing uses *)
(* it: a property that cannot tell it from D says nothing about D.         *)
(***************************************************************************)
EXTENDS Integers

CONSTANTS
  Period,         \* timePeriod_: the duration of one tick
  MaxResolution,  \* maxResolution_: the shortest sampling interval of the host
  IntMax,         \* the largest int
  Resolutions,    \* the sampling intervals of the frequencies above zero
  Ticks,          \* ticks of an instruction or an interrupt; 0 while halted
  Over,           \* how long the host sleeps or spins beyond what was asked
  Gap,            \* how long the host takes between two readings of its clock
  HostMax         \* bound of the model: when the host's clock is not read again

ASSUME PeriodAssumption == Period \in Nat \ {0} /\ MaxResolution \in Nat
ASSUME IntMaxAssumption == IntMax \in Nat
ASSUME InputsAssumption == Resolutions \subseteq Nat /\ Ticks \subseteq Nat
ASSUME HostAssumption == Over \in Nat /\ Gap \in Nat /\ HostMax \in Nat

VARIABLES
  now,            \* the host's steady_clock
  errc_,          \* could the constructor not read the host's resolution?
  totalTicks_,    \* ticks between two samples; 0 sample always, < 0 never
  tickCount_,     \* ticks since the last sample
  error_,         \* what the machine is ahead of (negative: behind) the host
  epoch_, lastTime_, time_,
  phase,          \* where Machine::Run is: "stopped", "starting", "ticking"
  currTime,       \* the time the machine was told last in this Run
  \* history, never read by the program
  ticks,          \* the ticks since Reset
  carried,        \* what Reset left in error_ and tickCount_
  lost            \* host time since Reset that passed between two readings

setting == <<errc_, totalTicks_>>
history == <<ticks, carried, lost>>
vars == <<now, setting, tickCount_, error_, epoch_, lastTime_, time_, phase, currTime,
          history>>

EveryTick == -2       \* a sampling frequency of 0
NoSampling == -1      \* a negative one

\* static_cast<int>
Narrow(n) == ((n + IntMax + 1) % (2 * IntMax + 2)) - IntMax - 1

Init ==
  /\ now = 0
  /\ errc_ \in BOOLEAN
  /\ totalTicks_ = -1 /\ tickCount_ = 0 /\ error_ = 0
  /\ epoch_ = 0 /\ lastTime_ = 0 /\ time_ = 0
  /\ phase = "stopped" /\ currTime = 0
  /\ ticks = 0 /\ carried = 0 /\ lost = 0

-----------------------------------------------------------------------------

\* The host does something else.
Elapse ==
  /\ now < HostMax
  /\ now' = now + 1
  /\ UNCHANGED <<setting, tickCount_, error_, epoch_, lastTime_, time_, phase, currTime,
                 history>>

TicksPerSample(r) ==
  CASE r = EveryTick -> 0
    [] r = NoSampling -> -1
    [] OTHER -> Narrow(r \div Period)

\* Machine::Run starts with SetSamplingFrequency, which keeps an interval it
\* complains about.
SetSamplingFrequency(r) ==
  /\ phase = "stopped"
  /\ totalTicks_' = IF errc_ THEN totalTicks_ ELSE TicksPerSample(r)
  /\ phase' = IF errc_ \/ (r >= 0 /\ r < MaxResolution) THEN "stopped" ELSE "starting"
  /\ currTime' = 0
  /\ UNCHANGED <<now, errc_, tickCount_, error_, epoch_, lastTime_, time_, history>>

\* RunMachine resets the clock before its first instruction.
Reset ==
  /\ phase = "starting"
  /\ epoch_' = now
  /\ lastTime_' = now
  /\ phase' = "ticking"
  /\ ticks' = 0 /\ lost' = 0
  /\ carried' = error_ + tickCount_ * Period
  /\ UNCHANGED <<now, setting, tickCount_, error_, time_, currTime>>

\* sleepFor and spinFor hold the thread for nanos, and perhaps for some more;
\* a machine that is behind is not held at all.
Held_ForMost(nanos) ==
  IF nanos > 0 THEN (nanos - nanos \div 3)..(nanos + Over) ELSE {0}

Held(nanos) == IF nanos > 0 THEN nanos..(nanos + Over) ELSE {0}

Due_Late(count) == totalTicks_ < 0 \/ count > totalTicks_

Due(count) == totalTicks_ < 0 \/ count >= totalTicks_

\* The part of Tick that ends with a reading of the host's clock.
Sampled(at) ==
  /\ now' = at /\ at <= HostMax
  /\ lastTime_' = at
  /\ time_' = at - epoch_
  /\ currTime' = time_'

\* Every sample is corrected by the error of the last.
Sample_Uncorrected(count) ==
  \E held \in Held(count * Period - (now - lastTime_)), gap \in 0..Gap :
    /\ error_' = count * Period - (now - lastTime_) - held
    /\ lost' = lost + gap
    /\ Sampled(now + held + gap)

Sample(count) ==
  LET nanos == count * Period - (now - lastTime_) + error_
  IN  \E held \in Held(nanos), gap \in 0..Gap :
        /\ error_' = nanos - held
        /\ lost' = lost + gap
        /\ Sampled(now + held + gap)

Tick(t) ==
  LET count == tickCount_ + t
  IN  /\ phase = "ticking"
      /\ \/ /\ totalTicks_ < 0
            /\ Sampled(now)
            /\ UNCHANGED <<tickCount_, error_, ticks, lost>>
         \/ /\ totalTicks_ >= 0 /\ Due(count)
            /\ Sample(count)
            /\ tickCount_' = 0
            /\ ticks' = ticks + t
         \/ /\ ~Due(count)
            /\ tickCount_' = count
            /\ ticks' = ticks + t
            /\ currTime' = time_
            /\ UNCHANGED <<now, error_, lastTime_, time_, lost>>
      /\ UNCHANGED <<setting, epoch_, phase, carried>>

\* RunMachine returns.
Stop ==
  /\ phase = "ticking"
  /\ phase' = "stopped"
  /\ UNCHANGED <<now, setting, tickCount_, error_, epoch_, lastTime_, time_, currTime,
                 history>>

Next ==
  \/ Elapse
  \/ \E r \in Resolutions \cup {EveryTick, NoSampling} : SetSamplingFrequency(r)
  \/ Reset
  \/ \E t \in Ticks : Tick(t)
  \/ Stop

Spec == Init /\ [][Next]_vars

-----------------------------------------------------------------------------
(* Properties.                                                             *)

\* Every variable stays within its type.
TypeOK ==
  /\ now \in Nat /\ epoch_ \in Nat /\ lastTime_ \in Nat
  /\ time_ \in Nat /\ currTime \in Nat
  /\ errc_ \in BOOLEAN
  /\ totalTicks_ \in Int /\ tickCount_ \in Nat
  /\ error_ \in Int /\ carried \in Int
  /\ phase \in {"stopped", "starting", "ticking"}
  /\ ticks \in Nat /\ lost \in Nat

\* While a Run samples the host, no tick is forgotten and none is paid for
\* twice: the host time it took, what it is ahead and what it has not sampled
\* yet add up to the duration of its ticks, what it started with and what the
\* host took between two readings.
Accounting ==
  phase = "ticking" /\ totalTicks_ >= 0 =>
    lastTime_ - epoch_ + error_ + tickCount_ * Period
      = ticks * Period + carried + lost

\* At a sample the machine is never ahead of its speed: its ticks took at least
\* their duration, but for the lag it started with.
NeverFast ==
  phase = "ticking" /\ totalTicks_ >= 0 =>
    lastTime_ - epoch_ + tickCount_ * Period >= ticks * Period + carried

\* No more ticks than those of a sampling interval wait for their sample, once
\* the Run has ticked.
SampledInTime ==
  phase = "ticking" /\ totalTicks_ >= 0 /\ ticks > 0 =>
    tickCount_ < totalTicks_ \/ tickCount_ = 0

\* The time a machine is told moves only forward during a Run: the clock "can
\* only move forward" (ICpuClock::Tick).
MovesForward ==
  [][phase = "ticking" /\ phase' = "ticking" => currTime' >= currTime]_vars

-----------------------------------------------------------------------------
(* The inductive invariant behind Accounting and NeverFast.                *)

\* The host's clock was read in order, and a machine is never left ahead.
Readings ==
  /\ epoch_ <= lastTime_ /\ lastTime_ <= now
  /\ error_ <= 0

IInv ==
  /\ TypeOK
  /\ Readings
  /\ Accounting
=============================================================================
