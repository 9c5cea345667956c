---------------------------- MODULE RaplSampler ----------------------------
(***************************************************************************)
(* The sampling loop of the power gadget, do_print_energy_info in          *)
(* IntelPowerGadget/PowerUsage.c, against the energy counters it samples.  *)
(*                                                                         *)
(* A meter is a supported domain of a package, in the order in which the   *)
(* nested loops visit them.  Its counter is the hardware's: it counts in   *)
(* units and wraps around.  The code's joules are a power of two times the *)
(* units, so its arithmetic on doubles is exact, and it is done in units   *)
(* here.  The times the code computes as differences of gettimeofday are   *)
(* kept as what has passed since.                                          *)
(*                                                                         *)
(* What really happened to a meter is recorded in ghost variables that no  *)
(* guard reads.                                                            *)
(***************************************************************************)
EXTENDS Integers

CONSTANTS
  N,        \* number of meters
  Modulus,  \* the counter wraps at this number of units: 2^32
  Delay,    \* delay_us
  Duration, \* duration
  MaxPower, \* the most units a meter counts in one tick of the clock
  MaxSlack, \* bound: the ticks of one iteration outside of usleep
  Garbage   \* what a reading that failed leaves in the uninitialized double

\* cmdline refuses a delay of 50 ms or less and a duration of 0.
ASSUME SamplerAssumption ==
  /\ N \in Nat \ {0}
  /\ Modulus \in Nat \ {0}
  /\ Delay \in Nat \ {0} /\ Duration \in Nat \ {0}
  /\ MaxPower \in Nat /\ MaxSlack \in Nat
  /\ Garbage \subseteq Int

Meter == 1 .. N

\* MAX_ENERGY_STATUS_JOULES, in units
MaxEnergy == Modulus - 1

VARIABLES
  stage, m,    \* the statement and the meter that is next
  prev,     \* prev_sample
  delta,    \* what power_watt is computed from
  interval, \* interval_elapsed_time, the divisor of every power_watt
  lag,      \* the time since gettimeofday was last stored in end
  elapsed,  \* the time since start; stops at Duration
  total,    \* total_elapsed_time; stops at Duration
  asleep,   \* what is left of usleep
  counter,  \* the hardware's counters
  slack,    \* ticks of this iteration outside of usleep
  used,     \* ghost: the units a meter has counted since its last reading
  since,    \* ghost: the time since its last reading
  good,     \* ghost: its last reading succeeded
  truth     \* ghost: the interval between its last two readings

code   == <<stage, m, prev, delta, interval, total, asleep>>
clocks == <<lag, elapsed>>
ghosts == <<used, since, good, truth>>
samplerVars == <<code, clocks, counter, slack, ghosts>>

SamplerInit ==
  /\ stage = "initial" /\ m = 1
  /\ prev = [k \in Meter |-> 0]
  /\ delta = [k \in Meter |-> 0]
  /\ interval = 0 /\ lag = 0 /\ elapsed = 0 /\ total = 0 /\ asleep = 0 /\ slack = 0
  /\ counter \in [Meter -> 0 .. Modulus - 1]
  /\ used = [k \in Meter |-> 0]
  /\ since = [k \in Meter |-> 0]
  /\ good = [k \in Meter |-> FALSE]
  /\ truth = [k \in Meter |-> [energy |-> 0, time |-> 0, good |-> FALSE]]

-----------------------------------------------------------------------------
AtMost(n, bound) == IF n < bound THEN n ELSE bound

\* Time passes and energy is consumed, whatever the program does.
Tick ==
  /\ stage # "done"
  /\ IF asleep > 0
     THEN asleep' = asleep - 1 /\ slack' = slack
     ELSE slack < MaxSlack /\ slack' = slack + 1 /\ asleep' = asleep
  /\ lag' = lag + 1
  /\ elapsed' = AtMost(elapsed + 1, Duration)
  /\ since' = [k \in Meter |-> since[k] + 1]
  /\ \E units \in [Meter -> 0 .. MaxPower] :
       /\ counter' = [k \in Meter |-> (counter[k] + units[k]) % Modulus]
       /\ used' = [k \in Meter |-> used[k] + units[k]]
  /\ UNCHANGED <<stage, m, prev, delta, interval, total, good, truth>>

\* get_rapl_energy_info: the error code is ignored.
Reading(v, ok) == IF ok THEN v = counter[m] ELSE v \in Garbage

\* The ghosts of meter m when it is read.
Observe(ok) ==
  /\ used' = [used EXCEPT ![m] = 0]
  /\ since' = [since EXCEPT ![m] = 0]
  /\ good' = [good EXCEPT ![m] = ok]
  /\ truth' = [truth EXCEPT ![m] =
                 [energy |-> used[m], time |-> since[m], good |-> good[m] /\ ok]]

\* The loop over the meters goes on, or ends with statement last.
NextMeter(last) ==
  /\ m' = IF m < N THEN m + 1 ELSE 1
  /\ stage' = IF m < N THEN stage ELSE last

\* prev_sample[i][domain] = get_rapl_energy_info(domain, i)
ReadInitial ==
  /\ stage = "initial"
  /\ \E ok \in BOOLEAN, v \in Garbage \cup {counter[m]} :
       /\ Reading(v, ok)
       /\ prev' = [prev EXCEPT ![m] = v]
       /\ Observe(ok)
  /\ NextMeter("start")
  /\ UNCHANGED <<delta, interval, total, asleep, clocks, counter, slack>>

\* start and end are taken, and the first usleep is called.
Start ==
  /\ stage = "start"
  /\ lag' = 0 /\ elapsed' = 0
  /\ asleep' = Delay
  /\ stage' = "sleep"
  /\ UNCHANGED <<m, prev, delta, interval, total, counter, slack, ghosts>>

\* interval_elapsed_time = interval_start - end
Wake ==
  /\ stage = "sleep" /\ asleep = 0
  /\ interval' = lag
  /\ stage' = "sample"
  /\ UNCHANGED <<m, prev, delta, total, asleep, clocks, counter, slack, ghosts>>

\* Handle wraparound
Unwrapped(d) == IF d < 0 THEN d + MaxEnergy ELSE d

\* Mutant of Sample: only a reading that did not wrap around is kept.
MutSample ==
  /\ stage = "sample"
  /\ \E ok \in BOOLEAN, v \in Garbage \cup {counter[m]} :
       /\ Reading(v, ok)
       /\ delta' = [delta EXCEPT ![m] = Unwrapped(v - prev[m])]
       /\ prev' = [prev EXCEPT ![m] = IF v < @ THEN @ ELSE v]
       /\ Observe(ok)
  /\ NextMeter("stamp")
  /\ UNCHANGED <<interval, total, asleep, clocks, counter, slack>>

Sample ==
  /\ stage = "sample"
  /\ \E ok \in BOOLEAN, v \in Garbage \cup {counter[m]} :
       /\ Reading(v, ok)
       /\ delta' = [delta EXCEPT ![m] = Unwrapped(v - prev[m])]
       /\ prev' = [prev EXCEPT ![m] = v]
       /\ Observe(ok)
  /\ NextMeter("stamp")
  /\ UNCHANGED <<interval, total, asleep, clocks, counter, slack>>

\* Mutant of Stamp: end is not taken again.
MutStamp ==
  /\ stage = "stamp"
  /\ total' = elapsed
  /\ stage' = "print"
  /\ UNCHANGED <<m, prev, delta, interval, asleep, clocks, counter, slack, ghosts>>

\* end is taken again after the readings.
Stamp ==
  /\ stage = "stamp"
  /\ lag' = 0
  /\ total' = elapsed
  /\ stage' = "print"
  /\ UNCHANGED <<m, prev, delta, interval, asleep, elapsed, counter, slack, ghosts>>

\* Mutant of WriteLine: the length of the interval is compared with the duration.
MutWriteLine ==
  /\ stage = "print"
  /\ slack' = 0
  /\ IF interval >= Duration
     THEN stage' = "done" /\ asleep' = asleep
     ELSE stage' = "sleep" /\ asleep' = Delay
  /\ UNCHANGED <<m, prev, delta, interval, total, clocks, counter, ghosts>>

\* The line is written, and the loop ends or sleeps again.
WriteLine ==
  /\ stage = "print"
  /\ slack' = 0
  /\ IF total >= Duration
     THEN stage' = "done" /\ asleep' = asleep
     ELSE stage' = "sleep" /\ asleep' = Delay
  /\ UNCHANGED <<m, prev, delta, interval, total, clocks, counter, ghosts>>

Returned == stage = "done" /\ UNCHANGED samplerVars

Statement == ReadInitial \/ Start \/ Wake \/ Sample \/ Stamp \/ WriteLine

SamplerNext == Tick \/ Statement \/ Returned

SamplerSpec == SamplerInit /\ [][SamplerNext]_samplerVars

\* usleep returns, and the process is scheduled.
FairSpec ==
  SamplerSpec /\ WF_samplerVars(Tick /\ asleep > 0) /\ WF_samplerVars(Statement)

-----------------------------------------------------------------------------
SamplerTypeOK ==
  /\ stage \in {"initial", "start", "sleep", "sample", "stamp", "print", "done"}
  /\ m \in Meter
  /\ prev \in [Meter -> Int]
  /\ delta \in [Meter -> Int]
  /\ interval \in Nat /\ lag \in Nat /\ elapsed \in 0 .. Duration /\ total \in 0 .. Duration
  /\ asleep \in 0 .. Delay
  /\ counter \in [Meter -> 0 .. Modulus - 1]
  /\ slack \in 0 .. MaxSlack
  /\ used \in [Meter -> Nat]
  /\ since \in [Meter -> Nat]
  /\ good \in [Meter -> BOOLEAN]
  /\ truth \in [Meter -> [energy : Nat, time : Nat, good : BOOLEAN]]

\* A delta between two readings that succeeded, less than one full turn of
\* the counter apart, is short of the energy consumed by at most one unit,
\* and never exceeds it; a failed reading spoils its own two intervals only
\* (lines 151-158).
DeltaWithinOneUnit ==
  \A k \in Meter :
    (truth[k].good /\ truth[k].energy < Modulus)
      => delta[k] \in {truth[k].energy, truth[k].energy - 1}

\* The meters whose delta belongs to the current interval.
UpToDate == IF stage = "sample" THEN 1 .. m - 1
            ELSE IF stage \in {"stamp", "print"} THEN Meter ELSE {}

\* The time a power is computed with is at least the delay, so there is no
\* division by 0, and at most the time the energy was consumed in: the power
\* may be stated too high, but the clock never makes it too low.
IntervalBounded ==
  \A k \in UpToDate : Delay <= interval /\ interval <= truth[k].time

\* The loop ends once the duration has passed.
Terminates == <>(stage = "done")
=============================================================================
