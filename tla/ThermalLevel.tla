---------------------------- MODULE ThermalLevel ----------------------------
(***************************************************************************)
(* s9p-cpufreq.c, the thermal levels of a cluster or of the GPU: the       *)
(* median of the last three readings of a sensor (s9p_tmu_filtered) picks  *)
(* the level (s9p_thermal_next), upwards at once, downwards one level at a *)
(* time, with a hysteresis and a hold time.  The GPU's level is adopted    *)
(* only when s9p_g3d_set_khz takes it (s9p_policy_work).                   *)
(*                                                                         *)
(* Time is counted in polls: Hold of them fit in THERMAL_HOLD_MS.          *)
(***************************************************************************)
EXTENDS Integers, Sequences, FiniteSets, FiniteSetsExt

CONSTANTS
    Last,        \* the last level, nthermal - 1
    UpAt,        \* lv[i].up_at
    Hyst,        \* THERMAL_HYST
    Hold,        \* THERMAL_HOLD_MS
    Readings,    \* what s9p_tmu_max may return, besides
    NoReading,   \* INT_MIN
    MaxRefusals  \* (bound) how often in a row s9p_g3d_set_khz may fail

Level == 0 .. Last

ASSUME ThermalAssumption ==
    /\ Last \in Nat /\ Hyst \in Nat /\ Hold \in Nat /\ MaxRefusals \in Nat
    /\ UpAt \in [Level -> Int]
    /\ \A i, j \in 1 .. Last : i <= j => UpAt[i] <= UpAt[j]
    /\ Readings \subseteq Int /\ NoReading \notin Readings

VARIABLES
    reading,    \* what the sensor read last
    window,     \* the last three readings that made sense, the oldest first
    lvl,        \* thermal_lvl, gpu_lvl
    held,       \* polls since `changed', up to Hold
    refusals,   \* s9p_g3d_set_khz failed this often in a row
    beat        \* flips at every poll: one that changes nothing is a step too

thermalVars == <<reading, window, lvl, held, refusals, beat>>

LevelTypeOK ==
    /\ reading \in Readings \cup {NoReading}
    /\ window \in Seq(Readings) /\ Len(window) <= 3
    /\ lvl \in Level
    /\ held \in 0 .. Hold
    /\ refusals \in 0 .. MaxRefusals
    /\ beat \in BOOLEAN

LevelInit ==
    /\ reading = NoReading
    /\ window = <<>>
    /\ lvl = 0 /\ held = Hold /\ refusals = 0 /\ beat = FALSE

-----------------------------------------------------------------------------
\* A reading pushes out the oldest one.
Remember(r) ==
    IF Len(window) < 3 THEN Append(window, r) ELSE Append(Tail(window), r)

\* (mutant) Every reading fills all three places: `primed' is never set.
SamplesUnprimed(w) == <<w[Len(w)], w[Len(w)], w[Len(w)]>>

\* The samples the filter holds: the first reading fills all three places.
Samples(w) ==
    CASE Len(w) = 1 -> <<w[1], w[1], w[1]>>
      [] Len(w) = 2 -> <<w[1], w[1], w[2]>>
      [] OTHER -> w

\* min and max of two, and the expression of s9p_tmu_filtered.
Lower(a, b) == IF a <= b THEN a ELSE b
Higher(a, b) == IF a <= b THEN b ELSE a
Median(s) == Higher(Lower(s[1], s[2]), Lower(Higher(s[1], s[2]), s[3]))

\* (mutant) A level is entered above its threshold, and not at it.
WantAbove(temp) == Max({0} \cup {i \in 1 .. Last : temp > UpAt[i]})

\* The level a temperature asks for.
Want(temp) == Max({0} \cup {i \in 1 .. Last : temp >= UpAt[i]})

\* (mutant) A level is left as soon as the temperature is below its threshold.
CoolsAtOnce(temp) ==
    /\ lvl > 0 /\ temp < UpAt[lvl]
    /\ held = Hold

\* A level is left below its own threshold, by a margin and after a while.
Cools(temp) ==
    /\ lvl > 0 /\ temp < UpAt[lvl] - Hyst
    /\ held = Hold

\* What s9p_thermal_next makes of a temperature.
ThermalNext(temp) ==
    IF Want(temp) > lvl THEN Want(temp)
    ELSE IF Cools(temp) THEN lvl - 1 ELSE lvl

\* One reading of the sensor and the level that follows from it, which
\* takes force if `taken'.
Judge(r, taken) ==
    /\ reading' = r
    /\ IF r = NoReading
         THEN /\ UNCHANGED <<window, lvl, refusals>>
              /\ held' = Lower(held + 1, Hold)
         ELSE LET next == ThermalNext(Median(Samples(Remember(r)))) IN
              /\ window' = Remember(r)
              /\ lvl' = IF taken THEN next ELSE lvl
              /\ held' = IF next # lvl THEN 0 ELSE Lower(held + 1, Hold)
              /\ refusals' = IF next = lvl THEN refusals
                              ELSE IF taken THEN 0 ELSE refusals + 1

Poll(r) == Judge(r, TRUE)

\* The GPU keeps its clock: the level stays, `changed' does not.
PollRefused(r) == refusals < MaxRefusals /\ Judge(r, FALSE)

LevelNext ==
    /\ beat' = ~beat
    /\ \E r \in Readings \cup {NoReading} : Poll(r) \/ PollRefused(r)

LevelSpec == LevelInit /\ [][LevelNext]_thermalVars /\ WF_thermalVars(LevelNext)

-----------------------------------------------------------------------------
\* No level is entered on one wild reading: two of the last three reach its
\* threshold.  Only the very first reading counts alone, and until the filter
\* has three: no second one enters a level that it does not reach
\* (s9p_tmu_filtered).
SpikeHarmless ==
    [][\A i \in Level : lvl < i /\ i <= lvl' =>
         \/ Len(window') < 3 /\ window'[1] >= UpAt[i]
         \/ Cardinality({k \in DOMAIN window' : window'[k] >= UpAt[i]}) >= 2
      ]_thermalVars

\* A sensor that stays at or above a threshold brings its level into force for
\* good, also when the GPU refuses a few times (s9p_policy_work, the retry).
HotIsCapped ==
    \A i \in Level :
        <>[](reading # NoReading /\ reading >= UpAt[i]) => <>[](lvl >= i)

\* A sensor that stays cool takes the last cap off.
CoolIsReleased ==
    <>[](reading # NoReading /\ reading < UpAt[1] - Hyst) => <>[](lvl = 0)

\* The level follows the sensor both ways, past spikes, gaps and refusals
\* (s9p_thermal_next, s9p_policy_work).
LevelFollows == HotIsCapped /\ CoolIsReleased

\* A temperature that moves by less than the hysteresis settles on a level:
\* every change relocks a PLL, so it must not go to and fro (THERMAL_HYST).
NoFlapping ==
    \A t \in Readings :
        <>[](reading # NoReading => t <= reading /\ reading < t + Hyst)
            => \E i \in Level : <>[](lvl = i)
=============================================================================
