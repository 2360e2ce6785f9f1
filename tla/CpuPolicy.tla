----------------------------- MODULE CpuPolicy ------------------------------
(***************************************************************************)
(* s9p-cpufreq.c, the policy of a cluster: the caps that the poll          *)
(* (s9p_policy_work) and the boost switch put on it as cpufreq QoS         *)
(* requests, and the clock that the cpufreq core and the governor make of  *)
(* them through s9p_target.                                                *)
(*                                                                         *)
(* The caps reach the clock late.  A request that changes the lowest cap   *)
(* only queues the core's work; the work copies it to policy->max and has  *)
(* the governor bring the clock down, while the governor may be in the     *)
(* middle of a transition of its own.  A transition is CpuStep's; that     *)
(* s9p_set_step keeps to it is shown in CpuClock.                          *)
(***************************************************************************)
EXTENDS ThermalLevel, CpuStep

CONSTANTS
    MaxKhz,          \* the cap of each thermal level
    Cores,           \* cores in the cluster
    BigCap,          \* s9p_big_cap_for, of 0 .. Cores busy cores
    SafeMax,         \* safe_max
    IdleEnterPolls   \* IDLE_ENTER_POLLS

Floor == Min(Table)
Top == Max(Table)    \* FREQ_QOS_MAX_DEFAULT_VALUE caps nothing either

ASSUME PolicyAssumption ==
    /\ IsFiniteSet(Table) /\ Table # {} /\ Table \subseteq Nat
    /\ MaxKhz \in [Level -> Table] /\ MaxKhz[0] = Top
    /\ \A i, j \in Level : i <= j => MaxKhz[j] <= MaxKhz[i]
    /\ Cores \in Nat
    /\ BigCap \in [0 .. Cores -> Table]
    /\ \A m, n \in 0 .. Cores : m <= n => BigCap[n] <= BigCap[m]
    /\ SafeMax \in Table
    /\ IdleEnterPolls \in Nat \ {0}

VARIABLES
    busy,        \* how many of the cores do not idle
    work,        \* what the poll does next: "level", "busy" or "floor"
    idle_polls,  \* polls in a row with no busy core, up to IDLE_ENTER_POLLS
    idle_floor,  \* s9p_idle_floor_on
    boost,       \* s9p_boost
    qos,         \* the value of each of the cluster's requests
    refresh,     \* the core's policy->update work is queued
    limits,      \* ... has copied the caps and waits for the governor
    max          \* policy->max

policyVars == <<reading, window, lvl, held, refusals, beat, clock, target,
                busy, work, idle_polls, idle_floor, boost, qos,
                refresh, limits, max>>

Request == {"thermal", "busy", "boost", "idle"}
Cap(q) == Min({q[r] : r \in Request})

\* Types, those of the thermal level included.
PolicyTypeOK ==
    /\ LevelTypeOK
    /\ busy \in 0 .. Cores
    /\ work \in {"level", "busy", "floor"}
    /\ idle_polls \in 0 .. IdleEnterPolls
    /\ idle_floor \in BOOLEAN /\ boost \in BOOLEAN
    /\ qos \in [Request -> Table]
    /\ refresh \in BOOLEAN /\ limits \in BOOLEAN
    /\ max \in Table /\ clock \in Table /\ target \in Table

\* After s9p_init: cpufreq has validated the clock against the caps.
PolicyInit ==
    /\ LevelInit
    /\ busy \in 0 .. Cores
    /\ work = "level" /\ idle_polls = 0 /\ idle_floor \in BOOLEAN
    /\ boost \in BOOLEAN
    /\ qos = [r \in Request |-> IF r = "boost" /\ ~boost THEN SafeMax ELSE Top]
    /\ refresh = FALSE /\ limits = FALSE
    /\ max = Cap(qos)
    /\ StepInit /\ clock <= max

-----------------------------------------------------------------------------
\* freq_qos_update_request: a new lowest cap queues the core's work.
Update(r, f) ==
    /\ qos' = [qos EXCEPT ![r] = f]
    /\ refresh' = (refresh \/ Cap(qos') # Cap(qos))

\* (mutant) The request is made before the new level is stored.
UpdateThermalOld ==
    IF lvl' # lvl
      THEN Update("thermal", MaxKhz[lvl]) ELSE UNCHANGED <<qos, refresh>>

\* The thermal cap follows the level.
UpdateThermal ==
    IF lvl' # lvl
      THEN Update("thermal", MaxKhz[lvl']) ELSE UNCHANGED <<qos, refresh>>

\* s9p_policy_work, as far as the cap of a new level.
PollLevel(r) ==
    /\ work = "level" /\ work' = "busy"
    /\ Poll(r) /\ UNCHANGED beat
    /\ UpdateThermal
    /\ UNCHANGED <<busy, idle_polls, idle_floor, boost, limits,
                   max, stepVars>>

\* s9p_big_cap_for of the cores that are busy just now.
PollBusy ==
    /\ work = "busy" /\ work' = "floor"
    /\ IF BigCap[busy] # qos["busy"]
         THEN Update("busy", BigCap[busy]) ELSE UNCHANGED <<qos, refresh>>
    /\ UNCHANGED <<thermalVars, busy, idle_polls, idle_floor, boost, limits,
                   max, stepVars>>

\* (mutant) The polls are counted past IDLE_ENTER_POLLS.
IdlePollsOn == IF idle_floor /\ busy = 0 THEN idle_polls + 1 ELSE 0

\* (mutant) A busy core does not put the count back.
IdlePollsKept ==
    IF idle_floor /\ busy = 0 THEN Lower(idle_polls + 1, IdleEnterPolls)
                              ELSE idle_polls

\* The count of polls with no busy core.
IdlePolls ==
    IF idle_floor /\ busy = 0 THEN Lower(idle_polls + 1, IdleEnterPolls) ELSE 0

\* s9p_idle_floor, the last thing a poll does for a cluster.
PollFloor ==
    /\ work = "floor" /\ work' = "level"
    /\ idle_polls' = IdlePolls
    /\ LET cap == IF idle_polls' = IdleEnterPolls THEN Floor ELSE Top IN
         IF cap # qos["idle"]
           THEN Update("idle", cap) ELSE UNCHANGED <<qos, refresh>>
    /\ UNCHANGED <<thermalVars, busy, idle_floor, boost, limits,
                   max, stepVars>>

\* s9p_boost_set, from sysfs.
BoostSet(b) ==
    /\ boost' = b
    /\ Update("boost", IF b THEN Top ELSE SafeMax)
    /\ UNCHANGED <<thermalVars, busy, work, idle_polls, idle_floor, limits,
                   max, stepVars>>

\* The module parameter idle_floor.
IdleFloorSet(b) ==
    /\ b # idle_floor /\ idle_floor' = b
    /\ UNCHANGED <<thermalVars, busy, work, idle_polls, boost, qos,
                   refresh, limits, max, stepVars>>

\* Cores wake up and fall idle as they please.
Schedule(n) ==
    /\ n # busy /\ busy' = n
    /\ UNCHANGED <<thermalVars, work, idle_polls, idle_floor, boost, qos,
                   refresh, limits, max, stepVars>>

-----------------------------------------------------------------------------
\* (mutant) s9p_target does not look at policy->max.
MaximumOfCores == BigCap[busy]

\* The ceiling s9p_target goes by: policy->max and the cores busy just now.
Maximum == Lower(max, BigCap[busy])

\* What s9p_target makes of a frequency it is asked for.
Limited(f) == Lower(f, Maximum)

\* The core's work: the caps become the policy's limits.
Refresh ==
    /\ refresh /\ ~limits
    /\ refresh' = FALSE /\ limits' = TRUE
    /\ max' = Cap(qos)
    /\ UNCHANGED <<thermalVars, busy, work, idle_polls, idle_floor, boost, qos,
                   stepVars>>

\* ... and the clock is brought below them, when it is above.
ApplyLimits ==
    /\ limits /\ Unlocked
    /\ limits' = FALSE
    /\ IF clock > max THEN Aim(Limited(max)) ELSE UNCHANGED stepVars
    /\ UNCHANGED <<thermalVars, busy, work, idle_polls, idle_floor, boost, qos,
                   refresh, max>>

\* The governor asks for a frequency.
Govern(f) ==
    /\ Aim(Limited(f))
    /\ UNCHANGED <<thermalVars, busy, work, idle_polls, idle_floor, boost, qos,
                   refresh, limits, max>>

\* A transition is over.
ClockSet ==
    /\ StepSet
    /\ UNCHANGED <<thermalVars, busy, work, idle_polls, idle_floor, boost, qos,
                   refresh, limits, max>>

ClockKept ==
    /\ StepFailed
    /\ UNCHANGED <<thermalVars, busy, work, idle_polls, idle_floor, boost, qos,
                   refresh, limits, max>>

PollNext ==
    \/ \E r \in Readings \cup {NoReading} : PollLevel(r)
    \/ PollBusy
    \/ PollFloor

PolicyNext ==
    \/ PollNext
    \/ \E b \in BOOLEAN : BoostSet(b) \/ IdleFloorSet(b)
    \/ \E n \in 0 .. Cores : Schedule(n)
    \/ Refresh \/ ApplyLimits
    \/ \E f \in Table : Govern(f)
    \/ ClockSet \/ ClockKept

\* The poll and the core's work run on workqueues, a transition ends by itself,
\* and the governor's lock is handed over to who has waited for it.
Fairness ==
    /\ WF_policyVars(PollNext) /\ WF_policyVars(Refresh) /\ SF_policyVars(ApplyLimits)
    /\ WF_policyVars(ClockSet)

PolicySpec == PolicyInit /\ [][PolicyNext]_policyVars /\ Fairness

-----------------------------------------------------------------------------
\* Once the core has nothing left to do, no cap is lost: the clock is below
\* every request, below what the thermal level allows and, without boost,
\* below safe_max, whatever was asked for meanwhile (freq_qos_update_request).
LimitsInForce ==
    ~refresh /\ ~limits /\ Unlocked =>
        /\ clock <= Cap(qos)
        /\ clock <= MaxKhz[lvl]
        /\ ~boost => clock <= SafeMax

\* A sensor that stays at or above a threshold has the clock below the cap of
\* its level for good (s9p_policy_work).
HotIsSlow ==
    \A i \in Level :
        <>[](reading # NoReading /\ reading >= UpAt[i])
            => <>[](clock <= MaxKhz[i])

\* Cores that stay busy have the clock below what so many may run at
\* (s9p_big_cap_for).
BusyIsSlow ==
    \A n \in 0 .. Cores : <>[](busy >= n) => <>[](clock <= BigCap[n])

\* Every cap that lasts reaches the clock for good, through the requests, the
\* core's deferred work and a governor that acts meanwhile (s9p_policy_work).
CapsReachClock == HotIsSlow /\ BusyIsSlow

\* The idle floor does not outlive the idleness (s9p_idle_floor).
FloorIsLetGo ==
    <>[](busy > 0 \/ ~idle_floor) => <>[](qos["idle"] = Top)
=============================================================================
