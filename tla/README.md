# A verification model of the Galaxy S9+ mainline port

This directory models the parts of the port that are concurrent, that talk to
hardware which may answer late or not at all, or that keep a safety rule over
many steps: the drivers under `src/src`. It holds TLA+ modules, configurations
for TLC, and proofs for TLAPS. `PROJECT.json` maps every definition to the
lines it stands for, and lists the runs, the mutants, the hazards and the
findings.

## 1. The system

| Component | State | Operations | What is hard |
|---|---|---|---|
| ACPM mailbox client, `soc/s9p-acpm.c` | two rings in shared SRAM, a six-bit sequence number, the mailbox interrupt bit | `s9p_acpm_pmic_read/write/update` → `s9p_acpm_mfd_xfer` (3 attempts, 600 ms each); touch LDO cycle | the APM is another processor: late replies, full ring, interrupt race |
| CPU clocks, `cpufreq/s9p-cpufreq.c` | per cluster a PLL, a mux, a rail; `policy->cur` | `s9p_target` → `s9p_set_step` | rail before clock upwards, after it downwards, over a mailbox that fails |
| CPU policy, same file | median filters, thermal level, four QoS requests, idle count | the 100/25 ms poll, `boost`, `idle_floor` | caps reach the clock through deferred work and a governor that is acting at the same time |
| GPU clock, `soc/s9p-g3d.c` | PLL, mux, rail, ceilings, `step_volt` | probe, `set_khz`, `max_set`, `clk_set`, `step_volt_set`, rail read-out | rollback at each of the steps; probe that retries outside the lock |
| GPU power domain, `soc/s9p-g3d-pd.c` | PMU state, `genpd`, `always_on` | `power_on`, `power_off` | shares the clock driver's lock; requests that come while off |
| DECON display, `gpu/drm/s9p/s9p-decon.c` | queued and active address, update request, interrupt bits, panel state | flip, enable, disable, parameters | the latch at a TE edge against the commit's event |
| Touch bring-up, `soc/s9p-acpm.c` | the two LDOs of the touch controller, counts of failures, cycles and probes | `s9p_touch_ldo_power_cycle`, `s9p_touch_work` | four PMIC calls of which any may fail, or be performed after it failed |
| UFS host, `ufs/ufs-exynos9810.c`, `ufs/ufs-cal-9810.c` | clock gates, PHY isolation, flash reset, calibrations in force, nexus bits of all slots | the hooks of the UFS core, from bind to unbind | the order of resets; bits shared by requests; a dump from the interrupt |
| PCIe host, `pci/pcie-exynos9810.c` | link, PERST, INTx enables and pulses, the chained handler | probe, host init, start/stop link, interrupt, remove | a dead link must not be touched; pulses are not repeated |
| MUIC, `soc/s9p-max77705-muic.c` | last VBUS status, `poll_ms` | probe, `muic_poll`, `muic_set_path` | the chip's MCU drops the switches when VBUS goes; failed switch |
| Charger, `soc/max77705_charger.c` | input current limit, interrupts, `chgin_work` | probe, AICL and CHGIN interrupts, properties | one interrupt thread that sleeps in a loop; a counter at its bound |
| USB PHY, `usb/phy-exynos9810-usbdrd.c` | PMU isolation, clocks | init/exit, power on/off | order of the four, which the PHY core serialises |
| Clock gates, `soc/s9p-clkgate.c` | gate bits | one write each at probe | nothing concurrent |
| Userspace: `s9p-acpm`, `s9p-governor`, `s9p-power`, `s9p-blackbox`, boot scripts, flashing tools | files, sysfs, the raw mailbox | commands and daemons | the tool shares the mailbox with the kernel |
| uniLoader, device tree, calibration tables, build and CI scripts | — | — | vendored, data, or straight-line scripts |

How they interact:

    s9p-power, sysfs        devfreq/panfrost, genpd          compositor, DRM helpers
          |                        |                                 |
     CPU policy (QoS) --set_khz--> GPU clock <--g3d_lock--> GPU domain    DECON
          |  cpufreq core, governor |                                    |  TE edge
     CPU clocks ------- s9p_acpm_pmic_write -------+                   panel
                                 |
     touch bring-up -----> ACPM mailbox  <-- rings, interrupt -->  APM firmware, S2MPS18
                                 ^
                        s9p-acpm userspace tool (raw rings, no lock)

     UFS core --hooks--> UFS host --> PHY, flash      cable --VBUS--> MUIC --> host port
     DWC core --ops--> PCIe host --> WiFi module                 \--> charger --> userspace

What makes each correct:

* mailbox: a caller gets the reply to its own command or an error; what was
  answered is performed for good; a timed-out command may be performed later,
  but only in the order it was sent in;
* CPU and GPU clocks: no clock ever runs on a rail too low for it, and what the
  framework believes is what the hardware does;
* CPU policy: every cap reaches the clock and is taken off again; no flapping;
* GPU domain: a domain reported on is usable, ceilings asked for while it was
  off hold when it is on;
* DECON: no buffer is handed back while it is being scanned out, an off display
  is dark, the last flip is shown;
* touch: a bound driver keeps its rails, and the bring-up ends;
* UFS: a request has its own nexus type, the PHY is accessed with its clock on,
  and the link comes up again whatever happened;
* PCIe: nothing uses a dead link, the driver's own failures leave the handler
  nothing to run for, and an asserted interrupt is served;
* USB port: a plug that stays reaches the host, the input current settles at
  what the source bears, and userspace learns of power that came or went.

## 2. Modules

| Module | Models | Kind |
|---|---|---|
| `PmicService` | what `s9p_acpm_mfd_xfer` promises its callers | abstract specification |
| `AcpmMailbox` | `s9p-acpm.c` store by store, and the APM | detailed; implements `PmicService` |
| `CpuStep` | what a transition of one cluster promises the cpufreq core | abstract specification |
| `CpuClock` | `s9p_target`, `s9p_set_step` of both clusters | EXTENDS `PmicService`; implements `CpuStep` for each |
| `G3dClock` | `s9p-g3d.c` and `s9p-g3d-pd.c` | EXTENDS `PmicService` |
| `TouchBringup` | `s9p_touch_work` and its power cycle | EXTENDS `PmicService` |
| `ThermalLevel` | the filter and the levels, for a cluster or the GPU | state machine of its own |
| `CpuPolicy` | the poll, the switches, the cpufreq core and governor | EXTENDS `ThermalLevel`, `CpuStep` |
| `Display` | what the display promises the compositor | abstract specification |
| `DeconFlip` | `s9p-decon.c` | detailed; implements `Display` |
| `UfsHost` | the hooks of `ufs-exynos9810.c` and the calibration's accesses | state machine of its own |
| `PcieLink` | `pcie-exynos9810.c` | state machine of its own |
| `UsbPort` | MUIC and charger on one VBUS | composition of the two drivers |
| `PmicServiceProofs`, `AcpmMailboxProofs`, `G3dClockProofs`, `TouchBringupProofs`, `DeconFlipProofs`, `UfsHostProofs` | theorems | EXTEND their module and TLAPS |
| `CpuFreqProofs`, `PortProofs` | theorems on `CpuClock`, `ThermalLevel` and `CpuPolicy`; on `PcieLink` and `UsbPort` | EXTEND their modules and TLAPS |
| `MCAcpm`, `MCCpuClock`, `MCG3dClock`, `MCTouch`, `MCThermal`, `MCCpuPolicy`, `MCDecon`, `MCUfsHost`, `MCPcieLink`, `MCUsbPort` | instances for TLC | EXTEND their module |

A definition marked `(mutant)` stands before the one it is a broken variant of.
Nothing refers to it: it is there to show which bug each property would catch.

### AcpmMailbox and PmicService

`Call` and `Lock` are `s9p_acpm_mfd_xfer` up to `mutex_lock`; `Number` spends a
sequence number, `AckStale` drains the reply ring before an attempt, `Send`
writes the slot and rings the bell, `Poll`, `Look`, `Rear` and `AckReply` are
one turn of the receive loop with the interrupt acknowledge *after* the ring
walk, `Timeout` and `SendBusy` end an attempt and `EndAttempt`/`Return` end the
call. `ApmExecute`, `ApmPost` and `ApmRaise` are the firmware, external: a
command is taken, performed or refused, its reply stored, and the interrupt
raised, with anything in between.

`PmicService` keeps a queue of submitted commands and what each caller knows.
`GiveUp` ends a call whose command may still be in the queue: it is performed
later, in its turn. The mailbox implements this service (`ServiceImplemented`),
and the clock drivers are built on it instead of on the rings: their
composition with the mailbox is by that refinement.

### CpuClock

Each cluster is a program counter through `s9p_set_step`. The rail of a cluster
is a PMIC register, frequencies are table steps, `Need` gives each step's
`vsel`. The CMU muxes answer (the source documents the unbounded waits as a
known limitation); the PLL's `STABLE` bit is waited for but not insisted on.
`Step(c)` is `CpuStep` seen through one cluster's variables: a transition aims
at a frequency other than the clock, one at a time, and ends there or, on the
way up only, where it was (`StepImplemented`).

### ThermalLevel and CpuPolicy

`window` is the last three real readings; `Samples` is what the C filter holds
(the first reading fills all three places). Time is counted in polls. In
`CpuPolicy` the poll is three steps (`PollLevel`, `PollBusy`, `PollFloor`), and
between them anyone may act. `Update` is `freq_qos_update_request`: only a
change of the *lowest* request queues the core's work. `Refresh` and
`ApplyLimits` are that work, `Govern` is the governor; both enter `s9p_target`,
which aims at what is left of the wanted frequency (`Aim(Limited(f))`). The
transition is `CpuStep`'s, which `CpuClock` implements: it takes any time, and
ends in `ClockSet` or, on the way up, in `ClockKept`.
`policy->min` is the lowest step: nothing in the repository raises it, so the
`-EAGAIN` exit of `s9p_target` is never taken. `s9p_init` has happened once;
`s9p_exit` is left out because the M3 cores cannot come back and CPU0 stays.

### G3dClock

One program counter for the holder of `g3d_lock`, one for the probe and its
retry work. Every failure of `s9p_g3d_set_pll` and its rollback is an action:
`RaiseFailed`, `RollbackFailed`, `Undo`, `Relock`, `Reselect`; and so are the
power domain's `EnergizeFailed` and `RestorePower`, and the probe's `MapFails`
and `PublishFails`. A probe that fails is unmapped by the driver core (`Unmap`)
while the ceilings' other users still find the static pointer set: `Oops` is
their next access, also in the middle of a change. `thermal`, `max` and `req`
are the three ceilings the clock is the minimum of.

### DeconFlip

`queued`, `req` and `active` are the two register banks of the DMA channel and
the request that copies one to the other. `start` is the pending interrupt,
which stays set while the interrupt is disabled. The commit runs through
`Update`, `Latch`, `Event`; a commit that turns the display on goes on with
`ExitSleep`, `DisplayOn`, `Enable`, as the atomic helpers order them; `Off`
starts `Blank`, `Frame`, `DisplayOff`, `EnterSleep`, `Restore`, `Disabled`. A
wait ends because the request is gone or because its 50 ms are over; the
constant `TimelyTE` says whether a panel that is awake can let it run over, and
`HaveDsim` whether the panel's link could be mapped, without which no command
reaches the panel. Vblanks count as on until the first commit turns them on, as
the probe's reset of the CRTC comes before the vblanks' initialisation, so the
first commit's event is armed as well.
`Screen` is `Display` with the addresses, the shadow registers, the panel and
the places of a commit hidden: a TE edge that latches is `Show` or `ShowFirst`,
and the end of a commit is `HandBack`.

### TouchBringup

`at` is the place of `s9p_touch_work`: `check` when it is scheduled, `cycle` in
the four calls of `s9p_touch_ldo_power_cycle` (`step`), `read` in the read-back
for the log. The three counts are the C file's statics; the branches that reset
them are `CycleDone` and nothing else. An LDO is a register of the PMIC, so a
command that timed out can still be performed between any two of the work's.
`Powered` is the controller, external: it answers again only after both rails
were off together, which is what the source says of it. The driver is bound by
`Reprobe` alone, and nothing unbinds it.

### UfsHost

`at` is where the UFS core is, each hook an action (`DeviceReset`, `HostReset`,
`PreLink`, `CalLink`, `Pmc`, `PostPmc`, `H8Enter`, `Suspend`, `ClocksOff`,
`Resume`, `H8Exit`, `Exit`). `cal` is which tables were written since the PHY
or the link was reset, and `CanStart` what a link start-up needs of all hooks
together; `BindFails` is a bind that finds no device tree node or clock. A
startup may fail even so, and on giving up it makes a dump of its own
(`LinkFailed`). `PmaRead`, `PmaOpen`, `PmaClose` are the accesses to the PHY, with the
unlocked read-modify-write of its clock gate, once for the core and once for the
interrupt that dumps the PHY on a fatal error, which may come at any moment
from the power mode change to the entry to hibern8. `Queue` and `Ring` are the
read-modify-write of the nexus bits; that no other request comes between them is
the core's `outstanding_lock`, under which it calls the hook (the mutant
`QueueUnlocked` is a core without it). Assumed of the core, which is not in this
repository: it ignores the result of `hce_enable_notify`, retries a failed
start-up or resets device and host and tries again, waits for requests before
it suspends, and ends a failed resume in full recovery. Since suspend holds
RST_n low, the flash never leaves hibern8 by itself and every resume takes that
road. `panic_on_fatal` may be either value at each fatal error.

### PcieLink

`at` follows `probe`, `host_init`, `start_link`, the core's scan and `remove`,
each step with its failure. `data` and `mapped` are what the driver core frees
when a probe fails or the driver is removed; `handler` is the chained handler,
which nothing takes away. Every register starts as any previous kernel may have
left it, the link that it trained among them. `Oops` is the handler run without
its data, its registers or their power, and the end of the kernel; the history
variable `left` says whether what made it run may be from a previous kernel, was
pending at a remove, or neither. `pulse` and `en` are ELBI's two registers, `h` and
`val` the handler between its read, its acknowledge and its dispatch. External:
the DesignWare core, the module, which needs a switch off and on before its link
trains reliably, and its driver. A trained link does not drop by itself.

### UsbPort

One VBUS, two drivers. `MuicPollSame`, `MuicPollEdge` and `MuicPollSet` are
`muic_poll`, whose setting of the switches may fail or not be obeyed, which is
stored all the same. The model's cable is on the default path, `COM_USB`. A
poll that finds `poll_ms` at 0 ends in `stopped`. `ThreadRun` is the interrupt
thread of the regmap, which reads and so clears what is latched; `AiclCheck`,
`AiclRead`, `AiclWrite` are one turn of the loop in `max77705_aicl_irq`, between
which userspace may set the limit (`LimitSet`) and the source may change. A
limit is its register code; `Overdrawn` is the chip's AICL status. The probe asks
for the two interrupts one after the other (`RequestChgin`, `RequestAicl`), the
driver core frees them in the opposite order (`FreeAicl`, `ChargerUnbind`), and
`Unmasked` is what the thread has a handler for meanwhile. It reads, and so
clears, the masked ones as well: the history variable `dropped` says that the last
`AICL_I` it read was masked. The power supply core's first uevent waits for the
end of the probe (`ChargerBind`), as its deferred registration does.

## 3. What is checked

| Run | Bounds | Shows |
|---|---|---|
| `acpm_safety` | 2 callers, 1 register, 2 values, ring of 3, numbers modulo 4, 2 attempts, the APM at most `MaxLag` = 3 numbers behind | rings and numbers in bounds, own reply only, the awaited command or reply never lost, implements `PmicService` |
| `acpm_timely` | the same, answers within the time-out | every call is answered |
| `cpu_clock` | 2 clusters with 2 steps, a third caller | answered means settled, rails cover clocks, `cur` is true, each cluster implements `CpuStep` |
| `g3d_clock` | 2 steps, 2 threads, 3 rail codes, 2 attempts | rail, ceilings, PLL and domain through every failure |
| `thermal` | the real GPU table, readings on both sides of each threshold, hold of 2 polls, 2 refusals in a row | filter, hysteresis, levels that neither flap nor stick |
| `cpu_policy` | one frequency per cap, 1 core, hold of 1 poll, idle count of 2 | every cap reaches the clock, the idle floor is let go |
| `touch_bringup` | 3 failures, 2 probes, 2 cycles, one other caller, queue of 2 | rails stay under a bound driver, the work ends |
| `decon_flip` | 3 buffers, timely TE | no tearing, dark when off, lit when on, last flip shown, events sent, implements `Display` |
| `decon_late_te` | the same, TE edges that may be late | **violated**: `TearFree` |
| `ufs_host` | 2 slots, 2 faults of the hardware | nexus types, recovery from every place |
| `pcie_link` | 4 lines, any registers at the start | no use of a dead link, the handler without its registers only for what a previous kernel or a remove left it, no pulse lost at any moment, assertions served |
| `usb_port` | limit codes 0 to 4 of which 0 to 2 mean the lowest current, sources of 2 to 4, one setting by userspace | nothing missed by the works and the thread but what is read while masked, host connected, AICL settles, userspace told |

Every property of a passing run has a mutant: a definition of the model replaced
by a plausible broken variant of the code, with which the run finds the property
violated. The types of `CpuClock`, `G3dClock`, `TouchBringup`, `DeconFlip`,
`PcieLink` and `ThermalLevel` are proved for all values of the constants and not
checked once more by their runs.

Why the bounds are enough. *Mailbox*: two callers are the least that contend
for the lock and the most that do at once; a ring of three fills up with one
command each, and a modulus of four wraps within a call. *Clocks*: the code
compares only the current with the wanted step, so two steps give each
direction, and two clusters with a foreign caller give every order of commands
on the mailbox. *Thermal*: the table is the real one. *Policy*: every cap has a
frequency of its own, so a lost or misordered one shows in the clock; the
cores matter only through their cap, so one that is busy or not is enough for a
rule with two values. *Touch*: two of each count reach every branch that
compares or resets one; a third failure lets one and two be recovered from.
*DECON*: compositors rotate three buffers; with three, a skipped flip, the
shown and the next are all distinct. *UFS*: the bits of two slots are the least
that one read-modify-write can lose; two faults let a recovery fail as well.
*PCIe*: the hardware's four lines. *Port*: of the codes, two lie below the
highest that means the lowest current and two above it, so that the loop turns
more than once, and userspace can leave it a code from which a step down is one
that the hardware does not tell from the lowest.

Deadlock is checked except where `CHECK_DEADLOCK FALSE` stands: in the mailbox
the probe may fail and no call is ever made, in the GPU module a failed rollback
of a power-off panics the kernel and an access to an unmapped register is its
end, as it is in the PCIe module, and the touch work ends. These really stop.

### Fairness

* `acpm_timely`: the lock holder goes on, the mutex is handed over, the APM
  answers. The last is the assumption under which the question makes sense;
  `acpm_safety` needs none.
* `thermal`: polls go on. The delayed work re-arms itself at the end of every
  run (`schedule_delayed_work_on`). `beat` flips with each poll so that a poll
  which changes nothing is a step, and fairness does not force the readings to
  change.
* `cpu_policy`: the poll and the core's work run on workqueues (weak fairness);
  a transition ends by itself; the governor's lock is taken again and again, so
  the work that waits for it needs strong fairness, which a kernel mutex gives
  by handing itself over to a waiter.
* `touch_bringup`: the work is scheduled, and a call of it ends, since
  `XFER_RETRIES` and the time-out bound it: weak fairness of giving up, strong
  of going on after a return, which the service's late results may disable for a
  while.
* `decon_flip`: an awake panel sends TE edges, an enabled pending interrupt is
  served, the driver's waits end.
* `ufs_host`: the core's steps and the interrupt go on, and a slot that is being
  queued is rung, since both happen under one lock. Faults are bounded, not
  fair: no recovery is possible from hardware that fails for ever.
* `pcie_link`: a pending, enabled interrupt is taken and its handler ends.
  Nothing else is fair.
* `usb_port`: works and the interrupt thread run; strong fairness for the poll
  that notices a VBUS gone, which means that a bus read fails only so often.
  `AiclFails` is not fair, and `AiclSettles` excludes a loop that a bus error
  ended for good and an overload that was read while masked.

## 4. What is proved

TLAPS proves, for every value of the constants that meets the named
assumptions, every safety property that a passing run checks, the three
refinements among them, and some that no run checks. `PROJECT.json`,
`theorems`, has the list.

*The chain.* The drivers are not proved over the rings but over what the rings
promise: `ImplementsService` takes the mailbox to `PmicService`;
`ClockUsesService`, `UsesService` and `TouchUsesService` say that the CPU clock,
the GPU clock and the touch bring-up are callers of that service and nothing
more; `StepRefined` takes each cluster to `CpuStep`, and `CpuPolicy` is built on
its actions; `ShownInOrder` takes the display driver to `Display`. What is
proved of an upper module holds over the lower ones.

### Mailbox

* `PmicServiceProofs!ServiceSettled` (`AnsweredIsSettled`): of a call that was
  answered nothing is left to be performed. Invariant: a command in the queue
  that belongs to a caller waiting for it is the caller's last one there.
* `AcpmMailboxProofs!TypeCorrect` (`TypeOK`), `NoLateReply` (`OwnReply`) and
  `ImplementsService` (`ServiceImplemented`). The last two need `InOrder`: an
  APM less than a round of numbers behind. `OwnReply` says only what was
  received; the strengthening `Channel` is about the whole channel: each entry
  of either ring and of the APM's hand carries the number its age gives it,
  there is room for one more number whenever one is about to be issued, what
  belongs to the newest attempt is last, and behind a reply that was recognised
  there is nothing. For the refinement, `OwnKept` adds that the reply of the
  attempt is at one place only, so that the abstract `answer` is well defined;
  each step of the rings is then a step of the service or a stutter.
* `AwaitedKept` (`AwaitedIsThere`), without `InOrder`: while a call waits, its
  command is in the ring or in the APM's hand, or the reply is in the reply
  ring, behind the place up to which the walk has looked and will drop what it
  finds. To be inductive it needs `FreshNumber`: what the newest attempt sent
  carries the number that is looked for, also after the numbers came round.

### CPU

* `CpuFreqProofs!RailSafe` (`RailCoversClock`), `CurTrue` (`CurIsTheClock`)
  and `TypeCorrect` (`TypeOK`), all from `Inductive`, for every set of clusters
  and other callers, every step table whose `vsel` does not fall from a step to
  a higher one (`ClockAssumption`) and every ring size. `RailCoversClock` alone
  is not inductive: a lowering write whose call failed is still in the queue.
  The strengthening (`Holds`) says that the rail, *and every write for it that
  is still to be performed*, is enough for the step the cluster has, and from
  `Leave` to `Program` for the one it is leaving for. Going up this needs
  `ServiceSettled`'s invariant: the raising write was answered, so none of the
  earlier, lower ones is left behind it. The other conjuncts tie the command in
  the call to the place in `s9p_set_step` (`CallMatches`) and `policy->cur` to
  the PLL (`ClockKnown`).
* `StepRefined` (`StepImplemented`): a cluster's clock and the step it is being
  taken to behave as `CpuStep`. That a transition fails only on the way up comes
  from `Inductive`: only the raising write is answered before the PLL is left.
* `LevelTypeCorrect`, `SpikesFiltered` (`SpikeHarmless`) and `LevelMovesWell`:
  the expression of `s9p_tmu_filtered` is the median of three (`MedianIs`), so a
  level is entered only on two of the last three readings, or, while there are not
  three, on the first of all, which fills the filter; it is entered at once
  when two reach it and the GPU does not refuse, and is left one at a time,
  after the hold, below the threshold by the hysteresis.
* `PolicyTypeCorrect` (`PolicyTypeOK`) and `NoCapLost` (`LimitsInForce`), for
  every table of frequencies and caps. `LimitsInForce` speaks only of a core
  with nothing to do; `CapsKept` says why it is then true: the requests follow
  the level and the boost switch; the core's work is queued unless `policy->max`
  is already the lowest request; and unless the governor is still to be told,
  what a transition aims at, or the clock when none runs, is not above
  `policy->max`. The
  least of the requests and the highest wanted level are extrema of finite sets;
  that they exist follows from the well-foundedness of the strict subsets of a
  finite set, since an induction theorem with an operator as parameter cannot be
  used here.

### GPU, touch

* `G3dClockProofs!TypeCorrect`, `CapsHonoured` (`CapHonoured`) and `OnUsable`
  (`OnIsUsable`), from `DriverInductive`: who holds `g3d_lock` at which place
  (`Locked`), that a domain on for its consumers is powered (`Powers`), that mux
  and source agree except in a failed undo (`MuxKnown`), and that the PLL is
  where the requests want it unless the last attempt failed (`Honoured`).
  `RailSafe` (`RailCoversGpu`) and `PublishedSafe` (`PublishedOnSafeRail`), from
  `RailInductive`, under `~LateEnable`. `Floor` is the set of voltages that the
  rail has and keeps after each queued command; the invariant says which of the
  table's voltages are in it at each place (`RailFit`, `RailFollows`).
* `TouchBringupProofs!TouchTypeCorrect` (`TypeOK`) and `RailsKept`
  (`TouchPowered`): a rail that is on *stays on* when no queued command turns it
  off (`StaysOn`), which holds of both whenever no cycle is due (`RailsOn`).
  The off commands of an earlier, failed cycle are settled by the answers of the
  on commands of the one that succeeded.
* `EveryStepCounts` (`WorkAdvances`): every step of the work raises the count of
  failures, or else that of cycles, or else that of probes, or else lowers
  `Ahead`, the number of steps to the next of these; no step of another does any
  of it. With the limits of `TouchTypeCorrect` the work takes finitely many
  steps. `WorkEnds` adds that it takes them.

### Display

* `DeconFlipProofs!TypeCorrect`, and under `InTime` `NoTear`
  (`ScannedNotDrawn`), `OffDark` (`OffIsDark`), `OnLit` (`OnIsLit`) and
  `ShownInOrder` (`ScreenImplemented`), for any set of buffers. `InTime`: TE
  edges come in time, the DSIM was mapped and the black frame allocated at probe,
  and the panel parameters are not written while the panel is down. Without any of
  the four `NoTear` or one of the others is false. The strengthening says for each place
  of a commit which buffer is queued and, with the update still asked for or
  not, which is read (`EnabledData`, `DisabledData`); that a panel which sends no
  TE edges is one on its way down or up again (`Asleep`); how the two flags
  follow the commit (`Placed`); and for the panel's light, what the parameters
  undo (`Shown`). The same invariant says which step of the abstract display
  each TE edge and each end of a commit is; `DisplaySafe` is that this display
  hands nothing back that it shows.
* `EventKept` (`EventInHand`), without `InTime`: an event that was not sent is
  held by the commit on its way, or armed with vblanks and the interrupt on,
  although the vblank core turns the interrupt off when it likes.

### Flash, PCIe, USB port

* `UfsHostProofs!TypeCorrect`, `NexusTypes` (`NexusRight`) for any number of
  slots. `PmaSafe` (`PmaClocked`), with fatal errors at every moment the model
  has: an access keeps its clock and its PHY from the first to the last, and names
  the exception, a fatal error's dump while the core calibrates the link that is
  up or suspends. The invariant (`PmaInv`) says at which places
  either of the two can be in an access, and where the PHY is out of isolation.
* `EveryStartupPrepared`: every link startup finds VCC, resets, clocks, PHY and
  calibration as it needs them, whichever way the core came to it, unless the
  controller did not tell its lanes or VCC did not come on again. `ReadyInv`
  says up to which place each hook's work lasts; the accesses to the PHY write
  back clock gates that they read earlier, and do not stop the link's clocks
  because all of them begin after `PreLink` and end before the gates are closed.
* `PortProofs!TypeCorrect`, `NoDeadLink` (`DeadLinkNotUsed`) and `HandlerSafe`
  (`HandlerHasRegs`), from any registers and with no assumption on when an
  interrupt is taken. The handler stays installed through failed probes and
  removes with freed data. If it is then run, `left` is not "nobody": from the
  clearing of the stale status on, a pulse that is latched and enabled belongs to
  a bus in use, until the driver is removed.
* `PulsesKept` (`NoPulseLost`), for any set of lines: an asserted line of a bus
  in use is enabled and latched, or among those the handler has read and is
  still to dispatch. `Carried` adds where the pulses are enabled and the handler
  installed. A line asserted between the handler's read and its acknowledge
  stays latched, since only what was read is cleared, or was itself read.
* `PortTypeCorrect` (`PortTypeOK`) and `NothingIsMissed` (`NothingMissed`), for
  every range of limits: a change of power is latched, or its work is queued, or
  userspace knows of it; an overload is latched or in the hands of the thread,
  unless the bus failed or its bit was read while masked (`dropped`); a VBUS that the poll takes to be there has its switches
  set, unless the setting failed or was not obeyed; and the limit is lowered to
  one code below the lowest current at most, so that it does not wrap. `PortInv`
  adds `LimitRead`: at its write the thread has read a limit that is not below
  `Low`, although userspace may have set another since. That it and the work are
  idle while the driver is unbound is part of the types.

### Only model-checked

Liveness under fairness is out of the prover's reach. It stays with TLC:
`EveryCallAnswered`, `LevelFollows`, `NoFlapping`, `CapsReachClock`,
`FloorIsLetGo`, `WorkEnds`, `LastFlipShows`, `EventIsSent`, `Recovers`,
`AssertionServed`, `HostIsConnected`, `AiclSettles`, `OnlineIsTold`. Most of them
have a proved part, that what is waited for cannot get lost: `AwaitedKept` for
the first, `LevelMovesWell` for the second and third, `NoCapLost` for
`CapsReachClock`, `EveryStepCounts` for `WorkEnds`, `EventKept` and `NoTear`'s
invariant for the two of the display, `EveryStartupPrepared` for `Recovers`,
`PulsesKept` for `AssertionServed` and `NothingIsMissed` for the three of the
port. `TearFree` is violated, and so are `StaleClearedFirst` and `PmaUngated` (5).

## 5. Findings

*Late TE edge* (`s9p-decon.c:478`, run `decon_late_te`). A skipped flip's event
is sent: the buffer on screen is handed back, and the one flipped to is never
shown. `PROJECT.json`, `findings`, quotes the comment it disagrees with.

Met on the way. Each shows as a violation when the configuration is changed as
given:

| What | Where | Change | Violates |
|---|---|---|---|
| Every attempt spends one of 63 numbers, and a command that timed out stays with the APM: one that lags behind far enough answers an old command under the number waited for | `s9p-acpm.c:232` | `MaxLag = 4` in `MCAcpm.cfg` | `OwnReply` |
| `step_volt` turned on while running lowers the rail; when that call times out the parameter stays off, and the rail comes down later under a clock that nothing raises it for | `s9p-g3d.c:147` | `LateEnable = TRUE` in `MCG3dClock.cfg` | `RailCoversGpu` |
| After a failed rollback every step counts as a step up from 26 MHz: the rail is written before the clock, lower too | `s9p-g3d.c:288` | `INVARIANT RailAlwaysCoversGpu` in `MCG3dClock.cfg` | it |
| A deferred or failed probe has its mapping released by the driver core, the static pointer stays | `s9p-g3d.c:524` | `INVARIANT PllIsMapped` in `MCG3dClock.cfg` | it |
| `panel_sleep` changed while the panel sleeps leaves it dark for good | `s9p-decon.c:371` | `ParamsWhileOff = TRUE` in `MCDecon.cfg` | `OffIsDark`, then `OnIsLit` |
| A pulse that a previous kernel left latched and enabled runs the chained handler as soon as it is installed, with ELBI not mapped, long before "stale status from a previous kernel is cleared first" (337-338); `HandlerHasRegs` allows for it | `pcie-exynos9810.c:426` | `INVARIANT StaleClearedFirst` in `MCPcieLink.cfg` | it |
| A fatal error's dump and a calibration of the link that is up stop the PHY's APB clock under each other's access, which the comment at 202 says each has; `PmaSafe` allows for it | `ufs-exynos9810.c:200` | `INVARIANT PmaUngated` in `MCUfsHost.cfg` | it |
| A fatal error's dump goes on while the core suspends, which isolates the PHY under it | `ufs-exynos9810.c:1007` | an invariant that `acc[x] = "open" => phy` in `MCUfsHost.cfg` | it |
| An interrupt of the module that is pending at remove runs the handler, which nothing takes away, on freed data | `pcie-exynos9810.c:564` | an invariant that `left # "remove"` at "oops" in `MCPcieLink.cfg` | it |
| A VCC that is off once is never turned on: only an enabled regulator is cycled | `ufs-exynos9810.c:1035` | `VccComesOn = FALSE` in `MCUfsHost.cfg` | `Recovers` |
| A plug pulled and put back between two polls is no edge, and the MCU may have opened the switches | `s9p-max77705-muic.c:157` | `FastReplug = TRUE` in `MCUsbPort.cfg` | `HostIsConnected` |
| CHGIN's interrupt is requested before AICL's and freed after it: an interrupt in between has the thread read, and clear, an overload that is masked, and the limit stays too high until the overload comes anew | `max77705_charger.c:690` | `OverloadNoticed` without `~dropped` | `NothingMissed` |
| With AICL asserted at the lowest code the limit would wrap to the highest; holds only as sources bear the lowest current | `max77705_charger.c:67` | `MinSource = 0` in `MCUsbPort.cfg` | `AiclSettles` |

Read, and not modelled: a switch setting that failed is stored as done and not
repeated (`s9p-max77705-muic.c:160`; `HostIsConnected` leaves it out); a
`poll_ms` of 0 ends the polling for good, since nothing re-arms it;
inhibit-charge written between the registration of the power supply and the end
of the probe (`max77705_charger.c:668`, 704) is undone; `bat_info` is set (528)
after the properties that read it are registered (429);
`docs/01-hardware.md:71-75` gives GPU and little-cluster thresholds other than
the tables at `s9p-cpufreq.c:142-162`; a flip's event may be sent by a
FRAME_START that was pending from before.

## 6. What could follow

The modules stand in the order in which they matter: the mailbox and what rests
on it, then the policy, the display, the flash, PCIe, the port. Left to do:

1. an abstract specification of the GPU's clock, of which the ceilings, the
   published clock and the domain are a refinement, as `CpuStep` is for a
   cluster;
2. the measures behind `Recovers` and `AiclSettles`, as `EveryStepCounts` is the
   one behind `WorkEnds`;
3. the kernel and the userspace tool `s9p-acpm` on the same rings: the kernel's
   mutex says nothing to the tool, although the comment at `s9p-acpm.c:11-12`
   has the two share the channel; the kernel's properties hold while it is not
   run;
4. the charger's `charge_behaviour` against its probe.

## 7. Not modelled

Register values and their meaning for the silicon (voltages that are really
needed, calibration tables, PLL coefficients), and time beyond order and
time-outs.

* *USB PHY*: four straight-line sequences that the PHY core serialises and
  counts; the driver keeps no state and has no wait to interleave with.
* *Clock gates*: one write each at probe.
* *Charger*: the charge current and the translation of status registers to
  properties, which are one access each; `charge_behaviour`.
* *GPU domain*: the probe and the bootstrap PLL's values.
* *CPU frequency*: `s9p_exit`, which cannot be followed by a second `s9p_init`
  on this SoC, and the probe.
* *Userspace*: shell scripts that write sysfs attributes and files from top to
  bottom; what the attributes do is in the drivers' modules.
* *Boot loader, device tree, reference driver, build, image, flashing and CI*:
  vendored code, data, or scripts that stop at the first failure.

Of the repository's roughly forty thousand lines of implementation some three
quarters are the vendored boot loader with its fonts, libfdt and kconfig, and
three thousand are scripts. The drivers written for this port are under eight
thousand lines, a good part of them tables, register names and comments; their
control flow is what the modules above cover, so that the share of mapped lines
is small however complete the models become.
