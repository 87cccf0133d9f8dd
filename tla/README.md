# Senoko in TLA+

A verification project for the firmware of Senoko (`src/senoko`), the board that
feeds a laptop's mainboard, charges its battery and watches over it, on top of
the ChibiOS/RT kernel (`src/os`). The modules model the parts whose
correctness depends on who runs when: the tick interrupt, the I2C interrupt and
a handful of threads share plain variables, and a reset may come at any point.

## The system

| part | state | operations | talks to |
|---|---|---|---|
| power switch, `power.c` | pin PB15, backup register, `cooling_off`, timers `cool_off_vt` and `power_on_vt` | `powerOn/Off/Reboot`, their `I` versions for interrupts, `powerInit`, two timer callbacks | called by the I2C interrupt, the tick interrupt, the charger, shell, watchdog and main threads; disables the host watchdog; broadcasts `powered_on/off` |
| host watchdog, `senoko-wdt.c` | `enabled`, `seconds` | `Set`, `Enable`, `Disable`, the thread | written by the I2C interrupt; calls `powerReboot`; feeds the independent watchdog |
| power button, `senoko-events.c`, `main.c` | `gpio_states`, `debounce_vt`; event flags of the main thread; `pb_is_armed`, `release_vt` | edge interrupt, debounce callback, pressed and released handlers, release callback | calls `powerOnI/OffI` from the tick interrupt |
| slave registers, `senoko-slave.c` | `registers`, interrupt pin PA0, high byte of the backup register | `senokoSlaveDispatch` (I2C interrupt), `PrepTransaction`, handlers of the slave thread | commands for `power.c` and `senoko-wdt.c`; events from both |
| I2C bus, `senoko-i2c.c` | `master_slave_sem`, `i2c_bus_sem`, the state of the driver | slave callbacks, master transactions with retries, the thread that unsticks the bus | the host is master, the charger and gas gauge are slaves on the same bus |
| charger, `chg.c` | last settings, `chg_paused`, `system_state`, the thread's loop | poll the gas gauge, set the charger, cut the power | I2C bus, `powerOff` |
| gas gauge, `gg.c` | `eeprom_cache`; the chip's flash and selected subclass | reads, multi-step writes of data flash, update of the configuration | I2C bus |
| virtual timers, `chvt.c` | list of differences | set, reset, tick | every timer above |
| events, semaphores (kernel) | flags, counters, queues | broadcast, wait, signal, reset | everything above |

The scheduler has fixed priorities and no time slices: I2C interrupt, edge
interrupt, tick interrupt, then the threads charger (117), unstick (112), slave
(70), main (64 during the boot, LOWPRIO + 10 afterwards), shell (59), watchdog
(LOWPRIO). A higher context preempts a lower one wherever interrupts are
enabled; most of the hazards in `PROJECT.json` are a variable that is read or
written on the wrong side of a lock.

What makes each part correct:

* power switch: a power-off keeps the board off for the promised time; the
  cool-off ends; a reboot ends with the board on; after a reset the pin follows
  the saved state again.
* host watchdog: a host that kicks is left alone, one that hangs is rebooted,
  one that disabled the watchdog is not.
* power button: a press acts at most once, after it was held for its wait, and
  is decided in the end.
* slave registers: what the host reads agrees with the state of the board, and
  the interrupt pin with the status register.
* I2C bus: one transaction at a time, no thread waits for ever, slave mode is
  back whenever the board is on.
* charger, gas gauge: an empty battery cuts the power; a multi-step write of
  the flash is not interleaved with another.
* virtual timers: every timer fires at the tick it was set for.

## Modules

**Power** models `power.c` with all its callers. A *context* is an interrupt or
a thread; `pc[c]` says where context `c` is inside `power.c`, and a step is what
runs between two points where another context may run: one access of a shared
variable, or one locked section.

| state | code |
|---|---|
| `pin`, `reg`, `sig` | PB15; bit 0 and the signature of the backup register |
| `cooling_off`, `cool_off_vt`, `power_on_vt` | the variables of those names; a timer is the ticks it has left, or `Unarmed` |
| `enabled` | the flag of `senoko-wdt.c`, which every power-off clears |
| `restore`, `listening` | what `powerInit` has read; whether `senokoI2cInit` opened the slave |
| `resets` | counter of the bound `MaxResets` |

| actions | code |
|---|---|
| `CheckOff`, `SetOff`, `StartCooling`, `ArmCoolOff`, `DisableWdt`, `ArmPowerOn` | `powerOff` and `powerReboot` of a thread, statement by statement |
| `CheckCooling`, `CheckOn`, `SetOn` | `powerOn` of a thread (`CheckCooling` also opens `powerOnI`) |
| `OffLocked`, `OnLocked`, `StopCoolOff`, `FireCoolOff`, `FirePowerOn`, `ButtonExpires` | the tick interrupt: timer callbacks and the button's timer |
| `HostOff`, `HostReboot`, `HostOn`, `HostReserved` | a write of the host to the power register: one step, nothing preempts the I2C interrupt |
| `CallOff`, `CallOn`, `WdtExpires`, `Bite` | the threads' calls |
| `BootToPowerInit`, `InitCooling` ... `InitReg` | the boot up to the end of `powerInit` |
| `Reset`, `Tick` | the independent watchdog, a failed assertion or `reboot`; time |

`CanRun` is the scheduler: no thread runs while a timer is due or a higher
context is active. The I2C interrupt may come at any time, also just after the
board has lost its power, when the transaction was already on the wire. The
order of timers that are due in the same tick is left open.

**PowerOffTime** adds two history variables to Power: `offFor`, how long the pin
has been low, and `undisturbed`, whether another context was inside `power.c`
when it went low or an operation came before the power-off was complete. The
properties about how long the board stays off need them; keeping them out of
Power keeps its liveness run small.

**Watchdog** extends Power with the thread's loop (`FeedAndSleep`,
`TestEnabled`, `Load`, `Store`, `Test`) and the host's writes
(`SenokoWatchdogSet`); it replaces Power's `WdtExpires`, which may bite at any
time, by the count. **PowerButton** extends Power with the path from the edge
of the pin (`Edge`, `FireDebounce`) through the event flags and handlers
(`TakeEvent`, `ArmButton`, `TestPower`, `SetReleaseTimer`, `DisarmButton`) to
the release timer (`FireRelease`); it replaces `ButtonExpires` in the same way.
Each is a refinement of the caller that Power leaves open. Both run without the
other callers of `power.c`: what those do to the variables that the watchdog
and the button read, the host's commands and the resets do at any point too.

**VirtualTimers** says what the kernel's timers promise: a timer that is set to
`d` ticks is called at the `d`-th tick, and no tick is counted while a timer that
is due has not been called. Power, Watchdog and PowerButton see their timers
that way. **DeltaList** models `chvt.c` and the ticker of `chvt.h`, and implements
it.

| state of DeltaList | code |
|---|---|
| `list` | the circular list, from `vt_next` of the header on |
| `delta` | `vt_delta` of every timer and of the header |
| `setting`, `rest`, `pos` | `vtp`, `delay` and `p` of `chVTDoSetI` |
| `serving` | the ticker is in its loop |
| `asked`, `left` | history: the delay that was asked for; `left` is the variable of VirtualTimers |

`Reset`, `Set`, `Search`, `Insert` are `chVTResetI` and `chVTSetI`, `Tick`, `Fire`,
`EndTick` the ticker, which leaves the locked section for each callback, so that
sets and resets come between. `Unlink` is `chVTDoResetI`. The differences are
arithmetic of a `systime_t` (`Wrap`), of any width.

**I2cBus** models the one I2C port in both of its roles: `senoko-i2c.c` over the
driver (`i2c.c`, `I2Cv1/i2c_lld.c` with its slave mode) and the kernel's binary
semaphores and thread references. It does not say what the transfers carry.

| state | code |
|---|---|
| `i2cp` | the driver structure: `state`, `slave_mode`, `thread` |
| `hw` | how the port is set up (`off` without a clock, `dead` when it was reset without being set up again), whether its DMA streams are allocated, whose transfer runs |
| `slave`, `on` | the host's transaction; the mainboard has power |
| `sem` | `master_slave_sem`: counter and queue |
| `th` | per thread its point, try, last message, and whether its `i2cStop` and `i2cStart` prepare the master or the slave |
| `halted` | the assertion that failed; `Restart` is the reset that follows |
| `cut`, `hosted` | history: the semaphore was taken for a host transaction that cannot give it back; the slave interrupt ran while a master was in its section |

| actions | code |
|---|---|
| `Call`, `Wait`, `Signal` | the loop of `senokoI2cMasterTransmitTimeout` |
| `Check`, `Stop`, `Start` | `i2cStop`, `i2cStart`: an assertion outside of the lock, then the locked section |
| `ReadyCheck`, `Begin`, `StaysBusy`, `Launch`, `TimesOut`, `Finish` | `i2cMasterTransmitTimeout` and its low-level part, up to the suspended thread |
| `CheckPower`, `SlaveBegin`, `SlaveStaysBusy`, `SlaveReady` | `senoko_i2c_mode_slave`, `i2cSlaveIoTimeout` |
| `UnstickPolls`, `UnstickResumes` | `i2c_unstick_thread` |
| `TransferDone`, `TransferError`, `HostAddresses`, `HostData`, `HostFinishes`, `HostFinishesEmpty`, `HostError` | the interrupts, with the callbacks of `senoko-i2c.c` |

**SlaveRegisters** models `senoko-slave.c`: the bytes that the interrupt and the
slave thread both change, one access per step, and the backup register whose
upper byte is the interrupt mask and whose lower byte belongs to `power.c`.
`HostReads` and the three `HostWrites...`/`HostClearsStatus` are transactions of the
interrupt, each one step; `WaitOne`, `LoadPower`, `StorePower`, `TestEnable`,
`LoadStatus`, `StoreStatus`, `TestStatus`, `WritePin` the thread's loop with its
handlers; `SenokoSlaveInit`, `PowerInitLoad`, `PowerInitStore` the part of the boot
that touches the same words. `missed` and `raced` are history: inputs that changed
before the thread listened, and a write inside the load and store of `powerInit`.

**GasGauge** composes `gg.c` and `chg.c` over `i2c_bus_sem`. A step is one
transaction, whose inside is I2cBus. The configuration in the gauge's flash is
four parts (`cells`, `limits`, `capacity`, `version`), each `old`, `new` or `lost`
(overwritten with a page of another one). An access is `Select`, `Read` and, to
change a word, again `Select` and `Write`, over the shared `eeprom_cache`; what a
thread acquires the bus for is a sequence of accesses (`Program`), which `Ended`
and `AfterRelease` follow. The charger thread's round is `Wake`, `Capacity`,
`State`, `Voltage`, the access to `TermVoltage`, `TestLow`, `Cut`, and `Continue`
for every `continue` of its loop. `CmdStats`, `CmdGg`, `CmdChg` are the shell's
commands, of which only the first acquires the bus before it uses or releases
it. A transaction fails with its effect or without (`FailsWithEffect`,
`FailsWithoutEffect`), and a reset may come after any.

Operators under a comment that begins with *Mutant* are not part of the
models. Each is a plausible bug in the definition that follows it, and shows
that a property of `PROJECT.json` notices it.

## Runs

Delays are kept in order, not to scale: cool-off 500 ms, reboot 300 ms, short
wait 200 ms, long wait 3 s, debounce 10 ms. A tick of the model is a stretch of
real time in which no timer expires.

| run | bounds | shows |
|---|---|---|
| Power | `CoolOff` 2, `RebootQuiesce` 1, shell and watchdog, one reset, fairness | `TypeOK`, `CoolOffEnds`, `RebootCompletes` |
| PowerOffTime | `CoolOff` 3, `RebootQuiesce` 2, all three threads, one reset | `CoolOffCannotWedge`, `PendingRebootIsOff`, `QuietBootSynchronises`, `StaysOff` |
| Watchdog | a tick per half second, host writes 0 or 1, one reset, fairness | `WdtTypeOK`, `BitesOnlyWhenStarved`, `HungHostIsBitten` |
| PowerButton | debounce 1, waits 2 and 3, one reset, fairness | `PbTypeOK`, `ArmedIsTimed`, `HeldButtonActs`, `ActsOncePerPress`, `ArmedIsDecided` |
| DeltaList | three timers, delays up to 4, fairness | `TypeOK`, `DeltasAgree`, `NoneOverdue`, `KeepsPromise` (the refinement of `VirtualTimers!FairSpec`) |
| I2cBus | the charger's and the shell's thread as masters, two tries, fairness | `TypeOK`, `SemaphoreHasAnOwner`, `TransferWakesItsOwner`, `NobodyInsideMeansStoppable`, `OneMasterWithoutHost`, `CallReturns` |
| SlaveRegisters | the button and the power state as sources of events, fairness | `SrTypeOK`, `NoHiddenInterrupt`, `StatusLeans`, `MaskSurvives`, `ButtonIsReported` |
| GasGauge | two tries of the update, fairness | `GgTypeOK`, `WritesGoHome`, `VersionImpliesConfigured`, `CutsOnlyWhenLow`, `BusComesBack`, `EmptyIsCut` |

The bounds are enough because nothing in the code counts higher: each timer is
armed again rather than queued, the two delays only matter by which is longer,
each thread appears once in the system, and at most three contexts can be
nested inside `power.c`. A reset leaves only the register and its signature
behind, so one reset finds everything that an earlier one could have left.
Writing 1 makes `seconds` 2, so both the decrement to a non-zero and to a zero
count happen. Three timers are enough for a removal or an insertion with a
predecessor and a successor, and delays up to 4 for two timers that are due in
the same tick, for equal and for unequal differences.

In I2cBus the two masters have a higher and a lower priority than the thread
that unsticks the bus, so every pair of the three preempts in the one order it
can. Two of the code's tries make a first, a retried and a last one. Nothing
else is bounded: calls, host transactions, power changes and failed assertions
come as often as they like. In SlaveRegisters the adapter's events, which take
the same path as the button's, are left out of the run, because all three
sources together have more states than are worth checking; the conjunct of
`StatusLeans` about the adapter is covered by the proof. In GasGauge the shell's
thread stands for the main thread too, which starts it last; after a command has
strayed onto a bus it does not own, only `stats` follows and no reset does, as
the properties no longer speak of that time. Its four parts are one for each
role that the words of the flash play; resets and failures are not bounded.

`HungHostIsBitten` is about a host that wrote a number of seconds other than 0:
`README.md:189` says "Write 0 to disable", and what the code does with a 0 is in
the list below.

`HeldButtonActs` looks at the button itself. When the timer acts, the button is
down and the debounced pin has not been released since the press was handled
(`letGo`), or else the release is still on its way: it is being debounced, its
flag is pending at the main thread, or its handler has begun. That is as much
as the code can promise, since the callback tests `pb_is_armed` and not the pin,
and the main thread, which clears `pb_is_armed`, may be kept from running for any
time. The wait since the handling of the press is over as well: the long one if
the board was on then and has stayed on (`stayedOn`), and the short one
otherwise, because the handler chooses by the power state that it finds
(`main.c:70`). Only for the wait the property leaves out the time in which the
handler is arming the button, when the timer of an earlier press may expire.

`RebootCompletes` leaves out the time before the last reset: a reset during a
reboot forgets the timer (see below).

`StaysOff` and `PendingRebootIsOff` are about a power-off that was
*undisturbed*: no other context was inside `power.c` when the pin went low and
none came into the middle of it, and no second power-off came so late that the
cool-off of the first was already being ended, or somebody had already passed
the test of `cooling_off`. The condition is there because of what PowerFlap
shows; everything else that comes after the power-off may interleave freely.

Runs that end in a violation, each a disagreement of the code with what its
documents or comments say (details under `findings`):

| run | the code | the text |
|---|---|---|
| PowerFlap | the host may power on between the pin and the flag of a thread's `powerOff` | "make sure the board is off for a certain amount of time" (`power.c:88`) |
| WatchdogLostKick | a kick between load and store of `seconds--` is lost | "Write a new value to kick the watchdog" (`README.md:188`) |
| I2cBusAssert | the return to slave mode does not take the semaphore: `i2cStop` of a second thread finds the driver in state 0 | `osalDbgAssert(... "invalid state")` (`i2c.c:120`) |
| GasGaugeStray | `chg` releases the bus of another thread | "Gains exclusive access to the I2C bus" (`i2c.c:248`) |

(PowerFlap runs on PowerOffTime, the others on the module of their name.) More
were noticed and have no run. Where a document says something else:

* a power-off of the host inside `powerInit` is half undone: pin and register
  differ (`main.c:173`: "synchronize power state"; `QuietBootSynchronises` exempts it);
* a reset of the microcontroller between the two halves of a reboot loses the
  second: the register says off, and the board stays off, although `README.md:106`
  says "power down for 250ms and then power up again";
* 0 bites at once (`README.md:189`: "Write 0 to disable");
* a button that is let go shortly before its timer expires may act all the same,
  as long as the handler of the release has not run, and a timer that a release
  left running may act for the next press while that is being armed
  (`main.c:66`: "If the button is released, suspend");
* a host that disables the watchdog between the thread's test and its reboot is
  rebooted all the same (`README.md:110`: "Watchdog is disabled");
* a press during a reboot cuts the power of the board that came up meanwhile
  (`main.c:66`: "Otherwise, wait 4 seconds"), and a release and a press that are
  pending together are handled in the wrong order, so that a held button does
  nothing (`README.md:22`);
* the long wait is 3 s (`main.c:76`), its comment says 4 s and the README 5 s;
* a reboot stays off for 300 ms (`power.c:9`), the README says 250 ms.

On the I2C bus:

* after a host transaction several masters may be inside at once
  (`senoko-i2c.c:70`), which is why `OneMasterWithoutHost` has its condition;
* a write of no byte (`senoko-i2c.c:82`), a power-off or an `i2cStop` in the middle
  of a host transaction leaves the semaphore taken until the next transaction:
  `cut` in `SemaphoreHasAnOwner` and `CallReturns`;
* a port that enters slave mode while `slave_mode` is already set is reset and
  not set up again (`i2c_lld.c:1078`): it hears nothing until the next `i2cStart`;
* a timeout leaves a stale thread reference (`chthreads.c:532` stores the address
  of a parameter), which the assertion at line 551 would find if it were resumed;
* a thread that ends its own call between the `i2cStop` and the `i2cStart` of
  another overwrites the state, and the next `i2cStop` releases DMA streams that
  are not allocated, which is another failed assertion (`halted` is `dma`);
* a read of one byte that fails returns an uninitialised buffer
  (`senoko-i2c.c:255`).

In the slave registers:

* opposite events that are pending together are handled in the order of their
  numbers: the adapter's and the button's bit may stay at the wrong one;
* events of the first 300 ms are missed (`senoko-slave.c:165`);
* a host that set a status bit itself, between the slave thread's test of the
  register and its write of the pin, would find the bit set and the pin low
  (`senoko-slave.c:25`). The code stores any byte; SlaveRegisters assumes a host
  that only clears bits, as `README.md:99` tells it to ("Write 0 to clear a IRQs"),
  and `NoHiddenInterrupt` rests on that;
* the slave thread writes back a stale watchdog bit of `registers.power`
  (`senoko-slave.c:34`), until the next transaction of the host renews it;
* the pin may stay high with no status bit set, and clearing a bit by writing
  the others back loses an event that came after the read.

Of charger and gauge:

* a selection that fails is overlooked by `gg_getmfgr` (`gg.c:230`), and a
  failed `ggSetBroadcast` by its caller (`chg.c:188`);
* `chg pause`, and a gauge that reports both FETs off, also suspend the cut-off of
  an empty pack, and the charge of a wake-up goes on while the gauge does not
  answer;
* the last page of an access is computed one too high when it ends at a multiple
  of 32 (`gg.c:328`), which no caller's does.

## Fairness

Ticks keep coming, since the interrupts above the tick are short: strong
fairness, because a tick of the model waits for due timers and for callbacks. A
callback that has started runs on: weak fairness, nothing in the model disables
it. A thread is preempted again and again but also gets the processor again
and again, because no context above it loops: strong fairness. Nothing is
assumed of the host, of the shell's user, of the button, or of when a thread
makes a call. In Power and Watchdog, where the button's timer may be due at any
time, the firing of the other two timers is strongly fair, as the timer list
holds each timer once.

In DeltaList a locked section ends (weak fairness of the search and the
insertion), ticks keep coming, and the ticker's loop goes on although callbacks
and interrupts set timers in between (strong fairness): whoever preempts it does
not do so for ever.

In I2cBus a thread that can run runs; one of low priority only in the pauses of
the others, hence strong fairness. The timeout of a transfer and the reset after
a failed assertion come (weak fairness). The host and the bus owe nothing, not
even an interrupt. `CallReturns` supposes that again and again no host
transaction is open or cut, as the semaphore is the host's otherwise. In
SlaveRegisters the slave thread gets the processor. In GasGauge both threads go
on, and the gauge answers the charger thread's requests again and again (strong
fairness of the successful transactions), without which nothing can be cut.

## Proofs

`Power_proofs` proves for all delays `0 < RebootQuiesce < CoolOff`, every set of
callers and every number of resets:

* `TypeCorrect`: `Spec => []TypeOK`. The one step that could break it is the
  tick, which decrements the armed timers: it waits until no timer is at zero.
* `CoolOffNeverWedges`: `Spec => []CoolOffCannotWedge`. The invariant is
  inductive together with the types. `GotoMoves` says that a step of a context
  moves no other, so a context at `arm_cool_off` and a tick interrupt at
  `stop_cool_off` stay there; `CoolOffKept` covers the actions that leave flag
  and timer alone; the others arm the timer, clear the flag, or hand the duty
  over from the timer to its callback.

* `QuietBootsSynchronise`: `Spec => []QuietBootSynchronises`. `QuietInv` says what
  a boot that the host cannot disturb looks like at each of its points
  (`QuietBoot`), and that only a reset decides whether the slave listens
  (`ListeningKept`).

* `TimersAreVirtualTimers`: `Spec => CoolOffTimer!Spec /\ PowerOnTimer!Spec`, the two
  timers that Power keeps in variables of its own as instances of VirtualTimers.
  The one fact is `TimersMove`: whatever a step of `power.c` does, a timer is left
  alone, set to its delay, reset, or counted down when it is not due.

They need `DelayAssumption` and `ResetsAssumption`.

`PowerOffTime_proofs` extends it: `RebootIsPendingWhileOff`
(`[]PendingRebootIsOff`) and `StaysOffForTheTime` (`StaysOff`), for all delays, every
set of callers and every number of resets. Both follow from what holds while a
power-off is undisturbed (`Calm`): whoever is in the rest of a power-off has the
pin low, then the flag set, then the timer started (`Tail`); a pending reboot
ends before the cool-off does (`Pending`); and what has passed and what the
timers have left make up the delays (`Duration`), or somebody is about to start
the timer. They also need `CallersAssumption`.

`Watchdog_proofs` proves `WdtTypeCorrect` and `LeftAloneUntilStarved`
(`BitesOnlyWhenStarved`) for every period and every number of seconds. The
decrement cannot go below zero because of what the thread has loaded (`Loaded`).
The other follows from the pace of the count (`Paced`): after a write of `n` the
halves of a second that were counted are ahead of the time since by the one that
the thread sleeps through, at most. They need `PeriodAssumption`,
`SecondsAssumption` and `WdtCallsPower`, which leaves the watchdog as the only
thread that calls `power.c`.

`WatchdogImplementsPower` is the refinement: `WdtSpec => Switch!Spec`, with
`Switch == INSTANCE Power_proofs WITH pc <- AsPowerSees`, which shows the thread's
labels inside its loop as idle. Its test that finds a hung host is then the call
that Power lets the watchdog make, and the kicks and the count are stutters. So
whatever is proved of Power holds of the switch with the real watchdog:
`SwitchIsSafeWithWatchdog` takes over `CoolOffCannotWedge` and
`QuietBootSynchronises`, which no run of Watchdog checks.

`PowerButton_proofs` proves `PbTypeCorrect`, `ArmedIsAlwaysTimed` (`ArmedIsTimed`),
`OneActPerPress` (`ActsOncePerPress`) and `HeldBeforeItActs` (`HeldButtonActs`) for all
times of debouncing and waiting. Once the handler is done, the time since the
press and what the timer has left make up the wait of that press (`HeldLong`), and
a press that was acted upon is not armed (`ActedIsOver`). A board that has stayed
on since the press gets the long wait (`OnSincePress`). A button that is let go is
noticed by the debouncing, and the event it causes stays pending until the
handler of the release has disarmed the button, as a press that is still pending
is taken first (`ReleaseFollows`). These need `WaitsAssumption`, and of `power.c` only
that the register holds a power state. In the other direction `ButtonImplementsPower` proves
`PbSpec => Spec`: debouncing, the handler and the timer only make calls that Power
allows a button. That needs `BootInv`, since Power has a button act only once the
boot is over: the main thread arms it from its event loop, which comes after
`powerInit`, and a reset disarms it. `SwitchIsSafeWithButton` takes over
`CoolOffCannotWedge` and `QuietBootSynchronises`, and `ButtonTimersAreVirtualTimers`
says of the two timers of the button what `TimersAreVirtualTimers` says of those of
the switch.

`SlaveRegisters_proofs` proves for every set of event sources, the adapter's
included:

* `TypeCorrect` (`SrTypeOK`); `InterruptIsShown` (`NoHiddenInterrupt`), inductive as
  `PinFollows`, which says what holds inside the handler: only between its store
  to `irq_status` and its write of the pin may a bit be set and the pin be low;
* `MaskIsSaved` (`MaskSurvives`), inductive as `MaskAgrees`, with the word that
  `powerInit` has loaded and is about to store;
* `StatusAlwaysLeans` (`StatusLeans`), inductive as `AllLean`: of the two events of a
  pair the one that is right is pending or being handled as long as it is not
  shown, and whenever the other still has its turn to come.

They need `SourcesAssumption` and `NoneAssumption`.

`I2cBus_proofs` proves for every set of masters and every number of tries
`BusTypeCorrect` (`TypeOK`), `TakenForAReason` (`SemaphoreHasAnOwner`),
`NoStrangerIsWoken` (`TransferWakesItsOwner`), `DriverIsLeftStoppable`
(`NobodyInsideMeansStoppable`) and `OneMasterAtATime` (`OneMasterWithoutHost`), all
from one invariant, `BusInv`. It adds that whoever is in the queue waits there,
once (`QueueWaits`), that the thread that unsticks the bus never goes the way of a
master (`UnstickAway`, `MastersAim`), that a driver state which `i2cStop` does not
accept belongs to a thread about to replace it (`StateIsHeld`), and that without
the host a master inside has the semaphore (`MasterHasIt`). One lemma covers the
many steps that move one thread and leave the semaphore alone (`Moved`). It needs
`MastersAssumption` and `TriesAssumption`.

Two more theorems say what the findings of I2cBusAssert hang on:

* `RefusedOnlyInCompany`: a thread that is about to check the driver's state and
  will be refused has another thread inside at that moment, which holds the state.
* `SoundWhileOff`: `Spec /\ []~on => []((halted \in {"none", "resume"}) /\
  AtMostOneMaster)`. While the mainboard is off nobody returns to slave mode
  and no host speaks; then the threads have the driver one at a time, each finds
  the state it expects (`StatesAt`) and none of the assertions on the state or the
  DMA streams fails. The invariant is `OffInv`. The kernel's assertion about a
  stale reference is rightly left out: it can fail with the board off, when the
  bus sticks again after a timeout.

`GasGauge_proofs` proves for every number of tries `GaugeTypeCorrect` (`GgTypeOK`),
`PagesGoHome` (`WritesGoHome`), `VersionIsLast` (`VersionImpliesConfigured`) and
`CutsForAReason` (`CutsOnlyWhenLow`). Until a command strays, `i2c_bus_sem` admits one
thread (`Exclusive`), so the selection and the cache are those of the thread that
uses them next (`Bound`), and what the update has not written yet is still in its
program, the version last (`Progress`); every transaction, failed or not, keeps
that (`TransactSound`), and so do all other steps (`RestSound`). `DrainInv` follows
the voltage through a round: it was read in it, and the limit that it is compared
with is not one of a wrong page. It needs `TriesAssumption`. From the same invariant
follow two theorems that no run checks:

* `ExclusiveUntilStray`: the exclusive access that GasGaugeStray finds broken lasts
  until a command strays, so the stray commands are its only cause;
* `UpdateIsNotUndone`: the flash changes only by the update's writes of a new part.
  The charger thread's `ggSetBroadcast` reads a subclass and writes it back while
  the update may be running, and still never takes back a word of it.

`DeltaList_proofs` proves for every set of timers and every width of a
`systime_t`:

* `TypeCorrect`, `DeltasAlwaysAgree`, `NeverOverdue`: `TypeOK`, `DeltasAgree` and
  `NoneOverdue` always hold. None of them is inductive. `Inv` is: it adds that the
  times are `Sorted` along the list (so that the sum of two differences, which a
  removal builds, and the difference that an insertion splits, stay within a
  `systime_t`), that the header holds the largest delay (so that the search ends
  there), and what the search knows (`Searching`: the delay that was asked for is
  the time of the predecessor and the rest). `InsertAtIs` and `RemoveAtIs` say how
  the positions of a sequence shift; there is one lemma per action.
* `CalledOnTime`: `Spec => VirtualTimers!Spec`. A tick of the list is a tick of the
  abstract timers because of `NoneOverdue`, a timer that the ticker calls is due
  because of `DeltasAgree` (`FireFacts`), and an insertion sets the timer to the
  delay that was asked for.

They need `ForeverAssumption` (a `systime_t` holds more than zero) and
`NodesAssumption` (the header is no timer).

The refinements make a chain. The list of `chvt.c` keeps the promise of
VirtualTimers, the timers of Power and PowerButton ask no more than that promise
(each of its delays fits, and a tick waits for a timer that is due), and Watchdog
and PowerButton are callers as Power allows them. The links are proved one by one,
each timer on its own: no theorem composes the list and its users in one module.

Every safety property of the runs is proved. Liveness is model-checked only, as
the proof system does not handle `ENABLED`: the eight properties with `~>` or `[]<>`,
and that a timer is called in the end, which is the part of `KeepsPromise` that
`CalledOnTime` leaves to TLC.

## Not modelled

The list of parts with the reasons is in `PROJECT.json`. What
the modules leave open, and why:

* the words that are written to the charger chip, and the gauge's single-register
  functions: one transaction each, without a state that another step depends on;
* the adapter's pin in PowerButton: it takes the path of the button to a handler
  that prints;
* the registers of the peripherals, except where the slave mode's set-up depends
  on what was there.

Formatting, logging, the shell's parser, dates, pins that are only read and the
registers of the peripherals are left out: they carry no state that these
properties tell apart.
