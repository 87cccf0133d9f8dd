------------------------------- MODULE Power -------------------------------
(***************************************************************************)
(* src/senoko/power.c: the switch of the mainboard.                        *)
(*                                                                         *)
(* The module keeps the pin that feeds the mainboard (PB15), a copy of its *)
(* state in a backup register that survives a reset of the                 *)
(* microcontroller, a flag that forbids powering on while the board cools  *)
(* off, and two virtual timers.  Its functions are called from contexts    *)
(* that preempt each other at every point where interrupts are enabled:    *)
(*                                                                         *)
(*   host     the I2C interrupt, in which commands of the mainboard arrive *)
(*   vt       the tick interrupt, in which virtual timers expire           *)
(*   charger  the charger thread (battery too low)                         *)
(*   main     the main thread, which calls powerInit while it boots        *)
(*   shell    the debug shell (commands "power on" and "power off")        *)
(*   wdt      the host watchdog thread, the only thread that reboots       *)
(*                                                                         *)
(* A step of a context is what it does between two points where another    *)
(* one may run: one access of a shared variable, or one locked section.    *)
(* Nothing preempts the I2C interrupt, so a host command is one step.      *)
(***************************************************************************)
EXTENDS Integers

CONSTANTS
  CoolOff,        \* COOL_OFF_MS, in ticks of the model
  RebootQuiesce,  \* REBOOT_QUIESCE_MS, in ticks of the model
  Callers,        \* the threads that call this module after the boot
  MaxResets       \* bound: resets of the microcontroller in one behaviour

ASSUME DelayAssumption ==
  /\ CoolOff \in Nat
  /\ RebootQuiesce \in Nat
  /\ 0 < RebootQuiesce
  /\ RebootQuiesce < CoolOff

ASSUME CallersAssumption == Callers \subseteq {"charger", "shell", "wdt"}

ASSUME ResetsAssumption == MaxResets \in Nat

VARIABLES
  pin,          \* PB15 drives the mainboard: TRUE is powered
  reg,          \* bit 0 of the backup register
  sig,          \* the backup register holds POWER_STATE_SIGNATURE
  cooling_off,  \* cooling_off
  cool_off_vt,  \* ticks before stop_cool_off, or Unarmed
  power_on_vt,  \* ticks before call_power_on, or Unarmed
  enabled,      \* the host watchdog is enabled (senoko-wdt.c)
  pc,           \* where each context is in power.c
  restore,      \* what powerInit read from the register
  listening,    \* the I2C slave was opened before powerInit
  resets        \* resets so far

vars == <<pin, reg, sig, cooling_off, cool_off_vt, power_on_vt, enabled, pc,
          restore, listening, resets>>

Unarmed == -1

Ctx == Callers \union {"vt", "main"}

(* Points in the off path behind the test of the state, in program order.  *)
OffTail == {"start_cooling", "arm_cool_off", "disable_wdt", "arm_power_on"}

BootLabels == {"boot", "init_cooling", "init_signature", "init_read",
               "init_pin", "init_reg"}

Labels == {"idle", "check_off", "set_off", "check_cooling", "check_on",
           "set_on", "off_locked", "on_locked", "stop_cool_off",
           "call_power_on", "bite"} \union OffTail \union BootLabels

-----------------------------------------------------------------------------
(* Scheduling: fixed priorities on one core.                               *)

Priority == [vt |-> 5, charger |-> 4, main |-> 3, shell |-> 2, wdt |-> 1]

Active(c) == pc[c] \notin {"idle", "boot"}

Due == cool_off_vt = 0 \/ power_on_vt = 0

CanRun(c) ==
  /\ c # "vt" => ~Due
  /\ \A d \in Ctx : Priority[d] > Priority[c] => ~Active(d)

Booted == pc["main"] = "idle"

At(c, label) == pc[c] = label /\ CanRun(c)

Goto(c, label) == pc' = [pc EXCEPT ![c] = label]

Init ==
  /\ pin = TRUE
  /\ reg = FALSE
  /\ sig = FALSE
  /\ cooling_off = FALSE
  /\ cool_off_vt = Unarmed
  /\ power_on_vt = Unarmed
  /\ enabled = FALSE
  /\ pc = [c \in Ctx |-> IF c = "main" THEN "boot" ELSE "idle"]
  /\ restore = FALSE
  /\ listening = FALSE
  /\ resets = 0

-----------------------------------------------------------------------------
(* Effects shared by the thread and the interrupt versions.                *)

(* power_set_state_x inside a locked section: pin and register together.   *)
PowerSetState(on) ==
  /\ pin' = on
  /\ reg' = on
  /\ sig' = TRUE

(* power_set_state_i: nothing happens when the register already says so.   *)
PowerSetStateI(on) ==
  IF reg # on THEN PowerSetState(on) ELSE UNCHANGED <<pin, reg, sig>>

-----------------------------------------------------------------------------
(* powerOff and powerReboot, called by threads.                            *)

CheckOff(c) ==
  /\ At(c, "check_off")
  /\ Goto(c, IF reg THEN "set_off" ELSE "start_cooling")
  /\ UNCHANGED <<pin, reg, sig, cooling_off, cool_off_vt, power_on_vt,
                 enabled, restore, listening, resets>>

SetOff(c) ==
  /\ At(c, "set_off")
  /\ PowerSetState(FALSE)
  /\ Goto(c, "start_cooling")
  /\ UNCHANGED <<cooling_off, cool_off_vt, power_on_vt, enabled, restore,
                 listening, resets>>

StartCooling(c) ==
  /\ At(c, "start_cooling")
  /\ cooling_off' = TRUE
  /\ Goto(c, "arm_cool_off")
  /\ UNCHANGED <<pin, reg, sig, cool_off_vt, power_on_vt, enabled, restore,
                 listening, resets>>

ArmCoolOff(c) ==
  /\ At(c, "arm_cool_off")
  /\ cool_off_vt' = CoolOff
  /\ Goto(c, "disable_wdt")
  /\ UNCHANGED <<pin, reg, sig, cooling_off, power_on_vt, enabled, restore,
                 listening, resets>>

DisableWdt(c) ==
  /\ At(c, "disable_wdt")
  /\ enabled' = FALSE
  /\ Goto(c, IF c = "wdt" THEN "arm_power_on" ELSE "idle")
  /\ UNCHANGED <<pin, reg, sig, cooling_off, cool_off_vt, power_on_vt,
                 restore, listening, resets>>

ArmPowerOn(c) ==
  /\ At(c, "arm_power_on")
  /\ power_on_vt' = RebootQuiesce
  /\ Goto(c, "idle")
  /\ UNCHANGED <<pin, reg, sig, cooling_off, cool_off_vt, enabled, restore,
                 listening, resets>>

(* powerOn called by a thread, powerOnI called by the tick interrupt.      *)

(* Mutant: the test of cooling_off is dropped.                             *)
CheckCoolingIgnored(c) ==
  /\ At(c, "check_cooling")
  /\ Goto(c, IF c = "vt" THEN "on_locked" ELSE "check_on")
  /\ UNCHANGED <<pin, reg, sig, cooling_off, cool_off_vt, power_on_vt,
                 enabled, restore, listening, resets>>

CheckCooling(c) ==
  /\ At(c, "check_cooling")
  /\ Goto(c, IF cooling_off THEN "idle"
             ELSE IF c = "vt" THEN "on_locked" ELSE "check_on")
  /\ UNCHANGED <<pin, reg, sig, cooling_off, cool_off_vt, power_on_vt,
                 enabled, restore, listening, resets>>

CheckOn(c) ==
  /\ At(c, "check_on")
  /\ Goto(c, IF reg THEN "idle" ELSE "set_on")
  /\ UNCHANGED <<pin, reg, sig, cooling_off, cool_off_vt, power_on_vt,
                 enabled, restore, listening, resets>>

SetOn(c) ==
  /\ At(c, "set_on")
  /\ PowerSetState(TRUE)
  /\ Goto(c, "idle")
  /\ UNCHANGED <<cooling_off, cool_off_vt, power_on_vt, enabled, restore,
                 listening, resets>>

-----------------------------------------------------------------------------
(* The tick interrupt: callbacks of the timers, and the power button whose *)
(* timer (main.c) calls powerOnI or powerOffI.                             *)

OffLocked ==
  /\ At("vt", "off_locked")
  /\ PowerSetStateI(FALSE)
  /\ cooling_off' = TRUE
  /\ cool_off_vt' = CoolOff
  /\ Goto("vt", "disable_wdt")
  /\ UNCHANGED <<power_on_vt, enabled, restore, listening, resets>>

(* Mutant: call_power_on respects the cool-off, as powerOnI does.          *)
OnLockedIfCool ==
  /\ At("vt", "on_locked") \/ At("vt", "call_power_on")
  /\ IF cooling_off
     THEN UNCHANGED <<pin, reg, sig>>
     ELSE PowerSetStateI(TRUE)
  /\ Goto("vt", "idle")
  /\ UNCHANGED <<cooling_off, cool_off_vt, power_on_vt, enabled, restore,
                 listening, resets>>

OnLocked ==
  /\ At("vt", "on_locked") \/ At("vt", "call_power_on")
  /\ PowerSetStateI(TRUE)
  /\ Goto("vt", "idle")
  /\ UNCHANGED <<cooling_off, cool_off_vt, power_on_vt, enabled, restore,
                 listening, resets>>

(* Mutant: the callback forgets to clear the flag.                         *)
StopCoolOffForgets ==
  /\ At("vt", "stop_cool_off")
  /\ Goto("vt", "idle")
  /\ UNCHANGED <<pin, reg, sig, cooling_off, cool_off_vt, power_on_vt,
                 enabled, restore, listening, resets>>

StopCoolOff ==
  /\ At("vt", "stop_cool_off")
  /\ cooling_off' = FALSE
  /\ Goto("vt", "idle")
  /\ UNCHANGED <<pin, reg, sig, cool_off_vt, power_on_vt, enabled, restore,
                 listening, resets>>

(* chVTDoTickI unlinks an expired timer before it calls its function.      *)
FireCoolOff ==
  /\ At("vt", "idle")
  /\ cool_off_vt = 0
  /\ cool_off_vt' = Unarmed
  /\ Goto("vt", "stop_cool_off")
  /\ UNCHANGED <<pin, reg, sig, cooling_off, power_on_vt, enabled, restore,
                 listening, resets>>

(* Mutant: the end of a reboot also stops the timer of the cool-off.       *)
FirePowerOnStopsCoolOff ==
  /\ At("vt", "idle")
  /\ power_on_vt = 0
  /\ power_on_vt' = Unarmed
  /\ cool_off_vt' = Unarmed
  /\ Goto("vt", "call_power_on")
  /\ UNCHANGED <<pin, reg, sig, cooling_off, enabled, restore, listening,
                 resets>>

FirePowerOn ==
  /\ At("vt", "idle")
  /\ power_on_vt = 0
  /\ power_on_vt' = Unarmed
  /\ Goto("vt", "call_power_on")
  /\ UNCHANGED <<pin, reg, sig, cooling_off, cool_off_vt, enabled, restore,
                 listening, resets>>

(* The button's timer may be due in the same tick as the others.           *)
ButtonExpires ==
  /\ Booted
  /\ At("vt", "idle")
  /\ Goto("vt", IF reg THEN "off_locked" ELSE "check_cooling")
  /\ UNCHANGED <<pin, reg, sig, cooling_off, cool_off_vt, power_on_vt,
                 enabled, restore, listening, resets>>

-----------------------------------------------------------------------------
(* The I2C interrupt: senokoSlaveDispatch of a write to the power register.*)
(* The watchdog bit is applied first, then powerOffI, powerOnI,            *)
(* powerRebootI or nothing.                                                *)

HostMayTalk == Booted \/ listening

PowerOffI ==
  /\ PowerSetStateI(FALSE)
  /\ cooling_off' = TRUE
  /\ cool_off_vt' = CoolOff
  /\ enabled' = FALSE

HostOff ==
  /\ HostMayTalk
  /\ PowerOffI
  /\ UNCHANGED <<power_on_vt, pc, restore, listening, resets>>

(* Mutant: the reboot forgets to power off first.                          *)
HostRebootStaysOn ==
  /\ HostMayTalk
  /\ power_on_vt' = RebootQuiesce
  /\ UNCHANGED <<pin, reg, sig, cooling_off, cool_off_vt, enabled, pc,
                 restore, listening, resets>>

HostReboot ==
  /\ HostMayTalk
  /\ PowerOffI
  /\ power_on_vt' = RebootQuiesce
  /\ UNCHANGED <<pc, restore, listening, resets>>

HostOn(wdtBit) ==
  /\ HostMayTalk
  /\ enabled' = wdtBit
  /\ IF cooling_off
     THEN UNCHANGED <<pin, reg, sig>>
     ELSE PowerSetStateI(TRUE)
  /\ UNCHANGED <<cooling_off, cool_off_vt, power_on_vt, pc, restore,
                 listening, resets>>

(* The reserved value of the state bits changes the watchdog bit alone.    *)
HostReserved(wdtBit) ==
  /\ HostMayTalk
  /\ enabled' = wdtBit
  /\ UNCHANGED <<pin, reg, sig, cooling_off, cool_off_vt, power_on_vt, pc,
                 restore, listening, resets>>

-----------------------------------------------------------------------------
(* Calls from the threads: chg_thread, cmd_power and wdt_thread.           *)

Call(c, label) ==
  /\ At(c, "idle")
  /\ Goto(c, label)
  /\ UNCHANGED <<pin, reg, sig, cooling_off, cool_off_vt, power_on_vt,
                 enabled, restore, listening, resets>>

CallOff(c) == Booted /\ c \in {"charger", "shell"} /\ Call(c, "check_off")

CallOn(c) == Booted /\ c = "shell" /\ Call(c, "check_cooling")

(* The watchdog thread finds the host watchdog enabled and expired ...     *)
WdtExpires(c) == enabled /\ c = "wdt" /\ Call(c, "bite")

(* ... disables it and reboots the board.  It runs before powerInit does.  *)
Bite(c) ==
  /\ At(c, "bite")
  /\ enabled' = FALSE
  /\ Goto(c, "check_off")
  /\ UNCHANGED <<pin, reg, sig, cooling_off, cool_off_vt, power_on_vt,
                 restore, listening, resets>>

-----------------------------------------------------------------------------
(* powerInit, in the main thread, after a reset of the microcontroller.    *)

BootToPowerInit ==
  /\ At("main", "boot")
  /\ Goto("main", "init_cooling")
  /\ UNCHANGED <<pin, reg, sig, cooling_off, cool_off_vt, power_on_vt,
                 enabled, restore, listening, resets>>

InitCooling ==
  /\ At("main", "init_cooling")
  /\ cooling_off' = FALSE
  /\ Goto("main", "init_signature")
  /\ UNCHANGED <<pin, reg, sig, cool_off_vt, power_on_vt, enabled, restore,
                 listening, resets>>

(* Mutant: a register that holds a state is trusted and nothing is done.   *)
InitSignatureTrusted ==
  /\ At("main", "init_signature")
  /\ Goto("main", IF sig THEN "idle" ELSE "check_cooling")
  /\ UNCHANGED <<pin, reg, sig, cooling_off, cool_off_vt, power_on_vt,
                 enabled, restore, listening, resets>>

InitSignature ==
  /\ At("main", "init_signature")
  /\ Goto("main", IF sig THEN "init_read" ELSE "check_cooling")
  /\ UNCHANGED <<pin, reg, sig, cooling_off, cool_off_vt, power_on_vt,
                 enabled, restore, listening, resets>>

InitRead ==
  /\ At("main", "init_read")
  /\ restore' = reg
  /\ Goto("main", "init_pin")
  /\ UNCHANGED <<pin, reg, sig, cooling_off, cool_off_vt, power_on_vt,
                 enabled, listening, resets>>

(* power_set_state_x outside any locked section: first the pin ...         *)
InitPin ==
  /\ At("main", "init_pin")
  /\ pin' = restore
  /\ Goto("main", "init_reg")
  /\ UNCHANGED <<reg, sig, cooling_off, cool_off_vt, power_on_vt, enabled,
                 restore, listening, resets>>

(* ... then the register.                                                  *)
InitReg ==
  /\ At("main", "init_reg")
  /\ reg' = restore
  /\ sig' = TRUE
  /\ Goto("main", "idle")
  /\ UNCHANGED <<pin, cooling_off, cool_off_vt, power_on_vt, enabled,
                 restore, listening, resets>>

(* The independent watchdog, a failed assertion or the shell's reboot      *)
(* command reset the microcontroller at any point.  RAM is lost, the       *)
(* backup register is kept, and board.h lets the pin come up high.         *)
Reset ==
  /\ resets < MaxResets
  /\ resets' = resets + 1
  /\ pin' = TRUE
  /\ cooling_off' = FALSE
  /\ cool_off_vt' = Unarmed
  /\ power_on_vt' = Unarmed
  /\ enabled' = FALSE
  /\ pc' = [c \in Ctx |-> IF c = "main" THEN "boot" ELSE "idle"]
  /\ restore' = FALSE
  /\ listening' = reg
  /\ UNCHANGED <<reg, sig>>

-----------------------------------------------------------------------------
(* Time.  The tick interrupt decrements every armed timer; timers that     *)
(* reach zero are served before any thread runs again.                     *)

(* Mutant: timers that are not armed are decremented too.                  *)
CountdownAll(t) == t - 1

Countdown(t) == IF t = Unarmed THEN Unarmed ELSE t - 1

Tick ==
  /\ At("vt", "idle")
  /\ ~Due
  /\ cool_off_vt' = Countdown(cool_off_vt)
  /\ power_on_vt' = Countdown(power_on_vt)
  /\ UNCHANGED <<pin, reg, sig, cooling_off, enabled, pc, restore, listening,
                 resets>>

-----------------------------------------------------------------------------

OffStep(c) ==
  \/ CheckOff(c)
  \/ SetOff(c)
  \/ StartCooling(c)
  \/ ArmCoolOff(c)
  \/ DisableWdt(c)
  \/ ArmPowerOn(c)

OnStep(c) ==
  \/ CheckCooling(c)
  \/ CheckOn(c)
  \/ SetOn(c)

InitStep ==
  \/ BootToPowerInit
  \/ InitCooling
  \/ InitSignature
  \/ InitRead
  \/ InitPin
  \/ InitReg

VtStep ==
  \/ FireCoolOff
  \/ FirePowerOn
  \/ OffLocked
  \/ OnLocked
  \/ StopCoolOff

(* What a context does once it has started.                                *)
Step(c) == OffStep(c) \/ OnStep(c) \/ Bite(c)

Calls(c) == CallOff(c) \/ CallOn(c) \/ WdtExpires(c)

HostCommand ==
  \/ HostOff
  \/ HostReboot
  \/ \E wdtBit \in BOOLEAN : HostOn(wdtBit) \/ HostReserved(wdtBit)

(* Everything but time.                                                    *)
Run ==
  \/ \E c \in Ctx : Step(c)
  \/ \E c \in Callers : Calls(c)
  \/ VtStep
  \/ ButtonExpires
  \/ HostCommand
  \/ InitStep
  \/ Reset

Next == Run \/ Tick

Spec == Init /\ [][Next]_vars

(* The tick interrupt is periodic and the interrupts above it are short,   *)
(* so ticks keep coming and a callback that has started ends.  A thread is *)
(* preempted again and again, but none of the contexts above it loops, so  *)
(* it also gets the processor again and again.  The timer of the button,   *)
(* which this module does not keep, is due at most once in a tick, so it   *)
(* cannot keep the other timers waiting for ever.                          *)
InterruptStep == VtStep \/ Step("vt")

MainStep == InitStep \/ Step("main")

Fairness ==
  /\ SF_vars(Tick)
  /\ WF_vars(InterruptStep)
  /\ SF_vars(FireCoolOff)
  /\ SF_vars(FirePowerOn)
  /\ SF_vars(MainStep)
  /\ \A c \in Callers : SF_vars(Step(c))

FairSpec == Spec /\ Fairness

-----------------------------------------------------------------------------
(* Types of the variables of power.c.                                      *)
Timer(bound) == Unarmed .. bound

TypeOK ==
  /\ pin \in BOOLEAN
  /\ reg \in BOOLEAN
  /\ sig \in BOOLEAN
  /\ cooling_off \in BOOLEAN
  /\ cool_off_vt \in Timer(CoolOff)
  /\ power_on_vt \in Timer(RebootQuiesce)
  /\ enabled \in BOOLEAN
  /\ pc \in [Ctx -> Labels]
  /\ restore \in BOOLEAN
  /\ listening \in BOOLEAN
  /\ resets \in 0 .. MaxResets

(* cooling_off can only be cleared by stop_cool_off.  Whenever it is set   *)
(* the callback is still to come: the timer is armed, its callback has     *)
(* begun, or the thread that set the flag is about to arm the timer.       *)
(* Otherwise the board could never be powered on again.                    *)
CoolOffCannotWedge ==
  cooling_off =>
    \/ cool_off_vt # Unarmed
    \/ pc["vt"] = "stop_cool_off"
    \/ \E c \in Ctx : pc[c] = "arm_cool_off"

(* Once the boot is over the pin and the register agree: main.c boots with *)
(* "Turn on mainboard and synchronize power state".                        *)
BootSynchronises == Booted => pin = reg

(* They do when the I2C slave was closed during the boot, as it is after a *)
(* reset that found the board off, or at the first power-up: the pin that  *)
(* the reset has let high follows the register again, whatever the threads *)
(* and the timers did meanwhile.                                           *)
QuietBootSynchronises == ~listening => BootSynchronises

(* Cool-off ends, unless another power-off starts it afresh.               *)
CoolOffEnds ==
  (cooling_off /\ cool_off_vt < CoolOff)
    ~> (~cooling_off \/ cool_off_vt = CoolOff)

(* A reboot powers the board on again, unless another reboot postpones it. *)
(* A reset would forget it, so no further reset may come.                  *)
RebootCompletes ==
  (resets = MaxResets /\ power_on_vt \in 0 .. RebootQuiesce - 1)
    ~> (reg \/ power_on_vt = RebootQuiesce)

=============================================================================
