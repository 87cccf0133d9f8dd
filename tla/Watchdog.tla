------------------------------ MODULE Watchdog ------------------------------
(***************************************************************************)
(* src/senoko/senoko-wdt.c on top of power.c: a software watchdog for the  *)
(* mainboard.  The host writes a number of seconds to a register, which    *)
(* the module doubles; a thread of the lowest priority counts it down      *)
(* twice per second and reboots the board when it reaches zero.            *)
(*                                                                         *)
(* The count and the enable flag are plain variables that the I2C          *)
(* interrupt writes and the thread reads, decrements and tests.  The       *)
(* thread's "seconds--" is a load and a store.  The test that follows reads*)
(* both variables, or keeps what the thread loaded before: a write of the  *)
(* host that it misses is the same as one that comes after the test, so one*)
(* step that reads both loses no behaviour.                                *)
(***************************************************************************)
EXTENDS Power

CONSTANTS
  Period,      \* SENOKO_WATCHDOG_THREAD_MS, in ticks of the model
  MaxSeconds   \* bound: the largest value the host writes

ASSUME PeriodAssumption == Period \in Nat \ {0}

ASSUME SecondsAssumption == MaxSeconds \in Nat

ASSUME WdtCallsPower == Callers = {"wdt"}

VARIABLES
  seconds,    \* seconds (in halves of a second)
  loaded,     \* the thread's copy of it inside "seconds--"
  wake,       \* ticks before the thread's sleep ends, or Awake
  lastWrite,  \* history: the host's last write, or Never
  sinceWrite, \* history: ticks since then
  lost        \* history: it fell between the load and the store

wdtVars == <<seconds, loaded, wake, lastWrite, sinceWrite, lost>>

allVars == <<vars, wdtVars>>

Awake == -1

Never == -1

(* sinceWrite stops counting where the properties tell no more apart.      *)
LongestWait == 2 * MaxSeconds * Period

WdtInit ==
  /\ Init
  /\ seconds = 0
  /\ loaded = 0
  /\ wake = Awake
  /\ lastWrite = Never
  /\ sinceWrite = 0
  /\ lost = FALSE

-----------------------------------------------------------------------------
(* The thread.                                                             *)

powerButPc == <<pin, reg, sig, cooling_off, cool_off_vt, power_on_vt, enabled,
                restore, listening, resets>>

history == <<lastWrite, sinceWrite, lost>>

(* iwdgReset and chThdSleepMilliseconds at the top of the loop.            *)
FeedAndSleep ==
  /\ At("wdt", "idle")
  /\ wake = Awake
  /\ wake' = Period
  /\ UNCHANGED <<vars, seconds, loaded, history>>

(* if (enabled && seconds) seconds--                                       *)
TestEnabled ==
  /\ At("wdt", "idle")
  /\ wake = 0
  /\ wake' = Awake
  /\ Goto("wdt", IF enabled THEN "load" ELSE "test")
  /\ UNCHANGED <<powerButPc, seconds, loaded, history>>

(* Mutant: the count is not compared with zero before the decrement.       *)
LoadAnything ==
  /\ At("wdt", "load")
  /\ loaded' = seconds
  /\ Goto("wdt", "store")
  /\ UNCHANGED <<powerButPc, seconds, wake, history>>

Load ==
  /\ At("wdt", "load")
  /\ loaded' = seconds
  /\ Goto("wdt", IF seconds = 0 THEN "test" ELSE "store")
  /\ UNCHANGED <<powerButPc, seconds, wake, history>>

Store ==
  /\ At("wdt", "store")
  /\ seconds' = loaded - 1
  /\ loaded' = 0
  /\ Goto("wdt", "test")
  /\ UNCHANGED <<powerButPc, wake, history>>

(* Mutant: the bite waits for the count to fall below zero.                *)
TestBelowZero ==
  /\ At("wdt", "test")
  /\ Goto("wdt", IF enabled /\ seconds < 0 THEN "bite" ELSE "idle")
  /\ UNCHANGED <<powerButPc, wdtVars>>

(* if (enabled && !seconds): what follows is Bite and powerReboot.         *)
Test ==
  /\ At("wdt", "test")
  /\ Goto("wdt", IF enabled /\ seconds = 0 THEN "bite" ELSE "idle")
  /\ UNCHANGED <<powerButPc, wdtVars>>

-----------------------------------------------------------------------------
(* The I2C interrupt writes REG_WATCHDOG_SECONDS.                          *)

(* Mutant: the seconds are not doubled.                                    *)
SenokoWatchdogSetHalf(n) ==
  /\ HostMayTalk
  /\ seconds' = n
  /\ lastWrite' = n
  /\ sinceWrite' = 0
  /\ lost' = (pc["wdt"] = "store")
  /\ UNCHANGED <<vars, loaded, wake>>

SenokoWatchdogSet(n) ==
  /\ HostMayTalk
  /\ seconds' = n * 2
  /\ lastWrite' = n
  /\ sinceWrite' = 0
  /\ lost' = (pc["wdt"] = "store")
  /\ UNCHANGED <<vars, loaded, wake>>

-----------------------------------------------------------------------------

WdtTick ==
  /\ Tick
  /\ wake' = IF wake > 0 THEN wake - 1 ELSE wake
  /\ sinceWrite' = IF sinceWrite = LongestWait THEN sinceWrite
                                               ELSE sinceWrite + 1
  /\ UNCHANGED <<seconds, loaded, lastWrite, lost>>

WdtReset ==
  /\ Reset
  /\ seconds' = 0
  /\ loaded' = 0
  /\ wake' = Awake
  /\ lastWrite' = Never
  /\ sinceWrite' = 0
  /\ lost' = FALSE

WdtThread ==
  \/ FeedAndSleep
  \/ TestEnabled
  \/ Load
  \/ Store
  \/ Test

(* What power.c does by itself, apart from time and resets.  The charger,  *)
(* the shell and the button are left out: what they can do to the watchdog *)
(* is to clear its flag, at any point, and so does a command of the host.  *)
PowerOnly ==
  /\ \/ \E c \in Ctx : Step(c)
     \/ VtStep
     \/ HostCommand
     \/ InitStep
  /\ UNCHANGED wdtVars

WdtNext ==
  \/ PowerOnly
  \/ WdtThread
  \/ \E n \in 0 .. MaxSeconds : SenokoWatchdogSet(n)
  \/ WdtTick
  \/ WdtReset

WdtSpec == WdtInit /\ [][WdtNext]_allVars

(* Ticks keep coming and the lowest priority gets the processor again and  *)
(* again, or the independent watchdog would reset the microcontroller.     *)
WdtFairness ==
  /\ SF_allVars(WdtTick)
  /\ WF_allVars(InterruptStep /\ UNCHANGED wdtVars)
  /\ SF_allVars(MainStep /\ UNCHANGED wdtVars)
  /\ SF_allVars(WdtThread \/ (Step("wdt") /\ UNCHANGED wdtVars))

WdtFairSpec == WdtSpec /\ WdtFairness

-----------------------------------------------------------------------------
(* Types of the variables of senoko-wdt.c; the thread's own labels extend  *)
(* those of power.c.                                                       *)
WdtTypeOK ==
  /\ seconds \in 0 .. 2 * MaxSeconds
  /\ loaded \in 0 .. 2 * MaxSeconds
  /\ wake \in Awake .. Period
  /\ lastWrite \in Never .. MaxSeconds
  /\ sinceWrite \in 0 .. LongestWait
  /\ lost \in BOOLEAN
  /\ pc \in [Ctx -> Labels \union {"load", "store", "test"}]

Decides == pc["wdt"] = "test" /\ pc'["wdt"] = "bite"

EarlyBite == sinceWrite < (2 * lastWrite - 1) * Period

(* After the host wrote n the watchdog lets it live for n seconds, up to   *)
(* the half second the count is late, unless the write fell into the       *)
(* thread's "seconds--".                                                   *)
BitesOnlyWhenStarved == [][Decides => lost \/ ~EarlyBite]_allVars

(* README.md: "Write a new value to kick the watchdog".  Every write.      *)
EveryWriteKicks == [][Decides => ~EarlyBite]_allVars

(* A host that asked for some seconds and hangs is rebooted: an enabled    *)
(* watchdog bites, unless it is disabled or kicked again.  Nothing is asked*)
(* of a host that wrote 0, which is to disable the watchdog according to   *)
(* README.md, and which the code answers with a bite.                      *)
HungHostIsBitten ==
  (enabled /\ lastWrite > 0 /\ sinceWrite > 0)
    ~> (~enabled \/ sinceWrite = 0)

=============================================================================
