---------------------------- MODULE PowerButton ----------------------------
(***************************************************************************)
(* The power button: src/senoko/senoko-events.c and the handlers of        *)
(* src/senoko/main.c, on top of power.c.                                   *)
(*                                                                         *)
(*   edge of the pin -> debounce timer -> event flag of the main thread    *)
(*     -> handler in the main thread -> release timer -> power.c           *)
(*                                                                         *)
(* The main thread runs at LOWPRIO + 10 and its handlers print to the      *)
(* serial console, so any time may pass between two of its steps; the tick *)
(* interrupt and the host's commands preempt it everywhere.                *)
(***************************************************************************)
EXTENDS Power

CONSTANTS
  Debounce,      \* BUTTON_DEBOUNCE_MS, in ticks of the model
  PowerOnWait,   \* the press that powers on, in ticks of the model
  PowerOffWait   \* the press that powers off, in ticks of the model

ASSUME ButtonAlone == Callers = {}

ASSUME WaitsAssumption ==
  /\ Debounce \in Nat \ {0}
  /\ PowerOnWait \in Nat \ {0}
  /\ PowerOffWait \in Nat
  /\ PowerOnWait < PowerOffWait

VARIABLES
  button,       \* the button is held down
  gpio,         \* gpio_states[pin_power]: held down, after debouncing
  debounce_vt,  \* ticks before debounce_button, or Unarmed
  events,       \* flags pending at the main thread
  handler,      \* where the main thread is in its handlers
  pb_is_armed,  \* pb_is_armed
  release_vt,   \* ticks before release_powerbutton, or Unarmed
  sincePress,   \* history: ticks since the last press was handled
  acted,        \* history: the timer has acted on that press
  letGo,        \* history: gpio was FALSE then or has been since
  stayedOn      \* history: the board was on then and has been since

history == <<sincePress, acted, letGo, stayedOn>>

pbVars == <<button, gpio, debounce_vt, events, handler, pb_is_armed,
            release_vt, history>>

pbAll == <<vars, pbVars>>

PbInit ==
  /\ Init
  /\ button = FALSE
  /\ gpio = FALSE
  /\ debounce_vt = Unarmed
  /\ events = {}
  /\ handler = "wait"
  /\ pb_is_armed = FALSE
  /\ release_vt = Unarmed
  /\ sincePress = PowerOffWait
  /\ acted = FALSE
  /\ letGo = FALSE
  /\ stayedOn = FALSE

PbDue == debounce_vt = 0 \/ release_vt = 0

(* The main thread runs its handlers once it has booted.                   *)
MainCanRun ==
  /\ Booted
  /\ ~Due
  /\ ~PbDue
  /\ \A c \in Ctx : ~Active(c)

-----------------------------------------------------------------------------
(* The button and its debouncing.                                          *)

(* An edge of the pin: gpio_callback rearms the debounce timer.  It does so*)
(* from senokoEventsInit on, before the main thread handles any event.     *)
Edge ==
  /\ button' = ~button
  /\ debounce_vt' = Debounce
  /\ UNCHANGED <<vars, gpio, events, handler, pb_is_armed, release_vt,
                 history>>

(* debounce_button: broadcast the change, if one is left.                  *)
FireDebounce ==
  /\ At("vt", "idle")
  /\ debounce_vt = 0
  /\ debounce_vt' = Unarmed
  /\ gpio' = button
  /\ events' = IF gpio = button THEN events
               ELSE events \union {IF button THEN "pressed" ELSE "released"}
  /\ letGo' = (letGo \/ ~button)
  /\ UNCHANGED <<vars, button, handler, pb_is_armed, release_vt, sincePress,
                 acted, stayedOn>>

-----------------------------------------------------------------------------
(* The main thread: chEvtWaitOne takes the flag with the lowest number,    *)
(* and pressed comes before released.                                      *)

(* Mutant: the numbers of the two flags are swapped.                       *)
TakeReleasedFirst ==
  /\ MainCanRun
  /\ handler = "wait"
  /\ events # {}
  /\ LET e == IF "released" \in events THEN "released" ELSE "pressed"
     IN /\ handler' = e
        /\ events' = events \ {e}
  /\ UNCHANGED <<vars, button, gpio, debounce_vt, pb_is_armed, release_vt,
                 history>>

(* The press is taken first, in whatever order the flags were set.         *)
TakeEvent ==
  /\ MainCanRun
  /\ handler = "wait"
  /\ events # {}
  /\ LET e == IF "pressed" \in events THEN "pressed" ELSE "released"
     IN /\ handler' = e
        /\ events' = events \ {e}
  /\ UNCHANGED <<vars, button, gpio, debounce_vt, pb_is_armed, release_vt,
                 history>>

ArmButton ==
  /\ MainCanRun
  /\ handler = "pressed"
  /\ pb_is_armed' = TRUE
  /\ handler' = "test_power"
  /\ sincePress' = 0
  /\ acted' = FALSE
  /\ letGo' = ~gpio
  /\ stayedOn' = reg
  /\ UNCHANGED <<vars, button, gpio, debounce_vt, events, release_vt>>

(* Mutant: no timer is started while the board cools off.                  *)
TestPowerCooling ==
  /\ MainCanRun
  /\ handler = "test_power"
  /\ handler' = IF cooling_off THEN "wait"
                ELSE IF reg THEN "set_power_off_wait"
                            ELSE "set_power_on_wait"
  /\ UNCHANGED <<vars, button, gpio, debounce_vt, events, pb_is_armed,
                 release_vt, history>>

TestPower ==
  /\ MainCanRun
  /\ handler = "test_power"
  /\ handler' = IF reg THEN "set_power_off_wait" ELSE "set_power_on_wait"
  /\ UNCHANGED <<vars, button, gpio, debounce_vt, events, pb_is_armed,
                 release_vt, history>>

(* Mutant: a timer that is already running is left alone.                  *)
SetReleaseTimerOnce ==
  /\ MainCanRun
  /\ handler \in {"set_power_on_wait", "set_power_off_wait"}
  /\ release_vt' = IF release_vt # Unarmed THEN release_vt
                   ELSE IF handler = "set_power_on_wait" THEN PowerOnWait
                   ELSE PowerOffWait
  /\ handler' = "wait"
  /\ UNCHANGED <<vars, button, gpio, debounce_vt, events, pb_is_armed,
                 history>>

(* Mutant: the waits are counted from the edge, before the debouncing.     *)
SetReleaseTimerLonger ==
  /\ MainCanRun
  /\ \/ handler = "set_power_on_wait" /\ release_vt' = PowerOnWait + Debounce
     \/ handler = "set_power_off_wait" /\ release_vt' = PowerOffWait + Debounce
  /\ handler' = "wait"
  /\ UNCHANGED <<vars, button, gpio, debounce_vt, events, pb_is_armed,
                 history>>

SetReleaseTimer ==
  /\ MainCanRun
  /\ \/ handler = "set_power_on_wait" /\ release_vt' = PowerOnWait
     \/ handler = "set_power_off_wait" /\ release_vt' = PowerOffWait
  /\ handler' = "wait"
  /\ UNCHANGED <<vars, button, gpio, debounce_vt, events, pb_is_armed,
                 history>>

(* Mutant: the released handler stops the timer and does not disarm.       *)
DisarmButtonByTimer ==
  /\ MainCanRun
  /\ handler = "released"
  /\ release_vt' = Unarmed
  /\ handler' = "wait"
  /\ UNCHANGED <<vars, button, gpio, debounce_vt, events, pb_is_armed,
                 history>>

(* The released handler disarms; the timer is left to expire.              *)
DisarmButton ==
  /\ MainCanRun
  /\ handler = "released"
  /\ pb_is_armed' = FALSE
  /\ handler' = "wait"
  /\ UNCHANGED <<vars, button, gpio, debounce_vt, events, release_vt,
                 history>>

-----------------------------------------------------------------------------
(* release_powerbutton.  Only the host preempts it, and the host touches   *)
(* none of the button's variables, so its test and its choice are one step.*)

Acts == pb_is_armed /\ release_vt = 0 /\ release_vt' = Unarmed

(* Mutant: the callback does not disarm the button.                        *)
FireReleaseStaysArmed ==
  /\ At("vt", "idle")
  /\ release_vt = 0
  /\ release_vt' = Unarmed
  /\ acted' = (acted \/ pb_is_armed)
  /\ IF pb_is_armed
     THEN /\ Goto("vt", IF reg THEN "off_locked" ELSE "check_cooling")
          /\ UNCHANGED <<pin, reg, sig, cooling_off, cool_off_vt, power_on_vt,
                         enabled, restore, listening, resets>>
     ELSE UNCHANGED vars
  /\ UNCHANGED <<button, gpio, debounce_vt, events, handler, pb_is_armed,
                 sincePress, letGo, stayedOn>>

FireRelease ==
  /\ At("vt", "idle")
  /\ release_vt = 0
  /\ release_vt' = Unarmed
  /\ pb_is_armed' = FALSE
  /\ acted' = (acted \/ pb_is_armed)
  /\ IF pb_is_armed
     THEN /\ Goto("vt", IF reg THEN "off_locked" ELSE "check_cooling")
          /\ UNCHANGED <<pin, reg, sig, cooling_off, cool_off_vt, power_on_vt,
                         enabled, restore, listening, resets>>
     ELSE UNCHANGED vars
  /\ UNCHANGED <<button, gpio, debounce_vt, events, handler, sincePress,
                 letGo, stayedOn>>

-----------------------------------------------------------------------------

PbTick ==
  /\ Tick
  /\ ~PbDue
  /\ debounce_vt' = Countdown(debounce_vt)
  /\ release_vt' = Countdown(release_vt)
  /\ sincePress' = IF sincePress = PowerOffWait THEN sincePress
                                                ELSE sincePress + 1
  /\ UNCHANGED <<button, gpio, events, handler, pb_is_armed, acted, letGo,
                 stayedOn>>

(* main initialises pb_is_armed, and senokoEventsInit reads the pin.       *)
PbReset ==
  /\ Reset
  /\ gpio' = button
  /\ debounce_vt' = Unarmed
  /\ events' = {}
  /\ handler' = "wait"
  /\ pb_is_armed' = FALSE
  /\ release_vt' = Unarmed
  /\ sincePress' = PowerOffWait
  /\ acted' = FALSE
  /\ letGo' = FALSE
  /\ stayedOn' = FALSE
  /\ UNCHANGED button

(* What power.c does on its own leaves the button alone.                   *)
ButtonWatches ==
  /\ stayedOn' = (stayedOn /\ reg')
  /\ UNCHANGED <<button, gpio, debounce_vt, events, handler, pb_is_armed,
                 release_vt, sincePress, acted, letGo>>

BootOfPower == MainStep /\ ~PbDue /\ ButtonWatches

(* The charger, the shell and the watchdog are left out: they switch the   *)
(* board on or off at any point, and so do the commands of the host.  Those*)
(* leave the watchdog disabled, which makes no difference to the button.   *)
InterruptsOfPower ==
  /\ InterruptStep \/ HostOff \/ HostReboot \/ HostOn(FALSE)
  /\ ButtonWatches

MainThread ==
  \/ TakeEvent
  \/ ArmButton
  \/ TestPower
  \/ SetReleaseTimer
  \/ DisarmButton

PbNext ==
  \/ Edge
  \/ FireDebounce
  \/ MainThread
  \/ FireRelease
  \/ BootOfPower
  \/ InterruptsOfPower
  \/ PbTick
  \/ PbReset

PbSpec == PbInit /\ [][PbNext]_pbAll

(* As for power.c; the main thread is not starved for ever, and nothing is *)
(* assumed of whoever holds the button.                                    *)
PbFairness ==
  /\ SF_pbAll(PbTick)
  /\ WF_pbAll(FireDebounce \/ FireRelease)
  /\ WF_pbAll(InterruptStep /\ ButtonWatches)
  /\ SF_pbAll(MainThread)

PbFairSpec == PbSpec /\ PbFairness

-----------------------------------------------------------------------------
Handlers == {"wait", "pressed", "released", "test_power",
             "set_power_on_wait", "set_power_off_wait"}

(* Types of the variables of senoko-events.c and main.c.                   *)
PbTypeOK ==
  /\ button \in BOOLEAN
  /\ gpio \in BOOLEAN
  /\ debounce_vt \in Timer(Debounce)
  /\ events \subseteq {"pressed", "released"}
  /\ handler \in Handlers
  /\ pb_is_armed \in BOOLEAN
  /\ release_vt \in Timer(PowerOffWait)
  /\ sincePress \in 0 .. PowerOffWait
  /\ acted \in BOOLEAN
  /\ letGo \in BOOLEAN
  /\ stayedOn \in BOOLEAN

Arming == {"test_power", "set_power_on_wait", "set_power_off_wait"}

(* A press that is armed is going to be decided: its timer runs, or the    *)
(* handler is about to start it.  Otherwise a button that is held down     *)
(* would never cut the power.                                              *)
ArmedIsTimed == pb_is_armed => release_vt # Unarmed \/ handler \in Arming

(* One press acts at most once, although the timer of an earlier press may *)
(* still run when the handler arms the button again.                       *)
ActsOncePerPress == [][Acts => ~acted]_pbAll

(* The wait of the last press: the long one for a board that was on when   *)
(* the press was handled and has stayed on, and whose power it cuts.       *)
Wait == IF stayedOn THEN PowerOffWait ELSE PowerOnWait

(* The release of the button has yet to be debounced, taken or handled.    *)
ReleaseUnderWay ==
  \/ ~button /\ debounce_vt # Unarmed
  \/ "released" \in events
  \/ handler = "released"

(* A button that acts has been held down since its press was handled, for  *)
(* the long wait if the board was on throughout and for the short one      *)
(* otherwise, with two exceptions: its release may still be on its way to  *)
(* the handler, and the timer of an earlier press may expire while the     *)
(* handler is arming the button.                                           *)
HeldButtonActs ==
  [][Acts =>
       /\ (button /\ ~letGo) \/ ReleaseUnderWay
       /\ handler \notin Arming => sincePress >= Wait]_pbAll

(* An armed press is decided: the button acts, or it is released, unless   *)
(* the next press is handled first and starts the wait again.              *)
ArmedIsDecided ==
  (pb_is_armed /\ sincePress > 0) ~> (~pb_is_armed \/ sincePress = 0)

=============================================================================
