------------------------- MODULE PowerButton_proofs -------------------------
(***************************************************************************)
(* Proofs about PowerButton, for all times of debouncing and of waiting    *)
(* and every number of resets.                                             *)
(*                                                                         *)
(* The button is one of the callers that Power allows for, since it is     *)
(* armed only once the boot is over (BootInv).                             *)
(*                                                                         *)
(* The timer of an earlier press may still run while the handler arms the  *)
(* button for the next one, which is why a press is said to be timed only  *)
(* when the handler is done.  From then on the time since the press and    *)
(* what the timer has left make up the wait of that press (HeldLong), and  *)
(* a press that was acted upon is not armed (ActedIsOver).  A button that  *)
(* is let go is noticed by the debouncing, whose event stays pending until *)
(* the handler disarms the button, whatever comes in between               *)
(* (ReleaseFollows).                                                       *)
(*                                                                         *)
(* Its timers are those of VirtualTimers.                                  *)
(***************************************************************************)
EXTENDS PowerButton, Power_proofs

-----------------------------------------------------------------------------
(* PowerButton implements Power: the timer of an armed button is the one   *)
(* that Power lets expire at any time after the boot.  That no button is   *)
(* armed during the boot is what has to be shown for it.                   *)
ArmedIsBooted == pb_is_armed => Booted

BootInv == TypeOK /\ ArmedIsBooted

(* Every step of PowerButton is a step of Power, or leaves power.c alone.  *)
LEMMA ButtonNext == BootInv /\ [PbNext]_pbAll => [Next]_vars
<1> SUFFICES ASSUME BootInv, [PbNext]_pbAll
             PROVE  Next \/ UNCHANGED vars
  OBVIOUS
<1>1. CASE UNCHANGED pbAll
  BY <1>1 DEF pbAll
<1>2. CASE Edge \/ FireDebounce \/ MainThread
  BY <1>2
  DEF Edge, FireDebounce, MainThread, TakeEvent, ArmButton, TestPower,
      SetReleaseTimer, DisarmButton
<1>3. CASE FireRelease
  <2>1. CASE pb_is_armed
    <3>1. Booted
      BY <2>1 DEF BootInv, ArmedIsBooted
    <3>2. ButtonExpires
      BY <1>3, <2>1, <3>1 DEF FireRelease, ButtonExpires
    <3> QED
      BY <3>2 DEF Next, Run
  <2>2. CASE ~pb_is_armed
    BY <1>3, <2>2 DEF FireRelease
  <2> QED
    BY <2>1, <2>2
<1>4. CASE BootOfPower
  BY <1>4, AlwaysContexts DEF BootOfPower, MainStep, Next, Run
<1>5. CASE InterruptsOfPower
  <2>1. HostOff \/ HostReboot \/ HostOn(FALSE) => HostCommand
    BY DEF HostCommand
  <2> QED
    BY <1>5, <2>1, AlwaysContexts
    DEF InterruptsOfPower, InterruptStep, Next, Run
<1>6. CASE PbTick \/ PbReset
  BY <1>6 DEF PbTick, PbReset, Next, Run
<1> QED
  BY <1>1, <1>2, <1>3, <1>4, <1>5, <1>6 DEF PbNext

(* Once booted the main thread has left power.c, and no interrupt brings   *)
(* it back.                                                                *)
LEMMA InterruptsLeaveMain ==
  ASSUME TypeOK, Booted, VtStep \/ Step("vt") \/ ButtonExpires
  PROVE  Booted'
<1>0. "vt" \in Ctx /\ "main" \in Ctx /\ "vt" # "main"
  BY AlwaysContexts
<1>1. PICK label \in Labels : Goto("vt", label)
  BY <1>0, StepMoves, InterruptMoves
<1>2. \A d \in Ctx \ {"vt"} : pc'[d] = pc[d]
  BY <1>0, <1>1, GotoMoves DEF TypeOK
<1> QED
  BY <1>0, <1>2 DEF Booted

(* The button is armed by the main thread, which boots first.              *)
LEMMA ArmedIsBootedKept == BootInv /\ [PbNext]_pbAll => BootInv'
<1> SUFFICES ASSUME BootInv, [PbNext]_pbAll PROVE BootInv'
  OBVIOUS
<1>0. TypeOK'
  BY ButtonNext, NextTypes DEF BootInv
<1>1. SUFFICES ArmedIsBooted'
  BY <1>0 DEF BootInv
<1>2. CASE UNCHANGED pbAll
  BY <1>2 DEF pbAll, pbVars, vars, BootInv, ArmedIsBooted, Booted
<1>3. CASE Edge \/ FireDebounce \/ MainThread
  <2>1. Booted' = Booted
    BY <1>3
    DEF Edge, FireDebounce, MainThread, TakeEvent, ArmButton, TestPower,
        SetReleaseTimer, DisarmButton, vars, Booted
  <2>2. pb_is_armed' => pb_is_armed \/ Booted
    BY <1>3
    DEF Edge, FireDebounce, MainThread, TakeEvent, ArmButton, TestPower,
        SetReleaseTimer, DisarmButton, MainCanRun
  <2> QED
    BY <2>1, <2>2 DEF BootInv, ArmedIsBooted
<1>4. CASE FireRelease \/ PbReset
  BY <1>4 DEF FireRelease, PbReset, ArmedIsBooted
<1>5. CASE BootOfPower
  <2>1. pc["main"] # "idle"
    BY <1>5
    DEF BootOfPower, MainStep, InitStep, BootToPowerInit, InitCooling,
        InitSignature, InitRead, InitPin, InitReg, Step, OffStep, CheckOff,
        SetOff, StartCooling, ArmCoolOff, DisableWdt, ArmPowerOn, OnStep,
        CheckCooling, CheckOn, SetOn, Bite, At
  <2>2. pb_is_armed' = pb_is_armed
    BY <1>5 DEF BootOfPower, ButtonWatches
  <2> QED
    BY <2>1, <2>2 DEF BootInv, ArmedIsBooted, Booted
<1>6. CASE InterruptsOfPower
  <2>1. pb_is_armed' = pb_is_armed
    BY <1>6 DEF InterruptsOfPower, ButtonWatches
  <2>2. Booted => Booted'
    <3>1. HostOff \/ HostReboot \/ HostOn(FALSE) => UNCHANGED pc
      BY DEF HostOff, HostReboot, HostOn
    <3> QED
      BY <1>6, <3>1, InterruptsLeaveMain
      DEF InterruptsOfPower, InterruptStep, BootInv, Booted
  <2> QED
    BY <2>1, <2>2 DEF BootInv, ArmedIsBooted
<1>7. CASE PbTick
  BY <1>7 DEF PbTick, Tick, BootInv, ArmedIsBooted, Booted
<1> QED
  BY <1>2, <1>3, <1>4, <1>5, <1>6, <1>7 DEF PbNext

(* The button of senoko-events.c and main.c, with its debouncing, its      *)
(* handlers and its timer, does to power.c only what Power lets a button   *)
(* do, for all waits and numbers of resets.                                *)
THEOREM ButtonImplementsPower == PbSpec => Spec
<1>1. PbInit => Init /\ BootInv
  BY InitTypes DEF PbInit, BootInv, ArmedIsBooted
<1> QED
  BY <1>1, ButtonNext, ArmedIsBootedKept, PTL DEF PbSpec, Spec

(* With the real button the cool-off still cannot get stuck, and a boot    *)
(* with the slave closed still ends with the pin at what the register      *)
(* says, for all waits and numbers of resets.                              *)
THEOREM SwitchIsSafeWithButton ==
  PbSpec => [](CoolOffCannotWedge /\ QuietBootSynchronises)
BY ButtonImplementsPower, CoolOffNeverWedges, QuietBootsSynchronise, PTL

-----------------------------------------------------------------------------
HeldLong ==
  pb_is_armed /\ handler \notin Arming =>
    release_vt # Unarmed /\ sincePress + release_vt >= Wait

ActedIsOver == acted => ~pb_is_armed

(* A board that has stayed on is on, and gets the long wait.               *)
OnSincePress == stayedOn => reg /\ handler # "set_power_on_wait"

(* gpio follows the button after the debouncing, and its fall is an event  *)
(* that is handled after the press.                                        *)
ReleaseFollows ==
  /\ gpio = button \/ debounce_vt # Unarmed
  /\ "pressed" \in events \/ handler = "pressed" =>
       gpio \/ "released" \in events
  /\ pb_is_armed /\ ~gpio => letGo
  /\ pb_is_armed /\ letGo => "released" \in events \/ handler = "released"

PbInv ==
  /\ PbTypeOK
  /\ HeldLong
  /\ ActedIsOver
  /\ OnSincePress
  /\ ReleaseFollows

(* The steps of power.c leave the button alone.  When they switch the board*)
(* off, the wait that the press has to make up is the short one.           *)
LEMMA WatchingKeeps ==
  ASSUME PbInv, ButtonWatches
  PROVE  PbInv'
<1>1. UNCHANGED <<button, gpio, debounce_vt, events, handler, pb_is_armed,
                  release_vt, sincePress, acted, letGo>>
  BY DEF ButtonWatches
<1>2. stayedOn' = (stayedOn /\ reg')
  BY DEF ButtonWatches
<1>3. PbTypeOK'
  BY <1>1, <1>2 DEF PbInv, PbTypeOK
<1>4. HeldLong'
  <2> SUFFICES ASSUME pb_is_armed, handler \notin Arming
               PROVE  release_vt # Unarmed /\ sincePress + release_vt >= Wait'
    BY <1>1 DEF HeldLong
  <2>1. release_vt # Unarmed /\ sincePress + release_vt >= Wait
    BY DEF PbInv, HeldLong
  <2>2. sincePress + release_vt \in Int
    BY <2>1, WaitsAssumption DEF PbInv, PbTypeOK, Timer, Unarmed
  <2>3. Wait \in Int /\ Wait' \in Int /\ Wait' <= Wait
    <3>1. stayedOn' => stayedOn
      BY <1>2
    <3>2. /\ PowerOnWait \in Int /\ PowerOffWait \in Int
          /\ PowerOnWait < PowerOffWait
      BY WaitsAssumption
    <3> QED
      BY <3>1, <3>2 DEF Wait
  <2> QED
    BY <2>1, <2>2, <2>3
<1>5. ActedIsOver' /\ OnSincePress' /\ ReleaseFollows'
  BY <1>1, <1>2 DEF PbInv, ActedIsOver, OnSincePress, ReleaseFollows
<1> QED
  BY <1>3, <1>4, <1>5 DEF PbInv

(* The times are representable by the timers.                              *)
LEMMA WaitsAreTimers ==
  /\ Debounce \in Timer(Debounce) /\ Unarmed \in Timer(Debounce)
  /\ PowerOnWait \in Timer(PowerOffWait)
  /\ PowerOffWait \in Timer(PowerOffWait)
  /\ Unarmed \in Timer(PowerOffWait)
BY WaitsAssumption DEF Timer, Unarmed

(* The initial states.                                                     *)
LEMMA PbInitially == PbInit => PbInv
<1> SUFFICES ASSUME PbInit PROVE PbInv
  OBVIOUS
<1>1. sincePress \in 0 .. PowerOffWait
  BY WaitsAssumption DEF PbInit
<1> QED
  BY <1>1, WaitsAreTimers
  DEF PbInit, PbInv, PbTypeOK, HeldLong, ActedIsOver, OnSincePress,
      ReleaseFollows, Handlers

(* An edge of the pin starts the debouncing.                               *)
LEMMA EdgeKeeps ==
  ASSUME PbInv, Edge
  PROVE  PbInv'
<1>1. /\ UNCHANGED <<vars, gpio, events, handler, pb_is_armed, release_vt,
                     history>>
      /\ button' = ~button
      /\ debounce_vt' = Debounce
  BY DEF Edge
<1>2. debounce_vt' # Unarmed /\ debounce_vt' \in Timer(Debounce)
  BY <1>1, WaitsAreTimers, WaitsAssumption DEF Unarmed
<1>3. PbTypeOK'
  BY <1>1, <1>2 DEF PbInv, PbTypeOK, history
<1>4. HeldLong' /\ ActedIsOver' /\ OnSincePress' /\ ReleaseFollows'
  BY <1>1, <1>2
  DEF PbInv, HeldLong, Wait, ActedIsOver, OnSincePress, ReleaseFollows, vars,
      history
<1> QED
  BY <1>3, <1>4 DEF PbInv

(* The end of the debouncing: a fall of gpio is an event.                  *)
LEMMA DebouncedKeeps ==
  ASSUME PbInv, FireDebounce
  PROVE  PbInv'
<1>1. /\ UNCHANGED <<vars, button, handler, pb_is_armed, release_vt,
                     sincePress, acted, stayedOn>>
      /\ debounce_vt' = Unarmed
      /\ gpio' = button
      /\ events' = IF gpio = button THEN events
                   ELSE events \union {IF button THEN "pressed"
                                                 ELSE "released"}
      /\ letGo' = (letGo \/ ~button)
  BY DEF FireDebounce
<1>2. button \in BOOLEAN /\ gpio \in BOOLEAN
  BY DEF PbInv, PbTypeOK
<1>3. events \subseteq events' /\ events' \subseteq {"pressed", "released"}
  BY <1>1 DEF PbInv, PbTypeOK
<1>4. gpio /\ ~button => "released" \in events'
  BY <1>1
<1>5. "pressed" \in events' => "pressed" \in events \/ button
  BY <1>1
<1>6. PbTypeOK'
  BY <1>1, <1>2, <1>3, WaitsAreTimers DEF PbInv, PbTypeOK
<1>7. HeldLong' /\ ActedIsOver' /\ OnSincePress'
  BY <1>1 DEF PbInv, HeldLong, Wait, ActedIsOver, OnSincePress, vars
<1>8. ReleaseFollows'
  BY <1>1, <1>2, <1>3, <1>4, <1>5 DEF PbInv, ReleaseFollows
<1> QED
  BY <1>6, <1>7, <1>8 DEF PbInv

(* A timer that starts with a wait makes up for it, whatever has passed.   *)
LEMMA WaitIsCovered ==
  ASSUME NEW passed \in Nat, NEW left \in Nat, NEW wait \in Nat, left >= wait
  PROVE  passed + left >= wait
OBVIOUS

(* The main thread takes the press first.                                  *)
LEMMA TakeEventKeeps ==
  ASSUME PbInv, TakeEvent
  PROVE  PbInv'
<1>1. /\ UNCHANGED <<vars, button, gpio, debounce_vt, pb_is_armed, release_vt,
                     history>>
      /\ handler = "wait"
      /\ handler' \in {"pressed", "released"}
      /\ handler' \in events /\ events' = events \ {handler'}
      /\ "pressed" \in events => handler' = "pressed"
  BY DEF TakeEvent, PbInv, PbTypeOK
<1>2. PbTypeOK'
  BY <1>1 DEF PbInv, PbTypeOK, Handlers, history
<1>3. HeldLong' /\ ActedIsOver' /\ OnSincePress'
  BY <1>1
  DEF PbInv, HeldLong, Wait, Arming, ActedIsOver, OnSincePress, vars, history
<1>4. ReleaseFollows'
  BY <1>1 DEF PbInv, ReleaseFollows, history
<1> QED
  BY <1>2, <1>3, <1>4 DEF PbInv

(* The handler of the press: the history starts anew.                      *)
LEMMA ArmButtonKeeps ==
  ASSUME PbInv, reg \in BOOLEAN, ArmButton
  PROVE  PbInv'
<1>1. /\ UNCHANGED <<vars, button, gpio, debounce_vt, events, release_vt>>
      /\ handler = "pressed" /\ handler' = "test_power"
      /\ pb_is_armed' = TRUE
      /\ sincePress' = 0 /\ acted' = FALSE
      /\ letGo' = ~gpio /\ stayedOn' = reg
  BY DEF ArmButton
<1>2. sincePress' \in 0 .. PowerOffWait
  BY <1>1, WaitsAssumption
<1>3. PbTypeOK'
  BY <1>1, <1>2 DEF PbInv, PbTypeOK, Handlers
<1>4. HeldLong' /\ ActedIsOver' /\ OnSincePress' /\ ReleaseFollows'
  BY <1>1
  DEF PbInv, PbTypeOK, HeldLong, Arming, ActedIsOver, OnSincePress,
      ReleaseFollows, vars
<1> QED
  BY <1>3, <1>4 DEF PbInv

(* The choice of the wait.                                                 *)
LEMMA TestPowerKeeps ==
  ASSUME PbInv, TestPower
  PROVE  PbInv'
<1>1. /\ UNCHANGED <<vars, button, gpio, debounce_vt, events, pb_is_armed,
                     release_vt, history>>
      /\ handler = "test_power"
      /\ handler' = IF reg THEN "set_power_off_wait"
                           ELSE "set_power_on_wait"
  BY DEF TestPower
<1>2. PbTypeOK'
  BY <1>1 DEF PbInv, PbTypeOK, Handlers, history
<1>3. HeldLong' /\ ActedIsOver' /\ OnSincePress' /\ ReleaseFollows'
  BY <1>1
  DEF PbInv, HeldLong, Arming, ActedIsOver, OnSincePress, ReleaseFollows,
      vars, history
<1> QED
  BY <1>2, <1>3 DEF PbInv

(* The timer is started with the wait of this press.                       *)
LEMMA SetReleaseTimerKeeps ==
  ASSUME PbInv, SetReleaseTimer
  PROVE  PbInv'
<1>1. /\ UNCHANGED <<vars, button, gpio, debounce_vt, events, pb_is_armed,
                     history>>
      /\ handler' = "wait"
      /\ handler \in {"set_power_on_wait", "set_power_off_wait"}
      /\ \/ handler = "set_power_on_wait" /\ release_vt' = PowerOnWait
         \/ handler = "set_power_off_wait" /\ release_vt' = PowerOffWait
  BY DEF SetReleaseTimer
<1>2. release_vt' \in Nat /\ release_vt' >= Wait'
  <2>1. CASE release_vt' = PowerOffWait
    BY <1>1, <2>1, WaitsAssumption DEF Wait, history
  <2>2. CASE handler = "set_power_on_wait" /\ release_vt' = PowerOnWait
    <3>1. ~stayedOn'
      BY <1>1, <2>2 DEF PbInv, OnSincePress, history
    <3> QED
      BY <2>2, <3>1, WaitsAssumption DEF Wait
  <2> QED
    BY <1>1, <2>1, <2>2
<1>3. release_vt' # Unarmed
  BY <1>2 DEF Unarmed
<1>4. sincePress' + release_vt' >= Wait'
  <2>1. sincePress' \in Nat
    BY <1>1, WaitsAssumption DEF PbInv, PbTypeOK, history
  <2>2. Wait' \in Nat
    BY WaitsAssumption DEF Wait
  <2> QED
    BY <1>2, <2>1, <2>2, WaitIsCovered
<1>5. PbTypeOK'
  <2>1. release_vt' \in Timer(PowerOffWait)
    BY <1>1, WaitsAreTimers
  <2> QED
    BY <1>1, <2>1 DEF PbInv, PbTypeOK, Handlers, history
<1>6. HeldLong'
  BY <1>3, <1>4 DEF HeldLong
<1>7. ActedIsOver' /\ OnSincePress' /\ ReleaseFollows'
  BY <1>1 DEF PbInv, ActedIsOver, OnSincePress, ReleaseFollows, vars, history
<1> QED
  BY <1>5, <1>6, <1>7 DEF PbInv

(* The handler of the release.                                             *)
LEMMA DisarmButtonKeeps ==
  ASSUME PbInv, DisarmButton
  PROVE  PbInv'
<1>1. /\ UNCHANGED <<vars, button, gpio, debounce_vt, events, release_vt,
                     history>>
      /\ handler = "released" /\ handler' = "wait"
      /\ pb_is_armed' = FALSE
  BY DEF DisarmButton
<1> QED
  BY <1>1
  DEF PbInv, PbTypeOK, Handlers, HeldLong, ActedIsOver, OnSincePress,
      ReleaseFollows, vars, history

(* The timer disarms the button, whether it acts or not.                   *)
LEMMA ReleaseKeeps ==
  ASSUME PbInv, FireRelease
  PROVE  PbInv'
<1>1. /\ pb_is_armed' = FALSE
      /\ release_vt' = Unarmed
      /\ acted' = (acted \/ pb_is_armed)
      /\ UNCHANGED <<button, gpio, debounce_vt, events, handler, sincePress,
                     letGo, stayedOn>>
  BY DEF FireRelease
<1>2. reg' = reg
  BY DEF FireRelease, vars
<1> QED
  BY <1>1, <1>2, WaitsAreTimers
  DEF PbInv, PbTypeOK, HeldLong, ActedIsOver, OnSincePress, ReleaseFollows

(* A tick gives to the time since the press what it takes from the timer.  *)
LEMMA PbTickKeeps ==
  ASSUME PbInv, PbTick
  PROVE  PbInv'
<1>1. /\ debounce_vt # 0 /\ release_vt # 0
      /\ UNCHANGED <<button, gpio, events, handler, pb_is_armed, acted, letGo,
                     stayedOn>>
      /\ debounce_vt' = Countdown(debounce_vt)
      /\ release_vt' = Countdown(release_vt)
      /\ sincePress' = IF sincePress = PowerOffWait THEN sincePress
                                                    ELSE sincePress + 1
      /\ reg' = reg
  BY DEF PbTick, PbDue, Tick
<1>2. /\ debounce_vt' \in Timer(Debounce)
      /\ release_vt' \in Timer(PowerOffWait)
      /\ debounce_vt # Unarmed => debounce_vt' # Unarmed
      /\ release_vt # Unarmed => release_vt' # Unarmed
  BY <1>1, CountdownTimer, WaitsAssumption DEF PbInv, PbTypeOK
<1>3. sincePress' \in 0 .. PowerOffWait
  BY <1>1, WaitsAssumption DEF PbInv, PbTypeOK
<1>4. HeldLong'
  <2> SUFFICES ASSUME pb_is_armed, handler \notin Arming
               PROVE  /\ release_vt' # Unarmed
                      /\ sincePress' + release_vt' >= Wait'
    BY <1>1 DEF HeldLong
  <2>1. /\ release_vt # Unarmed
        /\ sincePress + release_vt >= Wait
    BY DEF PbInv, HeldLong
  <2>2. /\ release_vt' = release_vt - 1
        /\ release_vt \in Int /\ release_vt >= 1
    BY <1>1, <2>1, WaitsAssumption
    DEF Countdown, PbInv, PbTypeOK, Timer, Unarmed
  <2>3. sincePress \in Int /\ PowerOffWait \in Int
        /\ Wait' = Wait /\ Wait \in Int /\ Wait <= PowerOffWait
    BY <1>1, WaitsAssumption DEF PbInv, PbTypeOK, Wait
  <2> QED
    BY <1>1, <1>2, <2>1, <2>2, <2>3
<1>5. PbTypeOK'
  BY <1>1, <1>2, <1>3 DEF PbInv, PbTypeOK
<1>6. ActedIsOver' /\ OnSincePress' /\ ReleaseFollows'
  BY <1>1, <1>2 DEF PbInv, ActedIsOver, OnSincePress, ReleaseFollows
<1> QED
  BY <1>4, <1>5, <1>6 DEF PbInv

(* A reset forgets the press.                                              *)
LEMMA PbResetKeeps ==
  ASSUME PbInv, PbReset
  PROVE  PbInv'
<1>1. sincePress' \in 0 .. PowerOffWait
  BY WaitsAssumption DEF PbReset
<1>2. PbTypeOK'
  BY <1>1, WaitsAreTimers DEF PbReset, PbInv, PbTypeOK, Handlers
<1>3. HeldLong' /\ ActedIsOver' /\ OnSincePress' /\ ReleaseFollows'
  BY DEF PbReset, HeldLong, ActedIsOver, OnSincePress, ReleaseFollows
<1> QED
  BY <1>2, <1>3 DEF PbInv

(* The invariant is inductive.  All it needs of power.c is that the        *)
(* register holds a power state.                                           *)
LEMMA PbInductive == BootInv /\ PbInv /\ [PbNext]_pbAll => PbInv'
<1> SUFFICES ASSUME BootInv, PbInv, [PbNext]_pbAll PROVE PbInv'
  OBVIOUS
<1>1. CASE UNCHANGED pbAll
  BY <1>1
  DEF PbInv, PbTypeOK, HeldLong, Wait, ActedIsOver, OnSincePress,
      ReleaseFollows, pbAll, pbVars, vars, history
<1>2. CASE BootOfPower \/ InterruptsOfPower
  BY <1>2, WatchingKeeps DEF BootOfPower, InterruptsOfPower
<1>3. CASE MainThread
  <2>1. reg \in BOOLEAN
    BY DEF BootInv, TypeOK
  <2> QED
    BY <1>3, <2>1, TakeEventKeeps, ArmButtonKeeps, TestPowerKeeps,
       SetReleaseTimerKeeps, DisarmButtonKeeps
    DEF MainThread
<1> QED
  BY <1>1, <1>2, <1>3, EdgeKeeps, DebouncedKeeps, ReleaseKeeps, PbTickKeeps,
     PbResetKeeps
  DEF PbNext

(* It holds of every behaviour.                                            *)
LEMMA PbInvariant == PbSpec => []PbInv
<1>1. PbInit => BootInv /\ PbInv
  BY InitTypes, PbInitially DEF PbInit, BootInv, ArmedIsBooted
<1> QED
  BY <1>1, ArmedIsBootedKept, PbInductive, PTL DEF PbSpec

-----------------------------------------------------------------------------
(* The variables of senoko-events.c and main.c keep their types, for all   *)
(* waits and numbers of resets.                                            *)
THEOREM PbTypeCorrect == PbSpec => []PbTypeOK
<1>1. PbInv => PbTypeOK
  BY DEF PbInv
<1> QED
  BY <1>1, PbInvariant, PTL

(* A press that is armed has its timer, or a handler about to start it,    *)
(* for all waits and numbers of resets.                                    *)
THEOREM ArmedIsAlwaysTimed == PbSpec => []ArmedIsTimed
<1>1. PbInv => ArmedIsTimed
  BY DEF PbInv, HeldLong, ArmedIsTimed
<1> QED
  BY <1>1, PbInvariant, PTL

(* No press acts twice, for all waits and numbers of resets.               *)
THEOREM OneActPerPress == PbSpec => ActsOncePerPress
<1>1. PbInv => [Acts => ~acted]_pbAll
  BY DEF PbInv, ActedIsOver, Acts
<1> QED
  BY <1>1, PbInvariant, PTL DEF ActsOncePerPress

(* A button that acts is held down, and has been since its press was       *)
(* handled, unless its release is still under way; and the wait of that    *)
(* press is over, the long one for a board that stayed on, if the handler  *)
(* is done.  For all waits and numbers of resets.                          *)
THEOREM HeldBeforeItActs == PbSpec => HeldButtonActs
<1>1. ASSUME PbInv, Acts
      PROVE  (button /\ ~letGo) \/ ReleaseUnderWay
  <2>1. pb_is_armed
    BY <1>1 DEF Acts
  <2>2. button \in BOOLEAN /\ gpio \in BOOLEAN
    BY <1>1 DEF PbInv, PbTypeOK
  <2> QED
    BY <1>1, <2>1, <2>2 DEF PbInv, ReleaseFollows, ReleaseUnderWay
<1>2. ASSUME PbInv, Acts, handler \notin Arming
      PROVE  sincePress >= Wait
  <2>1. pb_is_armed /\ release_vt = 0
    BY <1>2 DEF Acts
  <2>2. sincePress + 0 >= Wait /\ sincePress \in Int
    BY <1>2, <2>1, WaitsAssumption DEF PbInv, PbTypeOK, HeldLong
  <2> QED
    BY <2>2
<1>3. PbInv => [Acts => /\ (button /\ ~letGo) \/ ReleaseUnderWay
                        /\ handler \notin Arming => sincePress >= Wait]_pbAll
  BY <1>1, <1>2
<1> QED
  BY <1>3, PbInvariant, PTL DEF HeldButtonActs

-----------------------------------------------------------------------------
(* The timers of the button are virtual timers of the kernel, too.         *)
DebounceTimer == INSTANCE VirtualTimers WITH
  Timers <- {"debounce_vt"},
  Forever <- Debounce,
  left <- [t \in {"debounce_vt"} |-> debounce_vt]

ReleaseTimer == INSTANCE VirtualTimers WITH
  Timers <- {"release_vt"},
  Forever <- PowerOffWait,
  left <- [t \in {"release_vt"} |-> release_vt]

(* No step does anything else to them than set or reset them, or wait for  *)
(* the tick.                                                               *)
LEMMA ButtonTimersMove ==
  ASSUME [PbNext]_pbAll
  PROVE  /\ TimerMoves(debounce_vt, debounce_vt', Debounce)
         /\ \/ TimerMoves(release_vt, release_vt', PowerOffWait)
            \/ release_vt' = PowerOnWait
<1>1. CASE UNCHANGED pbAll \/ BootOfPower \/ InterruptsOfPower
  BY <1>1
  DEF pbAll, pbVars, BootOfPower, InterruptsOfPower, ButtonWatches, TimerMoves
<1>2. CASE Edge \/ FireDebounce \/ FireRelease \/ PbReset
  BY <1>2 DEF Edge, FireDebounce, FireRelease, PbReset, TimerMoves
<1>3. CASE MainThread
  BY <1>3
  DEF MainThread, TakeEvent, ArmButton, TestPower, SetReleaseTimer,
      DisarmButton, TimerMoves
<1>4. CASE PbTick
  BY <1>4 DEF PbTick, PbDue, TimerMoves
<1> QED
  BY <1>1, <1>2, <1>3, <1>4 DEF PbNext

(* Each timer of the button is one the kernel can keep: it is set to a     *)
(* delay that it can count, no tick passes it by when it is due, and it is *)
(* never counted below zero, for all waits and numbers of resets.          *)
THEOREM ButtonTimersAreVirtualTimers ==
  PbSpec => DebounceTimer!Spec /\ ReleaseTimer!Spec
<1> USE DEF TimerMoves, Countdown, Unarmed
<1>1. PbInit => DebounceTimer!Init /\ ReleaseTimer!Init
  BY DEF PbInit, DebounceTimer!Init, ReleaseTimer!Init,
         DebounceTimer!Unarmed, ReleaseTimer!Unarmed
<1>2. ASSUME [PbNext]_pbAll
      PROVE  [DebounceTimer!Next]_([t \in {"debounce_vt"} |-> debounce_vt])
  <2>1. TimerMoves(debounce_vt, debounce_vt', Debounce)
    BY <1>2, ButtonTimersMove
  <2>2. CASE debounce_vt' = Debounce
    <3>1. Debounce \in 1 .. Debounce
      BY WaitsAssumption
    <3>2. DebounceTimer!Set("debounce_vt", Debounce)
      BY <2>2 DEF DebounceTimer!Set
    <3> QED
      BY <3>1, <3>2 DEF DebounceTimer!Next
  <2>3. CASE debounce_vt' = Unarmed
    <3>1. DebounceTimer!Disarm("debounce_vt")
      BY <2>3 DEF DebounceTimer!Disarm, DebounceTimer!Unarmed
    <3> QED
      BY <3>1 DEF DebounceTimer!Next
  <2>4. CASE debounce_vt # 0 /\ debounce_vt' = Countdown(debounce_vt)
    <3>1. DebounceTimer!Tick
      BY <2>4 DEF DebounceTimer!Tick, DebounceTimer!Unarmed
    <3> QED
      BY <3>1 DEF DebounceTimer!Next
  <2> QED
    BY <2>1, <2>2, <2>3, <2>4
<1>3. ASSUME [PbNext]_pbAll
      PROVE  [ReleaseTimer!Next]_([t \in {"release_vt"} |-> release_vt])
  <2>1. \/ TimerMoves(release_vt, release_vt', PowerOffWait)
        \/ release_vt' = PowerOnWait
    BY <1>3, ButtonTimersMove
  <2>2. ASSUME NEW delay \in {PowerOnWait, PowerOffWait},
               release_vt' = delay
        PROVE  ReleaseTimer!Next
    <3>1. delay \in 1 .. PowerOffWait
      <4>1. PowerOnWait \in 1 .. PowerOffWait
        BY WaitsAssumption
      <4>2. PowerOffWait \in 1 .. PowerOffWait
        BY WaitsAssumption
      <4> QED
        BY <4>1, <4>2
    <3>2. ReleaseTimer!Set("release_vt", delay)
      BY <2>2 DEF ReleaseTimer!Set
    <3> QED
      BY <3>1, <3>2 DEF ReleaseTimer!Next
  <2>3. CASE release_vt' = Unarmed
    <3>1. ReleaseTimer!Disarm("release_vt")
      BY <2>3 DEF ReleaseTimer!Disarm, ReleaseTimer!Unarmed
    <3> QED
      BY <3>1 DEF ReleaseTimer!Next
  <2>4. CASE release_vt # 0 /\ release_vt' = Countdown(release_vt)
    <3>1. ReleaseTimer!Tick
      BY <2>4 DEF ReleaseTimer!Tick, ReleaseTimer!Unarmed
    <3> QED
      BY <3>1 DEF ReleaseTimer!Next
  <2> QED
    BY <2>1, <2>2, <2>3, <2>4
<1> QED
  BY <1>1, <1>2, <1>3, PTL
  DEF PbSpec, DebounceTimer!Spec, ReleaseTimer!Spec

=============================================================================
