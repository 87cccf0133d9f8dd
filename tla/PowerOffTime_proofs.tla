------------------------ MODULE PowerOffTime_proofs ------------------------
(***************************************************************************)
(* Proofs about PowerOffTime, for every cool-off and reboot delay, every   *)
(* set of callers and every number of resets: an undisturbed power-off     *)
(* keeps the board off for the promised times, and its reboot is pending   *)
(* only while the board is off.                                            *)
(*                                                                         *)
(* Both follow from what holds while a power-off is undisturbed, Calm.     *)
(* Whoever is in the rest of a power-off is the only one to move, so the   *)
(* flag is set and the timer is started before anybody else looks; from    *)
(* then on the timer has at least the missing time left, and whoever is    *)
(* beyond the test of the flag passed it after the time was over.          *)
(***************************************************************************)
EXTENDS PowerOffTime, Power_proofs

-----------------------------------------------------------------------------
NobodyOver == \A c \in Ctx : pc[c] \notin CoolOffIsOver

(* In the rest of a power-off the pin is low, then the flag is set, then   *)
(* the timer has started and nobody is about to end this cool-off.         *)
Tail ==
  \A c \in Ctx : pc[c] \in OffTail =>
    /\ ~pin
    /\ pc[c] # "start_cooling" => cooling_off
    /\ pc[c] \in {"disable_wdt", "arm_power_on"} =>
         cool_off_vt = CoolOff /\ NobodyOver

(* A reboot that is pending ends before the cool-off does.                 *)
Pending ==
  power_on_vt # Unarmed =>
    ~pin /\ cooling_off /\ power_on_vt < cool_off_vt /\ NobodyOver

BeforeArm == \E c \in Ctx : pc[c] \in {"start_cooling", "arm_cool_off"}

(* What has passed and what the timers have left make up the delays.       *)
Duration ==
  ~pin =>
    /\ power_on_vt # Unarmed => offFor + power_on_vt >= RebootQuiesce
    /\ pc["vt"] = "call_power_on" => offFor >= RebootQuiesce
    /\ \A c \in Ctx : pc[c] \in CoolOffIsOver \ {"call_power_on"} =>
         offFor >= CoolOff
    /\ ~cooling_off => offFor >= CoolOff \/ BeforeArm
    /\ cool_off_vt # Unarmed => offFor + cool_off_vt >= CoolOff \/ BeforeArm

Calm == Booted /\ pin = reg /\ Tail /\ Pending /\ Duration

OffInv ==
  /\ TypeOK
  /\ offFor \in 0 .. CoolOff
  /\ undisturbed \in BOOLEAN
  /\ undisturbed => Calm

-----------------------------------------------------------------------------
(* Who may move.                                                           *)

(* If the power-off stays undisturbed, nobody but the context that moves   *)
(* is in the rest of one; when it begins, nobody else is in power.c.       *)
LEMMA OthersWait ==
  ASSUME OffInv, Disturbance, undisturbed', NEW c \in Ctx, NEW label,
         Goto(c, label)
  PROVE  /\ pc'[c] = label
         /\ \A d \in Ctx \ {c} : pc'[d] = pc[d] /\ pc[d] \notin OffTail
         /\ SwitchesOff => \A d \in Ctx \ {c} : pc[d] = "idle"
<1>1. /\ pc'[c] = label
      /\ \A d \in Ctx \ {c} : pc'[d] = pc[d]
  BY GotoMoves DEF OffInv, TypeOK
<1>2. CASE SwitchesOff
  BY <1>1, <1>2 DEF Disturbance, BeginsUndisturbed, Moves, OffTail
<1>3. CASE ~SwitchesOff
  BY <1>1, <1>3 DEF Disturbance, Undivided, Moves
<1> QED
  BY <1>1, <1>2, <1>3

(* If no context moves, nobody is in the rest of a power-off.              *)
LEMMA AllWait ==
  ASSUME OffInv, Disturbance, undisturbed', pc' = pc
  PROVE  /\ \A d \in Ctx : pc[d] \notin OffTail
         /\ SwitchesOff => \A d \in Ctx : pc[d] = "idle"
<1>1. CASE SwitchesOff
  BY <1>1 DEF Disturbance, BeginsUndisturbed, Moves, OffTail
<1>2. CASE ~SwitchesOff
  BY <1>2 DEF Disturbance, Undivided, Moves
<1> QED
  BY <1>1, <1>2

(* What a step that does not switch off inherits.                          *)
LEMMA StaysCalm ==
  ASSUME OffInv, Disturbance, undisturbed', ~SwitchesOff
  PROVE  Calm /\ ~Overtakes /\ resets' = resets
BY DEF Disturbance, OffInv

(* Steps that move one context and touch neither pin nor timers.           *)
LEMMA MoveOnly ==
  ASSUME OffInv, Disturbance, undisturbed', NEW c \in Ctx, NEW label,
         Goto(c, label),
         UNCHANGED <<pin, reg, cooling_off, cool_off_vt, power_on_vt, offFor>>,
         c # "main" \/ pc[c] # "idle",
         pc[c] \notin {"start_cooling", "arm_cool_off"},
         label \in OffTail =>
           /\ ~pin
           /\ label # "start_cooling" => cooling_off
           /\ label \in {"disable_wdt", "arm_power_on"} =>
                cool_off_vt = CoolOff /\ NobodyOver,
         label # "call_power_on",
         Calm /\ label \in CoolOffIsOver =>
           power_on_vt = Unarmed /\ (~pin => offFor >= CoolOff)
  PROVE  Calm'
<1>1. /\ pc'[c] = label
      /\ \A d \in Ctx \ {c} : pc'[d] = pc[d] /\ pc[d] \notin OffTail
  BY OthersWait
<1>2. Calm
  BY StaysCalm DEF SwitchesOff
<1>3. "main" \in Ctx /\ "vt" \in Ctx
  BY AlwaysContexts
<1>4. c # "main"
  BY <1>2 DEF Calm, Booted
<1>5. Booted' /\ pin' = reg'
  BY <1>1, <1>2, <1>3, <1>4 DEF Calm, Booted
<1>6. NobodyOver /\ label \notin CoolOffIsOver => NobodyOver'
  BY <1>1 DEF NobodyOver
<1>7. Tail'
  <2> SUFFICES ASSUME NEW d \in Ctx, pc'[d] \in OffTail
               PROVE  /\ ~pin
                      /\ pc'[d] # "start_cooling" => cooling_off
                      /\ pc'[d] \in {"disable_wdt", "arm_power_on"} =>
                           cool_off_vt = CoolOff /\ NobodyOver'
    BY DEF Tail
  <2>1. d = c
    BY <1>1
  <2>2. label \notin CoolOffIsOver
    BY <1>1, <2>1 DEF OffTail, CoolOffIsOver
  <2> QED
    BY <1>1, <1>6, <2>1, <2>2
<1>8. Pending'
  BY <1>2, <1>6 DEF Calm, Pending
<1>9. ~BeforeArm
  BY <1>1 DEF BeforeArm, OffTail
<1>10. Duration'
  BY <1>1, <1>2, <1>3, <1>9 DEF Calm, Duration
<1> QED
  BY <1>5, <1>7, <1>8, <1>10 DEF Calm

(* An undisturbed power-off has no part in a boot.                         *)
LEMMA BootedThen ==
  ASSUME OffInv, Disturbance, undisturbed'
  PROVE  Booted
BY DEF Disturbance, BeginsUndisturbed, OffInv, Calm

(* The main thread stays where it is, as it is no caller.                  *)
LEMMA StaysBooted ==
  ASSUME OffInv, Disturbance, undisturbed', NEW c \in Ctx, NEW label,
         Goto(c, label), c # "main" \/ pc[c] # "idle"
  PROVE  c # "main" /\ Booted'
<1>1. pc["main"] = "idle" /\ "main" \in Ctx
  BY BootedThen, AlwaysContexts DEF Booted
<1>2. c # "main"
  BY <1>1
<1> QED
  BY <1>1, <1>2, OthersWait DEF Booted

-----------------------------------------------------------------------------
(* One lemma for each action that switches the pin, sets the flag or       *)
(* touches a timer.                                                        *)

(* A thread switches the pin, and the power-off begins, or goes on.        *)
LEMMA SetOffCalm ==
  ASSUME OffInv, Disturbance, undisturbed', NEW c \in Ctx, SetOff(c),
         offFor' = IF SwitchesOff THEN 0 ELSE offFor
  PROVE  Calm'
<1>1. /\ pc'[c] = "start_cooling" /\ pc[c] = "set_off"
      /\ \A d \in Ctx \ {c} : pc'[d] = pc[d] /\ pc[d] \notin OffTail
      /\ SwitchesOff => \A d \in Ctx \ {c} : pc[d] = "idle"
      /\ "vt" \in Ctx
  BY OthersWait, AlwaysContexts DEF SetOff, At
<1>2. Booted'
  BY <1>1, StaysBooted DEF SetOff
<1>3. /\ pin' = FALSE /\ reg' = FALSE
      /\ UNCHANGED <<cooling_off, cool_off_vt, power_on_vt>>
  BY DEF SetOff, PowerSetState
<1>4. Tail'
  <2> SUFFICES ASSUME NEW d \in Ctx, pc'[d] \in OffTail
               PROVE  d = c
    BY <1>1, <1>3 DEF Tail
  <2> QED
    BY <1>1
<1>5. BeforeArm'
  BY <1>1 DEF BeforeArm
<1>6. CASE SwitchesOff
  <2>1. power_on_vt = Unarmed
    BY <1>6 DEF Disturbance, BeginsUndisturbed
  <2>2. \A d \in Ctx : pc'[d] \notin CoolOffIsOver
    BY <1>1, <1>6 DEF CoolOffIsOver
  <2> QED
    BY <1>1, <1>2, <1>3, <1>4, <1>5, <2>1, <2>2
    DEF Calm, Pending, Duration, CoolOffIsOver
<1>7. CASE ~SwitchesOff
  <2>1. Calm /\ ~pin
    BY <1>3, <1>7, StaysCalm DEF SwitchesOff, OffInv, TypeOK
  <2>2. \A d \in Ctx : pc'[d] \in CoolOffIsOver => pc[d] = pc'[d]
    BY <1>1 DEF CoolOffIsOver
  <2>3. Pending'
    BY <1>3, <2>1, <2>2 DEF Calm, Pending, NobodyOver
  <2>4. offFor' = offFor
    BY <1>7
  <2>5. Duration'
    BY <1>1, <1>3, <1>5, <2>1, <2>2, <2>4
    DEF Calm, Duration, CoolOffIsOver
  <2> QED
    BY <1>2, <1>3, <1>4, <2>3, <2>5 DEF Calm
<1> QED
  BY <1>6, <1>7

(* It sets the flag, while nobody else moves, ...                          *)
LEMMA StartCoolingCalm ==
  ASSUME OffInv, Disturbance, undisturbed', NEW c \in Ctx, StartCooling(c),
         offFor' = offFor
  PROVE  Calm'
<1>1. /\ pc'[c] = "arm_cool_off" /\ pc[c] = "start_cooling"
      /\ \A d \in Ctx \ {c} : pc'[d] = pc[d] /\ pc[d] \notin OffTail
      /\ "vt" \in Ctx
  BY OthersWait, AlwaysContexts DEF StartCooling, At
<1>2. Booted'
  BY <1>1, StaysBooted DEF StartCooling
<1>3. cooling_off' /\ UNCHANGED <<pin, reg, cool_off_vt, power_on_vt>>
  BY DEF StartCooling
<1>4. Calm
  BY <1>3, StaysCalm DEF SwitchesOff
<1>5. ~pin
  BY <1>1, <1>4 DEF Calm, Tail, OffTail
<1>6. Tail'
  <2> SUFFICES ASSUME NEW d \in Ctx, pc'[d] \in OffTail
               PROVE  d = c
    BY <1>1, <1>3, <1>5 DEF Tail
  <2> QED
    BY <1>1
<1>7. \A d \in Ctx : pc'[d] \in CoolOffIsOver => pc[d] = pc'[d]
  BY <1>1 DEF CoolOffIsOver
<1>8. Pending'
  BY <1>3, <1>4, <1>7 DEF Calm, Pending, NobodyOver
<1>9. BeforeArm'
  BY <1>1 DEF BeforeArm
<1>10. Duration'
  BY <1>1, <1>3, <1>4, <1>7, <1>9 DEF Calm, Duration, CoolOffIsOver
<1> QED
  BY <1>2, <1>3, <1>4, <1>6, <1>8, <1>10 DEF Calm

(* ... starts the timer, when nobody is beyond the test of the flag, ...   *)
LEMMA ArmCoolOffCalm ==
  ASSUME OffInv, Disturbance, undisturbed', NEW c \in Ctx, ArmCoolOff(c),
         offFor' = offFor
  PROVE  Calm'
<1>1. /\ pc'[c] = "disable_wdt" /\ pc[c] = "arm_cool_off"
      /\ \A d \in Ctx \ {c} : pc'[d] = pc[d] /\ pc[d] \notin OffTail
      /\ "vt" \in Ctx
  BY OthersWait, AlwaysContexts DEF ArmCoolOff, At
<1>2. Booted'
  BY <1>1, StaysBooted DEF ArmCoolOff
<1>3. cool_off_vt' = CoolOff /\ UNCHANGED <<pin, reg, cooling_off, power_on_vt>>
  BY DEF ArmCoolOff
<1>4. Calm /\ ~Overtakes
  BY <1>3, StaysCalm DEF SwitchesOff
<1>5. ~pin /\ cooling_off
  BY <1>1, <1>4 DEF Calm, Tail, OffTail
<1>6. NobodyOver'
  BY <1>1, <1>3, <1>4 DEF NobodyOver, Overtakes, Moves, CoolOffIsOver
<1>7. Tail'
  BY <1>3, <1>5, <1>6 DEF Tail
<1>8. Pending'
  BY <1>3, <1>5, <1>6, DelayAssumption
  DEF Pending, OffInv, TypeOK, Timer, Unarmed
<1>9. offFor + CoolOff >= CoolOff
  BY DelayAssumption DEF OffInv
<1>10. Duration'
  BY <1>1, <1>3, <1>4, <1>5, <1>6, <1>9
  DEF Calm, Duration, NobodyOver, CoolOffIsOver
<1> QED
  BY <1>2, <1>3, <1>4, <1>7, <1>8, <1>10 DEF Calm

(* ... and leaves a reboot pending, which ends before the cool-off does.   *)
LEMMA ArmPowerOnCalm ==
  ASSUME OffInv, Disturbance, undisturbed', NEW c \in Ctx, ArmPowerOn(c),
         offFor' = offFor
  PROVE  Calm'
<1>1. /\ pc'[c] = "idle" /\ pc[c] = "arm_power_on"
      /\ \A d \in Ctx \ {c} : pc'[d] = pc[d] /\ pc[d] \notin OffTail
      /\ "vt" \in Ctx
  BY OthersWait, AlwaysContexts DEF ArmPowerOn, At
<1>2. Booted'
  BY <1>1, StaysBooted DEF ArmPowerOn
<1>3. power_on_vt' = RebootQuiesce
      /\ UNCHANGED <<pin, reg, cooling_off, cool_off_vt>>
  BY DEF ArmPowerOn
<1>4. Calm
  BY <1>3, StaysCalm DEF SwitchesOff
<1>5. ~pin /\ cooling_off /\ cool_off_vt = CoolOff /\ NobodyOver
  BY <1>1, <1>4 DEF Calm, Tail, OffTail
<1>6. NobodyOver'
  BY <1>1, <1>5 DEF NobodyOver, CoolOffIsOver
<1>7. Tail'
  BY <1>1 DEF Tail, OffTail
<1>8. Pending'
  BY <1>3, <1>5, <1>6, DelayAssumption DEF Pending
<1>9. /\ offFor + RebootQuiesce >= RebootQuiesce
      /\ offFor + CoolOff >= CoolOff
  BY DelayAssumption DEF OffInv
<1>10. Duration'
  BY <1>1, <1>3, <1>5, <1>6, <1>9 DEF Duration, NobodyOver, CoolOffIsOver
<1> QED
  BY <1>2, <1>3, <1>4, <1>7, <1>8, <1>10 DEF Calm

(* Whoever powers the board on finds no reboot pending.                    *)
LEMMA SwitchOnCalm ==
  ASSUME OffInv, Disturbance, undisturbed', NEW c \in Ctx,
         Goto(c, "idle"), pc[c] \in {"set_on", "on_locked", "call_power_on"},
         pin', reg', UNCHANGED <<cooling_off, cool_off_vt, power_on_vt>>
  PROVE  Calm'
<1>1. /\ pc'[c] = "idle"
      /\ \A d \in Ctx \ {c} : pc'[d] = pc[d] /\ pc[d] \notin OffTail
  BY OthersWait
<1>2. Booted' /\ Calm
  BY StaysBooted, StaysCalm DEF SwitchesOff
<1>3. power_on_vt = Unarmed
  BY <1>2 DEF Calm, Pending, NobodyOver, CoolOffIsOver
<1>4. Tail'
  BY <1>1 DEF Tail, OffTail
<1>5. pin' = reg'
  BY <1>2, PowerSetStateTypes DEF Calm
<1> QED
  BY <1>2, <1>3, <1>4 DEF Calm, Pending, Duration

(* A power-off in one locked section, in the tick interrupt or in the      *)
(* interrupt of the host, which may leave a reboot pending.                *)
LEMMA LockedOffCalm ==
  ASSUME OffInv, Disturbance, undisturbed', Booted',
         PowerSetStateI(FALSE), cooling_off', cool_off_vt' = CoolOff,
         power_on_vt' = power_on_vt \/ power_on_vt' = RebootQuiesce,
         offFor' = IF SwitchesOff THEN 0 ELSE offFor,
         \A d \in Ctx : pc'[d] # pc[d] => pc'[d] = "disable_wdt",
         \A d \in Ctx : pc'[d] = pc[d] => pc[d] \notin OffTail,
         \A d \in Ctx : SwitchesOff /\ pc'[d] = pc[d] => pc[d] = "idle"
  PROVE  Calm'
<1>1. SwitchesOff => power_on_vt = Unarmed
  BY DEF Disturbance, BeginsUndisturbed
<1>2. ~SwitchesOff => Calm /\ ~Overtakes
  BY StaysCalm
<1>3. pin' = FALSE /\ reg' = FALSE
  <2>1. CASE reg # FALSE
    BY <2>1 DEF PowerSetStateI, PowerSetState
  <2>2. CASE reg = FALSE
    <3>1. UNCHANGED <<pin, reg>>
      BY <2>2 DEF PowerSetStateI
    <3> QED
      BY <1>2, <2>2, <3>1 DEF SwitchesOff, Calm
  <2> QED
    BY <2>1, <2>2
<1>4. NobodyOver'
  BY <1>2 DEF NobodyOver, Overtakes, Moves, CoolOffIsOver
<1>5. Tail'
  BY <1>3, <1>4 DEF Tail
<1>6. Pending'
  BY <1>1, <1>3, <1>4, DelayAssumption
  DEF Pending, OffInv, TypeOK, Timer, Unarmed
<1>7. offFor' \in Nat
  BY DelayAssumption DEF OffInv
<1>8. power_on_vt' # Unarmed => offFor' + power_on_vt' >= RebootQuiesce
  <2>1. CASE power_on_vt' = RebootQuiesce
    BY <1>7, <2>1, DelayAssumption
  <2>2. CASE power_on_vt' = power_on_vt /\ power_on_vt # Unarmed
    <3>1. ~SwitchesOff /\ ~pin /\ offFor' = offFor
      BY <1>1, <1>2, <2>2 DEF Calm, Pending
    <3> QED
      BY <1>2, <2>2, <3>1 DEF Calm, Duration
  <2> QED
    BY <2>1, <2>2
<1>9. Duration'
  BY <1>4, <1>7, <1>8, AlwaysContexts, DelayAssumption
  DEF Duration, NobodyOver, CoolOffIsOver
<1> QED
  BY <1>3, <1>5, <1>6, <1>9 DEF Calm

(* The button powers the board off.                                        *)
LEMMA OffLockedCalm ==
  ASSUME OffInv, Disturbance, undisturbed', OffLocked,
         offFor' = IF SwitchesOff THEN 0 ELSE offFor
  PROVE  Calm'
<1>1. "vt" \in Ctx /\ Goto("vt", "disable_wdt") /\ pc["vt"] = "off_locked"
  BY AlwaysContexts DEF OffLocked, At
<1>2. /\ pc'["vt"] = "disable_wdt"
      /\ \A d \in Ctx \ {"vt"} : pc'[d] = pc[d] /\ pc[d] \notin OffTail
      /\ SwitchesOff => \A d \in Ctx \ {"vt"} : pc[d] = "idle"
  BY <1>1, OthersWait
<1>3. Booted'
  BY <1>1, StaysBooted
<1> QED
  BY <1>1, <1>2, <1>3, LockedOffCalm DEF OffLocked

(* The host powers the board off, for good or for a reboot.                *)
LEMMA HostOffCalm ==
  ASSUME OffInv, Disturbance, undisturbed', HostOff \/ HostReboot,
         offFor' = IF SwitchesOff THEN 0 ELSE offFor
  PROVE  Calm'
<1>1. pc' = pc /\ PowerOffI
      /\ (power_on_vt' = power_on_vt \/ power_on_vt' = RebootQuiesce)
  BY DEF HostOff, HostReboot
<1>2. Booted'
  BY <1>1, BootedThen DEF Booted
<1>3. /\ \A d \in Ctx : pc[d] \notin OffTail
      /\ SwitchesOff => \A d \in Ctx : pc[d] = "idle"
  BY <1>1, AllWait
<1> QED
  BY <1>1, <1>2, <1>3, LockedOffCalm DEF PowerOffI

(* Commands of the host that leave the timers alone.                       *)
LEMMA HostOnCalm ==
  ASSUME OffInv, Disturbance, undisturbed', offFor' = offFor,
         NEW wdtBit \in BOOLEAN, HostOn(wdtBit) \/ HostReserved(wdtBit)
  PROVE  Calm'
<1>1. UNCHANGED <<cooling_off, cool_off_vt, power_on_vt, pc>>
  BY DEF HostOn, HostReserved
<1>2. CASE UNCHANGED <<pin, reg>>
  <2>1. Calm
    BY <1>2, StaysCalm DEF SwitchesOff
  <2> QED
    BY <1>1, <1>2, <2>1
    DEF Calm, Booted, Tail, Pending, Duration, NobodyOver, BeforeArm
<1>3. CASE ~UNCHANGED <<pin, reg>>
  <2>1. ~cooling_off /\ pin' = TRUE /\ reg' = TRUE
    BY <1>3 DEF HostOn, HostReserved, PowerSetStateI, PowerSetState
  <2>2. Calm
    BY <2>1, StaysCalm DEF SwitchesOff
  <2>3. power_on_vt = Unarmed
    BY <2>1, <2>2 DEF Calm, Pending
  <2>4. \A d \in Ctx : pc[d] \notin OffTail
    BY <1>1, AllWait
  <2> QED
    BY <1>1, <2>1, <2>2, <2>3, <2>4
    DEF Calm, Booted, Tail, Pending, Duration
<1> QED
  BY <1>2, <1>3

(* The tick interrupt calls stop_cool_off when the time is over, ...       *)
LEMMA FireCoolOffCalm ==
  ASSUME OffInv, Disturbance, undisturbed', FireCoolOff, offFor' = offFor
  PROVE  Calm'
<1>0. "vt" \in Ctx
  BY AlwaysContexts
<1>1. /\ pc'["vt"] = "stop_cool_off" /\ pc["vt"] = "idle"
      /\ \A d \in Ctx \ {"vt"} : pc'[d] = pc[d] /\ pc[d] \notin OffTail
  BY <1>0, OthersWait DEF FireCoolOff, At
<1>2. Booted'
  BY <1>0, StaysBooted DEF FireCoolOff
<1>3. /\ cool_off_vt = 0 /\ cool_off_vt' = Unarmed
      /\ UNCHANGED <<pin, reg, cooling_off, power_on_vt>>
  BY DEF FireCoolOff
<1>4. Calm
  BY <1>3, StaysCalm DEF SwitchesOff
<1>5. power_on_vt = Unarmed
  BY <1>3, <1>4 DEF Calm, Pending, OffInv, TypeOK, Timer, Unarmed
<1>6. ~BeforeArm
  BY <1>1 DEF BeforeArm, OffTail
<1>7. ~pin => offFor >= CoolOff
  BY <1>3, <1>4, <1>6, DelayAssumption DEF Calm, Duration, Unarmed, OffInv
<1>8. Tail'
  BY <1>1 DEF Tail, OffTail
<1>9. Pending' /\ Duration'
  BY <1>1, <1>3, <1>5, <1>7 DEF Pending, Duration
<1> QED
  BY <1>2, <1>3, <1>4, <1>8, <1>9 DEF Calm

(* ... which clears the flag, ...                                          *)
LEMMA StopCoolOffCalm ==
  ASSUME OffInv, Disturbance, undisturbed', StopCoolOff, offFor' = offFor
  PROVE  Calm'
<1>0. "vt" \in Ctx
  BY AlwaysContexts
<1>1. /\ pc'["vt"] = "idle" /\ pc["vt"] = "stop_cool_off"
      /\ \A d \in Ctx \ {"vt"} : pc'[d] = pc[d] /\ pc[d] \notin OffTail
  BY <1>0, OthersWait DEF StopCoolOff, At
<1>2. Booted'
  BY <1>0, StaysBooted DEF StopCoolOff
<1>3. UNCHANGED <<pin, reg, cool_off_vt, power_on_vt>>
  BY DEF StopCoolOff
<1>4. Calm
  BY <1>3, StaysCalm DEF SwitchesOff
<1>5. power_on_vt = Unarmed
  BY <1>0, <1>1, <1>4 DEF Calm, Pending, NobodyOver, CoolOffIsOver
<1>6. ~pin => offFor >= CoolOff
  BY <1>0, <1>1, <1>4 DEF Calm, Duration, CoolOffIsOver
<1>7. ~BeforeArm
  BY <1>1 DEF BeforeArm, OffTail
<1>8. Tail'
  BY <1>1 DEF Tail, OffTail
<1>9. Pending'
  BY <1>3, <1>5 DEF Pending
<1>10. Duration'
  BY <1>1, <1>3, <1>4, <1>5, <1>6, <1>7 DEF Calm, Duration
<1> QED
  BY <1>2, <1>3, <1>4, <1>8, <1>9, <1>10 DEF Calm

(* ... and call_power_on at the end of a reboot.                           *)
LEMMA FirePowerOnCalm ==
  ASSUME OffInv, Disturbance, undisturbed', FirePowerOn, offFor' = offFor
  PROVE  Calm'
<1>0. "vt" \in Ctx
  BY AlwaysContexts
<1>1. /\ pc'["vt"] = "call_power_on" /\ pc["vt"] = "idle"
      /\ \A d \in Ctx \ {"vt"} : pc'[d] = pc[d] /\ pc[d] \notin OffTail
  BY <1>0, OthersWait DEF FirePowerOn, At
<1>2. Booted'
  BY <1>0, StaysBooted DEF FirePowerOn
<1>3. /\ power_on_vt = 0 /\ power_on_vt' = Unarmed
      /\ UNCHANGED <<pin, reg, cooling_off, cool_off_vt>>
  BY DEF FirePowerOn
<1>4. Calm
  BY <1>3, StaysCalm DEF SwitchesOff
<1>5. ~pin => offFor >= RebootQuiesce
  BY <1>3, <1>4, DelayAssumption DEF Calm, Duration, Unarmed, OffInv
<1>6. ~BeforeArm
  BY <1>1 DEF BeforeArm, OffTail
<1>7. Tail'
  BY <1>1 DEF Tail, OffTail
<1>8. Pending'
  BY <1>3 DEF Pending
<1>9. Duration'
  BY <1>1, <1>3, <1>4, <1>5, <1>6 DEF Calm, Duration
<1> QED
  BY <1>2, <1>3, <1>4, <1>7, <1>8, <1>9 DEF Calm

(* Time adds to what has passed what it takes from the timers.             *)
LEMMA TickCalm ==
  ASSUME OffInv, Disturbance, undisturbed', Tick,
         offFor' = IF pin \/ offFor = CoolOff THEN offFor ELSE offFor + 1
  PROVE  Calm'
<1>1. /\ UNCHANGED <<pin, reg, cooling_off, pc>>
      /\ cool_off_vt # 0 /\ power_on_vt # 0
      /\ cool_off_vt' = Countdown(cool_off_vt)
      /\ power_on_vt' = Countdown(power_on_vt)
  BY DEF Tick, Due
<1>2. Calm
  BY <1>1, StaysCalm DEF SwitchesOff
<1>3. \A d \in Ctx : pc[d] \notin OffTail
  BY <1>1, AllWait
<1>4. ~BeforeArm
  BY <1>3 DEF BeforeArm, OffTail
<1>5. /\ cool_off_vt' \in Int /\ power_on_vt' \in Int
      /\ cool_off_vt' # Unarmed => cool_off_vt # Unarmed
                                   /\ cool_off_vt' = cool_off_vt - 1
      /\ power_on_vt' # Unarmed => power_on_vt # Unarmed
                                   /\ power_on_vt' = power_on_vt - 1
      /\ cool_off_vt # Unarmed => cool_off_vt' = cool_off_vt - 1
  BY <1>1, DelayAssumption
  DEF Countdown, OffInv, TypeOK, Timer, Unarmed
<1>6. Tail'
  BY <1>1, <1>3 DEF Tail
<1>7. Pending'
  <2> SUFFICES ASSUME power_on_vt' # Unarmed
               PROVE  /\ ~pin /\ cooling_off /\ NobodyOver
                      /\ power_on_vt' < cool_off_vt'
    BY <1>1 DEF Pending, NobodyOver
  <2>1. ~pin /\ cooling_off /\ NobodyOver /\ power_on_vt < cool_off_vt
        /\ power_on_vt' = power_on_vt - 1
    BY <1>2, <1>5 DEF Calm, Pending
  <2>2. /\ power_on_vt \in Int /\ cool_off_vt \in Int
        /\ cool_off_vt # Unarmed
    BY <1>5, <2>1, DelayAssumption DEF OffInv, TypeOK, Timer, Unarmed
  <2> QED
    BY <1>5, <2>1, <2>2
<1>8. Duration'
  <2> SUFFICES ASSUME ~pin PROVE Duration'
    BY <1>1 DEF Duration
  <2>1. /\ offFor \in Int /\ offFor' \in Int
        /\ offFor' = offFor + 1 \/ offFor' >= CoolOff
        /\ offFor' >= offFor
        /\ CoolOff \in Nat /\ RebootQuiesce \in Nat /\ RebootQuiesce < CoolOff
        /\ power_on_vt \in Int /\ cool_off_vt \in Int
    BY DelayAssumption DEF OffInv, TypeOK, Timer, Unarmed
  <2>2. power_on_vt' # Unarmed => offFor' + power_on_vt' >= RebootQuiesce
    <3> SUFFICES ASSUME power_on_vt' # Unarmed
                 PROVE  offFor' + power_on_vt' >= RebootQuiesce
      OBVIOUS
    <3>1. offFor + power_on_vt >= RebootQuiesce
          /\ power_on_vt' = power_on_vt - 1
      BY <1>2, <1>5 DEF Calm, Duration
    <3>2. power_on_vt' >= 0
      BY <1>1, <1>5, <3>1, DelayAssumption
      DEF OffInv, TypeOK, Timer, Unarmed
    <3> QED
      BY <2>1, <3>1, <3>2
  <2>3. cool_off_vt' # Unarmed => offFor' + cool_off_vt' >= CoolOff
    <3> SUFFICES ASSUME cool_off_vt' # Unarmed
                 PROVE  offFor' + cool_off_vt' >= CoolOff
      OBVIOUS
    <3>1. offFor + cool_off_vt >= CoolOff
          /\ cool_off_vt' = cool_off_vt - 1
      BY <1>2, <1>4, <1>5 DEF Calm, Duration
    <3>2. cool_off_vt' >= 0
      BY <1>1, <1>5, <3>1, DelayAssumption
      DEF OffInv, TypeOK, Timer, Unarmed
    <3> QED
      BY <2>1, <3>1, <3>2
  <2>4. /\ pc["vt"] = "call_power_on" => offFor' >= RebootQuiesce
        /\ \A c \in Ctx : pc[c] \in CoolOffIsOver \ {"call_power_on"} =>
             offFor' >= CoolOff
        /\ ~cooling_off => offFor' >= CoolOff
    <3>1. /\ pc["vt"] = "call_power_on" => offFor >= RebootQuiesce
          /\ \A c \in Ctx : pc[c] \in CoolOffIsOver \ {"call_power_on"} =>
               offFor >= CoolOff
          /\ ~cooling_off => offFor >= CoolOff
      BY <1>2, <1>4 DEF Calm, Duration
    <3> QED
      BY <2>1, <3>1
  <2> QED
    BY <1>1, <2>2, <2>3, <2>4 DEF Duration
<1> QED
  BY <1>1, <1>2, <1>6, <1>7, <1>8 DEF Calm, Booted

-----------------------------------------------------------------------------
(* Steps that only move a context.                                         *)

(* Tests, and what the watchdog is told, touch neither pin nor timers.     *)
LEMMA TestsCalm ==
  ASSUME OffInv, Disturbance, undisturbed', offFor' = offFor, NEW c \in Ctx,
         \/ CheckOff(c) \/ DisableWdt(c) \/ CheckCooling(c) \/ CheckOn(c)
         \/ Bite(c)
  PROVE  Calm'
<1>1. UNCHANGED <<pin, reg, cooling_off, cool_off_vt, power_on_vt, offFor>>
  BY DEF CheckOff, DisableWdt, CheckCooling, CheckOn, Bite
<1>2. Calm
  BY <1>1, StaysCalm DEF SwitchesOff
<1>3. PICK label : Goto(c, label)
  BY DEF CheckOff, DisableWdt, CheckCooling, CheckOn, Bite
<1>4. \A d \in Ctx \ {c} : pc[d] \notin OffTail
  BY <1>3, OthersWait
<1>5. CASE CheckOff(c)
  BY <1>1, <1>2, <1>5, MoveOnly DEF CheckOff, At, OffTail, CoolOffIsOver, Calm
<1>6. CASE DisableWdt(c)
  <2>1. ~pin /\ cooling_off /\ cool_off_vt = CoolOff /\ NobodyOver
    BY <1>2, <1>6 DEF DisableWdt, At, Calm, Tail, OffTail
  <2> QED
    BY <1>1, <1>6, <2>1, MoveOnly DEF DisableWdt, At, CoolOffIsOver, OffTail
<1>7. CASE CheckCooling(c)
  <2>1. ~BeforeArm
    BY <1>4, <1>7 DEF BeforeArm, OffTail, CheckCooling, At
  <2>2. ~cooling_off => power_on_vt = Unarmed /\ (~pin => offFor >= CoolOff)
    BY <1>2, <2>1 DEF Calm, Pending, Duration
  <2> QED
    BY <1>1, <1>7, <2>2, MoveOnly DEF CheckCooling, At, CoolOffIsOver, OffTail
<1>8. CASE CheckOn(c)
  <2>1. power_on_vt = Unarmed /\ (~pin => offFor >= CoolOff)
    BY <1>2, <1>8
    DEF Calm, Pending, Duration, NobodyOver, CoolOffIsOver, CheckOn, At
  <2> QED
    BY <1>1, <1>8, <2>1, MoveOnly DEF CheckOn, At, CoolOffIsOver, OffTail
<1>9. CASE Bite(c)
  BY <1>1, <1>9, MoveOnly DEF Bite, At, OffTail, CoolOffIsOver
<1> QED
  BY <1>5, <1>6, <1>7, <1>8, <1>9

(* Nor do the calls of the threads, or the timer of the button.            *)
LEMMA CallsCalm ==
  ASSUME OffInv, Disturbance, undisturbed', offFor' = offFor,
         (\E c \in Callers : Calls(c)) \/ ButtonExpires
  PROVE  Calm'
<1>1. ASSUME NEW c \in Callers, Calls(c)
      PROVE  Calm'
  <2>1. PICK label \in {"check_off", "check_cooling", "bite"} : Call(c, label)
    BY <1>1 DEF Calls, CallOff, CallOn, WdtExpires
  <2>2. c \in Ctx /\ c # "main"
    BY CallersAssumption DEF Ctx
  <2> QED
    BY <2>1, <2>2, MoveOnly DEF Call, At, OffTail, CoolOffIsOver
<1>2. CASE ButtonExpires
  BY <1>2, MoveOnly, AlwaysContexts
  DEF ButtonExpires, At, OffTail, CoolOffIsOver
<1> QED
  BY <1>1, <1>2

(* Neither a reset nor a boot leaves a power-off undisturbed.              *)
LEMMA NoBoot ==
  ASSUME OffInv, Disturbance, undisturbed'
  PROVE  ~InitStep /\ ~Reset
<1>1. ~InitStep
  BY BootedThen
  DEF Booted, InitStep, BootToPowerInit, InitCooling, InitSignature, InitRead,
      InitPin, InitReg, At
<1>2. ~Reset
  <2> SUFFICES ASSUME Reset PROVE FALSE
    OBVIOUS
  <2>1. ~SwitchesOff
    BY DEF Reset, SwitchesOff
  <2>2. resets' = resets /\ resets \in Nat
    BY <2>1, StaysCalm, ResetsAssumption DEF OffInv, TypeOK
  <2> QED
    BY <2>2 DEF Reset
<1> QED
  BY <1>1, <1>2

(* While a power-off is undisturbed every step keeps the calm.             *)
LEMMA StepCalm ==
  ASSUME OffInv, OffNext, undisturbed'
  PROVE  Calm'
<1>0. Disturbance
  BY DEF OffNext
<1>1. CASE /\ Tick
           /\ offFor' = IF pin \/ offFor = CoolOff THEN offFor
                        ELSE offFor + 1
  BY <1>0, <1>1, TickCalm
<1>2. CASE Run /\ offFor' = IF SwitchesOff THEN 0 ELSE offFor
  <2>1. UNCHANGED pin => offFor' = offFor
    BY <1>2 DEF SwitchesOff
  <2>2. pin' = TRUE => offFor' = offFor
    BY <1>2 DEF SwitchesOff
  <2>3. ASSUME NEW c \in Ctx, Step(c)
        PROVE  Calm'
    <3>1. CASE SetOff(c)
      BY <1>0, <1>2, <3>1, SetOffCalm
    <3>2. CASE StartCooling(c)
      BY <1>0, <2>1, <3>2, StartCoolingCalm DEF StartCooling
    <3>3. CASE ArmCoolOff(c)
      BY <1>0, <2>1, <3>3, ArmCoolOffCalm DEF ArmCoolOff
    <3>4. CASE ArmPowerOn(c)
      BY <1>0, <2>1, <3>4, ArmPowerOnCalm DEF ArmPowerOn
    <3>5. CASE SetOn(c)
      BY <1>0, <3>5, SwitchOnCalm DEF SetOn, At, PowerSetState
    <3>6. CASE \/ CheckOff(c) \/ DisableWdt(c) \/ CheckCooling(c)
               \/ CheckOn(c) \/ Bite(c)
      <4>1. UNCHANGED pin
        BY <3>6 DEF CheckOff, DisableWdt, CheckCooling, CheckOn, Bite
      <4> QED
        BY <1>0, <2>1, <3>6, <4>1, TestsCalm
    <3> QED
      BY <2>3, <3>1, <3>2, <3>3, <3>4, <3>5, <3>6 DEF Step, OffStep, OnStep
  <2>4. CASE (\E c \in Callers : Calls(c)) \/ ButtonExpires
    <3>1. UNCHANGED pin
      BY <2>4 DEF Calls, CallOff, CallOn, WdtExpires, Call, ButtonExpires
    <3> QED
      BY <1>0, <2>1, <2>4, <3>1, CallsCalm
  <2>5. CASE VtStep
    <3>1. CASE FireCoolOff
      BY <1>0, <2>1, <3>1, FireCoolOffCalm DEF FireCoolOff
    <3>2. CASE FirePowerOn
      BY <1>0, <2>1, <3>2, FirePowerOnCalm DEF FirePowerOn
    <3>3. CASE OffLocked
      BY <1>0, <1>2, <3>3, OffLockedCalm
    <3>4. CASE OnLocked
      <4>1. pc["vt"] \in {"on_locked", "call_power_on"} /\ Goto("vt", "idle")
        BY <3>4 DEF OnLocked, At
      <4>2. PowerSetStateI(TRUE)
            /\ UNCHANGED <<cooling_off, cool_off_vt, power_on_vt>>
        BY <3>4 DEF OnLocked
      <4>3. CASE reg # TRUE
        BY <1>0, <4>1, <4>2, <4>3, SwitchOnCalm, AlwaysContexts
        DEF PowerSetStateI, PowerSetState
      <4>4. CASE reg = TRUE
        <5>1. UNCHANGED <<pin, reg>>
          BY <4>2, <4>4 DEF PowerSetStateI
        <5>2. pin = reg
          BY <1>0, <5>1, StaysCalm DEF SwitchesOff, Calm
        <5> QED
          BY <1>0, <4>1, <4>2, <4>4, <5>1, <5>2, SwitchOnCalm, AlwaysContexts
      <4> QED
        BY <4>3, <4>4
    <3>5. CASE StopCoolOff
      BY <1>0, <2>1, <3>5, StopCoolOffCalm DEF StopCoolOff
    <3> QED
      BY <2>5, <3>1, <3>2, <3>3, <3>4, <3>5 DEF VtStep
  <2>6. CASE HostOff \/ HostReboot
    BY <1>0, <1>2, <2>6, HostOffCalm
  <2>7. ASSUME NEW wdtBit \in BOOLEAN, HostOn(wdtBit) \/ HostReserved(wdtBit)
        PROVE  Calm'
    <3>1. UNCHANGED pin \/ pin' = TRUE
      BY <2>7 DEF HostOn, HostReserved, PowerSetStateI, PowerSetState
    <3> QED
      BY <1>0, <2>1, <2>2, <2>7, <3>1, HostOnCalm
  <2> QED
    BY <1>0, <1>2, <2>3, <2>4, <2>5, <2>6, <2>7, NoBoot DEF Run, HostCommand
<1> QED
  BY <1>1, <1>2 DEF OffNext

(* Every step of the extended specification is one of Power.               *)
LEMMA OffNextIsNext == [OffNext]_offVars => [Next]_vars
BY DEF OffNext, Next, offVars

(* The invariant is inductive.                                             *)
LEMMA OffInductive == OffInv /\ [OffNext]_offVars => OffInv'
<1> SUFFICES ASSUME OffInv, [OffNext]_offVars PROVE OffInv'
  OBVIOUS
<1>1. TypeOK'
  BY OffNextIsNext, NextTypes DEF OffInv
<1>2. CASE UNCHANGED offVars
  BY <1>1, <1>2
  DEF offVars, vars, OffInv, Calm, Booted, Tail, Pending, Duration,
      NobodyOver, BeforeArm
<1>3. CASE OffNext
  <2>1. offFor' \in 0 .. CoolOff
    BY <1>3, DelayAssumption DEF OffNext, OffInv
  <2>2. undisturbed' \in BOOLEAN
    BY <1>3 DEF OffNext, Disturbance, BeginsUndisturbed, Undivided
  <2> QED
    BY <1>1, <1>3, <2>1, <2>2, StepCalm DEF OffInv
<1> QED
  BY <1>2, <1>3

(* It holds of the initial states, where no power-off is undisturbed.      *)
LEMMA OffInitially == OffInit => OffInv
<1> SUFFICES ASSUME OffInit PROVE OffInv
  OBVIOUS
<1>1. TypeOK /\ ~undisturbed /\ undisturbed \in BOOLEAN
  BY InitTypes DEF OffInit
<1>2. offFor \in 0 .. CoolOff
  BY DelayAssumption DEF OffInit
<1> QED
  BY <1>1, <1>2 DEF OffInv

-----------------------------------------------------------------------------
(* The timer of a reboot runs only while the board is off, if nothing ran  *)
(* in the middle of the power-off that preceded, for all delays, callers   *)
(* and numbers of resets.                                                  *)
THEOREM RebootIsPendingWhileOff == OffSpec => []PendingRebootIsOff
<1>1. OffInv => PendingRebootIsOff
  BY DEF OffInv, Calm, Pending, PendingRebootIsOff
<1> QED
  BY <1>1, OffInitially, OffInductive, PTL DEF OffSpec

(* A step that switches the board on after an undisturbed power-off is the *)
(* end of a reboot, or one that has seen the cool-off end.                 *)
LEMMA OnlyAfterTheTime ==
  ASSUME OffInv, OffNext, ~pin, pin', undisturbed'
  PROVE  /\ offFor >= RebootQuiesce
         /\ pc["vt"] # "call_power_on" => offFor >= CoolOff
<1>1. Disturbance /\ Calm
  BY StaysCalm DEF OffNext, SwitchesOff
<1>2. reg = FALSE /\ "vt" \in Ctx
  BY <1>1, AlwaysContexts DEF Calm, OffInv, TypeOK
<1>3. /\ pc["vt"] = "call_power_on" => offFor >= RebootQuiesce
      /\ \A c \in Ctx : pc[c] \in CoolOffIsOver \ {"call_power_on"} =>
           offFor >= CoolOff
      /\ ~cooling_off => offFor >= CoolOff \/ BeforeArm
  BY <1>1 DEF Calm, Duration
<1>4. offFor >= CoolOff => offFor >= RebootQuiesce
  BY DelayAssumption DEF OffInv
<1>5. ASSUME NEW c \in Ctx, SetOn(c)
      PROVE  offFor >= CoolOff
  BY <1>3, <1>5 DEF SetOn, At, CoolOffIsOver
<1>6. CASE OnLocked
  <2>1. pc["vt"] \in {"on_locked", "call_power_on"}
    BY <1>6 DEF OnLocked, At
  <2> QED
    BY <1>2, <1>3, <1>4, <2>1 DEF CoolOffIsOver
<1>7. ASSUME NEW wdtBit \in BOOLEAN, HostOn(wdtBit)
      PROVE  offFor >= CoolOff
  <2>1. ~cooling_off /\ pc' = pc
    BY <1>7 DEF HostOn
  <2>2. ~BeforeArm
    BY <1>1, <2>1, AllWait DEF BeforeArm, OffTail
  <2> QED
    BY <1>3, <2>1, <2>2
<1>8. (\E c \in Ctx : SetOn(c)) \/ OnLocked
      \/ (\E wdtBit \in BOOLEAN : HostOn(wdtBit))
  <2>1. ~Reset /\ ~InitStep
    BY <1>1, NoBoot
  <2>2. Run \/ Tick
    BY DEF OffNext
  <2>3. ~Tick
    BY DEF Tick
  <2>4. ASSUME NEW c \in Ctx, Step(c), ~SetOn(c)
        PROVE  FALSE
    BY <2>4
    DEF Step, OffStep, OnStep, CheckOff, SetOff, StartCooling, ArmCoolOff,
        DisableWdt, ArmPowerOn, CheckCooling, CheckOn, Bite, PowerSetState
  <2>5. ASSUME NEW c \in Callers, Calls(c)
        PROVE  FALSE
    BY <2>5 DEF Calls, CallOff, CallOn, WdtExpires, Call
  <2>6. ASSUME VtStep \/ ButtonExpires, ~OnLocked
        PROVE  FALSE
    BY <2>6
    DEF VtStep, ButtonExpires, FireCoolOff, FirePowerOn, OffLocked,
        StopCoolOff, PowerSetStateI, PowerSetState
  <2>7. ~HostOff /\ ~HostReboot
    BY DEF HostOff, HostReboot, PowerOffI, PowerSetStateI, PowerSetState
  <2>8. ASSUME NEW wdtBit \in BOOLEAN, HostReserved(wdtBit)
        PROVE  FALSE
    BY <2>8 DEF HostReserved
  <2> QED
    BY <2>1, <2>2, <2>3, <2>4, <2>5, <2>6, <2>7, <2>8 DEF Run, HostCommand
<1> QED
  BY <1>4, <1>5, <1>6, <1>7, <1>8

(* After a power-off in the middle of which nothing ran, the board stays   *)
(* off for REBOOT_QUIESCE_MS, and for COOL_OFF_MS unless the end of a      *)
(* reboot powers it on, for all delays, callers and numbers of resets.     *)
THEOREM StaysOffForTheTime == OffSpec => StaysOff
<1> DEFINE Rises ==
      ~pin /\ pin' /\ undisturbed' =>
        /\ offFor >= RebootQuiesce
        /\ pc["vt"] # "call_power_on" => offFor >= CoolOff
<1>1. OffInv /\ [OffNext]_offVars => [Rises]_offVars
  BY OnlyAfterTheTime
<1> QED
  BY <1>1, OffInitially, OffInductive, PTL DEF OffSpec, StaysOff

=============================================================================
