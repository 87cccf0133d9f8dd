--------------------------- MODULE Power_proofs ---------------------------
(***************************************************************************)
(* Proofs about Power, for every cool-off and reboot delay, every set of   *)
(* calling threads and every number of resets.                             *)
(*                                                                         *)
(* CoolOffCannotWedge is inductive together with the types.  What makes it *)
(* so is that a context leaves "arm_cool_off" by arming the timer and in   *)
(* no other way, and that a timer at zero is unlinked only to call its     *)
(* function, which the tick that would take it below zero waits for.       *)
(*                                                                         *)
(* The two timers, which Power keeps in variables of its own, are shown to *)
(* be those that VirtualTimers promises.                                   *)
(***************************************************************************)
EXTENDS Power, TLAPS

-----------------------------------------------------------------------------
(* Lemmas about the helpers of the model.                                  *)

(* A context that goes to a label leaves every context at a label.         *)
LEMMA GotoTypes ==
  ASSUME NEW c \in Ctx, NEW label \in Labels,
         pc \in [Ctx -> Labels], Goto(c, label)
  PROVE  pc' \in [Ctx -> Labels]
BY DEF Goto

(* The context goes where it is told, and no other moves.                  *)
LEMMA GotoMoves ==
  ASSUME NEW c \in Ctx, NEW label,
         pc \in [Ctx -> Labels], Goto(c, label)
  PROVE  /\ pc'[c] = label
         /\ \A d \in Ctx \ {c} : pc'[d] = pc[d]
BY DEF Goto

(* A step of a context moves that context to a label of power.c.           *)
LEMMA StepMoves ==
  ASSUME NEW c \in Ctx, Step(c)
  PROVE  \E label \in Labels : Goto(c, label)
BY DEF Step, OffStep, OnStep, CheckOff, SetOff, StartCooling, ArmCoolOff,
       DisableWdt, ArmPowerOn, CheckCooling, CheckOn, SetOn, Bite, Labels,
       OffTail

(* So do the tick interrupt ...                                            *)
LEMMA InterruptMoves ==
  ASSUME VtStep \/ ButtonExpires
  PROVE  \E label \in Labels : Goto("vt", label)
BY DEF VtStep, FireCoolOff, FirePowerOn, OffLocked, OnLocked, StopCoolOff,
       ButtonExpires, Labels, OffTail

(* ... and the boot.                                                       *)
LEMMA InitMoves ==
  ASSUME InitStep
  PROVE  \E label \in Labels : Goto("main", label)
BY DEF InitStep, BootToPowerInit, InitCooling, InitSignature, InitRead,
       InitPin, InitReg, Labels, BootLabels

(* The main thread and the tick interrupt are always contexts.             *)
LEMMA AlwaysContexts == "vt" \in Ctx /\ "main" \in Ctx
BY DEF Ctx

(* The delays are representable by the timers.                             *)
LEMMA DelaysAreTimers ==
  /\ Unarmed \in Timer(CoolOff) /\ Unarmed \in Timer(RebootQuiesce)
  /\ CoolOff \in Timer(CoolOff) /\ RebootQuiesce \in Timer(RebootQuiesce)
  /\ CoolOff # Unarmed
BY DelayAssumption DEF Timer, Unarmed

(* An armed timer that is not due stays armed when it is decremented.      *)
LEMMA CountdownTimer ==
  ASSUME NEW bound \in Nat, NEW t \in Timer(bound), t # 0
  PROVE  /\ Countdown(t) \in Timer(bound)
         /\ t # Unarmed => Countdown(t) # Unarmed
BY DEF Timer, Countdown, Unarmed

(* What the functions that switch the pin write has the right types.       *)
LEMMA PowerSetStateTypes ==
  ASSUME TypeOK, NEW on \in BOOLEAN, PowerSetState(on) \/ PowerSetStateI(on)
  PROVE  pin' \in BOOLEAN /\ reg' \in BOOLEAN /\ sig' \in BOOLEAN
BY DEF TypeOK, PowerSetState, PowerSetStateI

-----------------------------------------------------------------------------
(* The initial states have the types of TypeOK.                            *)
LEMMA InitTypes == Init => TypeOK
<1> SUFFICES ASSUME Init PROVE TypeOK
  OBVIOUS
<1>1. pc \in [Ctx -> Labels]
  BY DEF Init, Labels, BootLabels
<1>2. resets \in 0 .. MaxResets
  BY ResetsAssumption DEF Init
<1> QED
  BY <1>1, <1>2, DelaysAreTimers DEF Init, TypeOK

(* The steps of powerOff, powerReboot and powerOn keep the types.          *)
LEMMA StepTypes ==
  ASSUME TypeOK, NEW c \in Ctx, Step(c)
  PROVE  TypeOK'
<1> USE DEF TypeOK
<1> DEFINE To == {"idle", "check_off", "set_off", "start_cooling",
                  "arm_cool_off", "disable_wdt", "arm_power_on", "on_locked",
                  "check_on", "set_on"}
<1>0. To \subseteq Labels
  BY DEF Labels, OffTail
<1>1. CASE CheckOff(c)
  <2>1. pc' \in [Ctx -> Labels]
    BY <1>0, <1>1, GotoTypes DEF CheckOff
  <2> QED
    BY <1>1, <2>1 DEF CheckOff
<1>2. CASE SetOff(c)
  <2>1. pc' \in [Ctx -> Labels]
    BY <1>0, <1>2, GotoTypes DEF SetOff
  <2>2. PowerSetState(FALSE)
    BY <1>2 DEF SetOff
  <2> QED
    BY <1>2, <2>1, <2>2, PowerSetStateTypes DEF SetOff
<1>3. CASE StartCooling(c)
  <2>1. pc' \in [Ctx -> Labels]
    BY <1>0, <1>3, GotoTypes DEF StartCooling
  <2> QED
    BY <1>3, <2>1 DEF StartCooling
<1>4. CASE ArmCoolOff(c)
  <2>1. pc' \in [Ctx -> Labels]
    BY <1>0, <1>4, GotoTypes DEF ArmCoolOff
  <2> QED
    BY <1>4, <2>1, DelaysAreTimers DEF ArmCoolOff
<1>5. CASE DisableWdt(c)
  <2>1. pc' \in [Ctx -> Labels]
    BY <1>0, <1>5, GotoTypes DEF DisableWdt
  <2> QED
    BY <1>5, <2>1 DEF DisableWdt
<1>6. CASE ArmPowerOn(c)
  <2>1. pc' \in [Ctx -> Labels]
    BY <1>0, <1>6, GotoTypes DEF ArmPowerOn
  <2> QED
    BY <1>6, <2>1, DelaysAreTimers DEF ArmPowerOn
<1>7. CASE CheckCooling(c)
  <2>1. pc' \in [Ctx -> Labels]
    BY <1>0, <1>7, GotoTypes DEF CheckCooling
  <2> QED
    BY <1>7, <2>1 DEF CheckCooling
<1>8. CASE CheckOn(c)
  <2>1. pc' \in [Ctx -> Labels]
    BY <1>0, <1>8, GotoTypes DEF CheckOn
  <2> QED
    BY <1>8, <2>1 DEF CheckOn
<1>9. CASE SetOn(c)
  <2>1. pc' \in [Ctx -> Labels]
    BY <1>0, <1>9, GotoTypes DEF SetOn
  <2>2. PowerSetState(TRUE)
    BY <1>9 DEF SetOn
  <2> QED
    BY <1>9, <2>1, <2>2, PowerSetStateTypes DEF SetOn
<1>10. CASE Bite(c)
  <2>1. pc' \in [Ctx -> Labels]
    BY <1>0, <1>10, GotoTypes DEF Bite
  <2> QED
    BY <1>10, <2>1 DEF Bite
<1> QED
  BY <1>1, <1>2, <1>3, <1>4, <1>5, <1>6, <1>7, <1>8, <1>9, <1>10
  DEF Step, OffStep, OnStep

(* So do the calls of the threads.                                         *)
LEMMA CallTypes ==
  ASSUME TypeOK, NEW c \in Callers, Calls(c)
  PROVE  TypeOK'
<1>1. PICK label \in {"check_off", "check_cooling", "bite"} : Call(c, label)
  BY DEF Calls, CallOff, CallOn, WdtExpires
<1>2. c \in Ctx /\ label \in Labels
  BY DEF Ctx, Labels
<1>3. pc' \in [Ctx -> Labels]
  BY <1>1, <1>2, GotoTypes DEF Call, TypeOK
<1> QED
  BY <1>1, <1>3 DEF Call, TypeOK

(* The tick interrupt keeps the types.                                     *)
LEMMA InterruptTypes ==
  ASSUME TypeOK, VtStep \/ ButtonExpires
  PROVE  TypeOK'
<1> USE DEF TypeOK
<1> DEFINE To == {"idle", "stop_cool_off", "call_power_on", "disable_wdt",
                  "off_locked", "check_cooling"}
<1>0. To \subseteq Labels /\ "vt" \in Ctx
  BY AlwaysContexts DEF Labels, OffTail
<1>1. CASE FireCoolOff
  <2>1. pc' \in [Ctx -> Labels]
    BY <1>0, <1>1, GotoTypes DEF FireCoolOff
  <2> QED
    BY <1>1, <2>1, DelaysAreTimers DEF FireCoolOff
<1>2. CASE FirePowerOn
  <2>1. pc' \in [Ctx -> Labels]
    BY <1>0, <1>2, GotoTypes DEF FirePowerOn
  <2> QED
    BY <1>2, <2>1, DelaysAreTimers DEF FirePowerOn
<1>3. CASE OffLocked
  <2>1. pc' \in [Ctx -> Labels]
    BY <1>0, <1>3, GotoTypes DEF OffLocked
  <2>2. PowerSetStateI(FALSE)
    BY <1>3 DEF OffLocked
  <2> QED
    BY <1>3, <2>1, <2>2, DelaysAreTimers, PowerSetStateTypes DEF OffLocked
<1>4. CASE OnLocked
  <2>1. pc' \in [Ctx -> Labels]
    BY <1>0, <1>4, GotoTypes DEF OnLocked
  <2>2. PowerSetStateI(TRUE)
    BY <1>4 DEF OnLocked
  <2> QED
    BY <1>4, <2>1, <2>2, PowerSetStateTypes DEF OnLocked
<1>5. CASE StopCoolOff
  <2>1. pc' \in [Ctx -> Labels]
    BY <1>0, <1>5, GotoTypes DEF StopCoolOff
  <2> QED
    BY <1>5, <2>1 DEF StopCoolOff
<1>6. CASE ButtonExpires
  <2>1. pc' \in [Ctx -> Labels]
    BY <1>0, <1>6, GotoTypes DEF ButtonExpires
  <2> QED
    BY <1>6, <2>1 DEF ButtonExpires
<1> QED
  BY <1>1, <1>2, <1>3, <1>4, <1>5, <1>6 DEF VtStep

(* The commands of the host keep the types.                                *)
LEMMA HostTypes ==
  ASSUME TypeOK, HostCommand
  PROVE  TypeOK'
<1> USE DEF TypeOK
<1>1. ASSUME PowerOffI
      PROVE  /\ pin' \in BOOLEAN /\ reg' \in BOOLEAN /\ sig' \in BOOLEAN
             /\ cooling_off' \in BOOLEAN /\ enabled' \in BOOLEAN
             /\ cool_off_vt' \in Timer(CoolOff)
  <2>1. PowerSetStateI(FALSE)
    BY <1>1 DEF PowerOffI
  <2> QED
    BY <1>1, <2>1, DelaysAreTimers, PowerSetStateTypes DEF PowerOffI
<1>2. CASE HostOff
  BY <1>1, <1>2 DEF HostOff
<1>3. CASE HostReboot
  BY <1>1, <1>3, DelaysAreTimers DEF HostReboot
<1>4. ASSUME NEW wdtBit \in BOOLEAN, HostOn(wdtBit)
      PROVE  TypeOK'
  <2>1. CASE cooling_off
    BY <1>4, <2>1 DEF HostOn
  <2>2. CASE ~cooling_off
    <3>1. PowerSetStateI(TRUE)
      BY <1>4, <2>2 DEF HostOn
    <3> QED
      BY <1>4, <3>1, PowerSetStateTypes DEF HostOn
  <2> QED
    BY <2>1, <2>2
<1>5. ASSUME NEW wdtBit \in BOOLEAN, HostReserved(wdtBit)
      PROVE  TypeOK'
  BY <1>5 DEF HostReserved
<1> QED
  BY <1>2, <1>3, <1>4, <1>5 DEF HostCommand

(* powerInit keeps the types.                                              *)
LEMMA InitStepTypes ==
  ASSUME TypeOK, InitStep
  PROVE  TypeOK'
<1> USE DEF TypeOK
<1>0. BootLabels \union {"idle", "check_cooling"} \subseteq Labels
      /\ "main" \in Ctx
  BY AlwaysContexts DEF Labels
<1>1. CASE BootToPowerInit
  <2>1. pc' \in [Ctx -> Labels]
    BY <1>0, <1>1, GotoTypes DEF BootToPowerInit, BootLabels
  <2> QED
    BY <1>1, <2>1 DEF BootToPowerInit
<1>2. CASE InitCooling
  <2>1. pc' \in [Ctx -> Labels]
    BY <1>0, <1>2, GotoTypes DEF InitCooling, BootLabels
  <2> QED
    BY <1>2, <2>1 DEF InitCooling
<1>3. CASE InitSignature
  <2>1. pc' \in [Ctx -> Labels]
    BY <1>0, <1>3, GotoTypes DEF InitSignature, BootLabels
  <2> QED
    BY <1>3, <2>1 DEF InitSignature
<1>4. CASE InitRead
  <2>1. pc' \in [Ctx -> Labels]
    BY <1>0, <1>4, GotoTypes DEF InitRead, BootLabels
  <2> QED
    BY <1>4, <2>1 DEF InitRead
<1>5. CASE InitPin
  <2>1. pc' \in [Ctx -> Labels]
    BY <1>0, <1>5, GotoTypes DEF InitPin, BootLabels
  <2> QED
    BY <1>5, <2>1 DEF InitPin
<1>6. CASE InitReg
  <2>1. pc' \in [Ctx -> Labels]
    BY <1>0, <1>6, GotoTypes DEF InitReg
  <2> QED
    BY <1>6, <2>1 DEF InitReg
<1> QED
  BY <1>1, <1>2, <1>3, <1>4, <1>5, <1>6 DEF InitStep

(* A reset keeps the types.                                                *)
LEMMA ResetTypes ==
  ASSUME TypeOK, Reset
  PROVE  TypeOK'
<1>1. pc' \in [Ctx -> Labels]
  BY DEF Reset, Labels, BootLabels
<1>2. resets' \in 0 .. MaxResets
  BY ResetsAssumption DEF Reset, TypeOK
<1> QED
  BY <1>1, <1>2, DelaysAreTimers DEF Reset, TypeOK

(* A tick keeps the types: no timer goes below zero while armed.           *)
LEMMA TickTypes ==
  ASSUME TypeOK, Tick
  PROVE  TypeOK'
<1>1. cool_off_vt # 0 /\ power_on_vt # 0
  BY DEF Tick, Due
<1>2. cool_off_vt' \in Timer(CoolOff) /\ power_on_vt' \in Timer(RebootQuiesce)
  BY <1>1, CountdownTimer, DelayAssumption DEF Tick, TypeOK
<1> QED
  BY <1>2 DEF Tick, TypeOK

(* Every step keeps the types.                                             *)
LEMMA NextTypes == TypeOK /\ [Next]_vars => TypeOK'
<1> SUFFICES ASSUME TypeOK, [Next]_vars PROVE TypeOK'
  OBVIOUS
<1>1. CASE UNCHANGED vars
  BY <1>1 DEF TypeOK, vars
<1>2. CASE Next
  BY <1>2, StepTypes, CallTypes, InterruptTypes, HostTypes, InitStepTypes,
     ResetTypes, TickTypes
  DEF Next, Run
<1> QED
  BY <1>1, <1>2

(* The variables of power.c always have their types: in particular the     *)
(* timers never leave their range, whatever arms them when.                *)
THEOREM TypeCorrect == Spec => []TypeOK
BY InitTypes, NextTypes, PTL DEF Spec

-----------------------------------------------------------------------------
(* The flag and the timer of the cool-off.                                 *)

CoolOffInv == TypeOK /\ CoolOffCannotWedge

(* When the flag, the timer and the contexts that hold the flag up are all *)
(* left alone, the invariant is.                                           *)
LEMMA CoolOffKept ==
  ASSUME CoolOffInv, NEW c \in Ctx, NEW label,
         Goto(c, label) \/ UNCHANGED pc,
         pc[c] # "arm_cool_off" \/ UNCHANGED pc,
         ~(c = "vt" /\ pc[c] = "stop_cool_off") \/ UNCHANGED pc,
         UNCHANGED <<cooling_off, cool_off_vt>>
  PROVE  CoolOffCannotWedge'
<1>1. \A d \in Ctx : pc[d] = "arm_cool_off" => pc'[d] = "arm_cool_off"
  BY GotoMoves DEF CoolOffInv, TypeOK
<1>2. pc["vt"] = "stop_cool_off" => pc'["vt"] = "stop_cool_off"
  BY GotoMoves, AlwaysContexts DEF CoolOffInv, TypeOK
<1> QED
  BY <1>1, <1>2 DEF CoolOffInv, CoolOffCannotWedge

(* The steps of powerOff, powerReboot and powerOn.                         *)
LEMMA CoolOffStep ==
  ASSUME CoolOffInv, NEW c \in Ctx, Step(c)
  PROVE  CoolOffCannotWedge'
<1>1. CASE CheckOff(c)
  BY <1>1, CoolOffKept DEF CheckOff, At
<1>2. CASE SetOff(c)
  BY <1>2, CoolOffKept DEF SetOff, At
<1>3. CASE StartCooling(c)
  <2>1. pc'[c] = "arm_cool_off"
    BY <1>3, GotoMoves DEF StartCooling, CoolOffInv, TypeOK
  <2> QED
    BY <2>1 DEF CoolOffCannotWedge
<1>4. CASE ArmCoolOff(c)
  BY <1>4, DelaysAreTimers DEF ArmCoolOff, CoolOffCannotWedge, Unarmed
<1>5. CASE DisableWdt(c)
  BY <1>5, CoolOffKept DEF DisableWdt, At
<1>6. CASE ArmPowerOn(c)
  BY <1>6, CoolOffKept DEF ArmPowerOn, At
<1>7. CASE CheckCooling(c)
  BY <1>7, CoolOffKept DEF CheckCooling, At
<1>8. CASE CheckOn(c)
  BY <1>8, CoolOffKept DEF CheckOn, At
<1>9. CASE SetOn(c)
  BY <1>9, CoolOffKept DEF SetOn, At
<1>10. CASE Bite(c)
  BY <1>10, CoolOffKept DEF Bite, At
<1> QED
  BY <1>1, <1>2, <1>3, <1>4, <1>5, <1>6, <1>7, <1>8, <1>9, <1>10
  DEF Step, OffStep, OnStep

(* The calls of the threads.                                               *)
LEMMA CoolOffCall ==
  ASSUME CoolOffInv, NEW c \in Callers, Calls(c)
  PROVE  CoolOffCannotWedge'
<1>1. PICK label : Call(c, label)
  BY DEF Calls, CallOff, CallOn, WdtExpires
<1>2. c \in Ctx
  BY DEF Ctx
<1> QED
  BY <1>1, <1>2, CoolOffKept DEF Call, At

(* The tick interrupt: stop_cool_off is the only one to clear the flag,    *)
(* and the timer that calls it is unlinked only when it is called.         *)
LEMMA CoolOffInterrupt ==
  ASSUME CoolOffInv, VtStep \/ ButtonExpires
  PROVE  CoolOffCannotWedge'
<1>0. "vt" \in Ctx
  BY AlwaysContexts
<1>1. CASE FireCoolOff
  <2>1. pc'["vt"] = "stop_cool_off"
    BY <1>0, <1>1, GotoMoves DEF FireCoolOff, CoolOffInv, TypeOK
  <2> QED
    BY <2>1 DEF CoolOffCannotWedge
<1>2. CASE FirePowerOn
  BY <1>0, <1>2, CoolOffKept DEF FirePowerOn, At
<1>3. CASE OffLocked
  BY <1>3, DelaysAreTimers DEF OffLocked, CoolOffCannotWedge, Unarmed
<1>4. CASE OnLocked
  BY <1>0, <1>4, CoolOffKept DEF OnLocked, At
<1>5. CASE StopCoolOff
  BY <1>5 DEF StopCoolOff, CoolOffCannotWedge
<1>6. CASE ButtonExpires
  BY <1>0, <1>6, CoolOffKept DEF ButtonExpires, At
<1> QED
  BY <1>1, <1>2, <1>3, <1>4, <1>5, <1>6 DEF VtStep

(* The commands of the host.                                               *)
LEMMA CoolOffHost ==
  ASSUME CoolOffInv, HostCommand
  PROVE  CoolOffCannotWedge'
<1>1. CASE HostOff
  BY <1>1, DelaysAreTimers
  DEF HostOff, PowerOffI, CoolOffCannotWedge, Unarmed
<1>2. CASE HostReboot
  BY <1>2, DelaysAreTimers
  DEF HostReboot, PowerOffI, CoolOffCannotWedge, Unarmed
<1>3. ASSUME NEW wdtBit \in BOOLEAN, HostOn(wdtBit)
      PROVE  CoolOffCannotWedge'
  BY <1>3 DEF HostOn, CoolOffInv, CoolOffCannotWedge
<1>4. ASSUME NEW wdtBit \in BOOLEAN, HostReserved(wdtBit)
      PROVE  CoolOffCannotWedge'
  BY <1>4 DEF HostReserved, CoolOffInv, CoolOffCannotWedge
<1> QED
  BY <1>1, <1>2, <1>3, <1>4 DEF HostCommand

(* powerInit: it clears the flag whatever the timer does.                  *)
LEMMA CoolOffBoot ==
  ASSUME CoolOffInv, InitStep
  PROVE  CoolOffCannotWedge'
<1>0. "main" \in Ctx
  BY AlwaysContexts
<1>1. CASE BootToPowerInit
  BY <1>0, <1>1, CoolOffKept DEF BootToPowerInit, At
<1>2. CASE InitCooling
  BY <1>2 DEF InitCooling, CoolOffCannotWedge
<1>3. CASE InitSignature
  BY <1>0, <1>3, CoolOffKept DEF InitSignature, At
<1>4. CASE InitRead
  BY <1>0, <1>4, CoolOffKept DEF InitRead, At
<1>5. CASE InitPin
  BY <1>0, <1>5, CoolOffKept DEF InitPin, At
<1>6. CASE InitReg
  BY <1>0, <1>6, CoolOffKept DEF InitReg, At
<1> QED
  BY <1>1, <1>2, <1>3, <1>4, <1>5, <1>6 DEF InitStep

(* Time: a timer that is due is served before the next tick.               *)
LEMMA CoolOffTick ==
  ASSUME CoolOffInv, Tick
  PROVE  CoolOffCannotWedge'
<1>1. cool_off_vt # 0 /\ cool_off_vt \in Timer(CoolOff) /\ CoolOff \in Nat
  BY DelayAssumption DEF Tick, Due, CoolOffInv, TypeOK
<1>2. cool_off_vt # Unarmed => cool_off_vt' # Unarmed
  BY <1>1, CountdownTimer DEF Tick, Unarmed
<1> QED
  BY <1>2 DEF Tick, CoolOffInv, CoolOffCannotWedge, Unarmed

(* The invariant is inductive.                                             *)
LEMMA CoolOffInductive == CoolOffInv /\ [Next]_vars => CoolOffInv'
<1> SUFFICES ASSUME CoolOffInv, [Next]_vars PROVE CoolOffInv'
  OBVIOUS
<1>1. TypeOK'
  BY NextTypes DEF CoolOffInv
<1>2. CASE UNCHANGED vars
  BY <1>1, <1>2 DEF CoolOffInv, CoolOffCannotWedge, vars
<1>3. CASE Reset
  BY <1>1, <1>3 DEF CoolOffInv, CoolOffCannotWedge, Reset
<1>4. CASE Next /\ ~Reset
  BY <1>1, <1>4, CoolOffStep, CoolOffCall, CoolOffInterrupt, CoolOffHost,
     CoolOffBoot, CoolOffTick
  DEF Next, Run, CoolOffInv
<1> QED
  BY <1>2, <1>3, <1>4

(* The cool-off can never get stuck: as long as the flag forbids powering  *)
(* on, the callback that clears it is still to come, however power-offs of *)
(* threads, of the tick interrupt and of the host interleave with it and   *)
(* with resets.                                                            *)
THEOREM CoolOffNeverWedges == Spec => []CoolOffCannotWedge
<1>1. Init => CoolOffInv
  BY InitTypes DEF Init, CoolOffInv, CoolOffCannotWedge
<1> QED
  BY <1>1, CoolOffInductive, PTL DEF Spec, CoolOffInv

-----------------------------------------------------------------------------
(* A boot while the slave is closed: nobody else runs until it is over.    *)

BootWay == BootLabels \union {"check_cooling", "check_on", "set_on"}

(* What a reset has found and left, up to the step that ends the boot.     *)
QuietBoot ==
  /\ pc["main"] \in BootWay
  /\ \A c \in Ctx \ {"main"} : pc[c] = "idle"
  /\ cool_off_vt = Unarmed /\ power_on_vt = Unarmed
  /\ enabled = FALSE
  /\ cooling_off = FALSE
  /\ reg = FALSE
  /\ restore = FALSE
  /\ pc["main"] = "init_reg" => pin = FALSE

QuietInv ==
  TypeOK /\ (~listening => IF Booted THEN pin = reg ELSE QuietBoot)

(* Only a reset decides whether the slave listens during the boot.         *)
LEMMA ListeningKept ==
  ASSUME Next, ~Reset
  PROVE  listening' = listening
<1>1. ASSUME NEW c \in Ctx, Step(c)
      PROVE  listening' = listening
  BY <1>1
  DEF Step, OffStep, OnStep, CheckOff, SetOff, StartCooling, ArmCoolOff,
      DisableWdt, ArmPowerOn, CheckCooling, CheckOn, SetOn, Bite
<1>2. ASSUME NEW c \in Callers, Calls(c)
      PROVE  listening' = listening
  BY <1>2 DEF Calls, CallOff, CallOn, WdtExpires, Call
<1>3. VtStep \/ ButtonExpires => listening' = listening
  BY DEF VtStep, FireCoolOff, FirePowerOn, OffLocked, OnLocked, StopCoolOff,
         ButtonExpires
<1>4. HostCommand => listening' = listening
  BY DEF HostCommand, HostOff, HostReboot, HostOn, HostReserved
<1>5. InitStep \/ Tick => listening' = listening
  BY DEF InitStep, BootToPowerInit, InitCooling, InitSignature, InitRead,
         InitPin, InitReg, Tick
<1> QED
  BY <1>1, <1>2, <1>3, <1>4, <1>5 DEF Next, Run

(* In a locked section the pin and the register are written together.      *)
LEMMA WrittenTogether ==
  ASSUME pin = reg, NEW on \in BOOLEAN,
         PowerSetState(on) \/ PowerSetStateI(on)
  PROVE  pin' = reg'
BY DEF PowerSetState, PowerSetStateI

(* Every reset leaves the boot to the main thread alone, with a register   *)
(* that says off if the slave stays closed.                                *)
LEMMA QuietReset ==
  ASSUME QuietInv, Reset
  PROVE  QuietInv'
<1>1. TypeOK'
  BY ResetTypes DEF QuietInv
<1>2. /\ pc' = [c \in Ctx |-> IF c = "main" THEN "boot" ELSE "idle"]
      /\ "main" \in Ctx
  BY AlwaysContexts DEF Reset
<1>3. ~listening' => reg' = FALSE
  BY DEF Reset, QuietInv, TypeOK
<1> QED
  BY <1>1, <1>2, <1>3
  DEF Reset, QuietInv, QuietBoot, BootWay, BootLabels, Booted

(* The steps of the main thread.                                           *)
LEMMA QuietMain ==
  ASSUME QuietInv, InitStep \/ Step("main"), ~listening, ~listening'
  PROVE  QuietInv'
<1>0. "main" \in Ctx /\ TypeOK' /\ TypeOK
  BY AlwaysContexts, InitStepTypes, StepTypes DEF QuietInv
<1>1. pc["main"] # "idle"
  BY DEF InitStep, BootToPowerInit, InitCooling, InitSignature, InitRead,
         InitPin, InitReg, Step, OffStep, OnStep, CheckOff, SetOff,
         StartCooling, ArmCoolOff, DisableWdt, ArmPowerOn, CheckCooling,
         CheckOn, SetOn, Bite, At
<1>2. QuietBoot
  BY <1>1 DEF QuietInv, Booted
<1>3. SUFFICES IF Booted' THEN pin' = reg' ELSE QuietBoot'
  BY <1>0 DEF QuietInv
<1>4. ASSUME NEW label \in BootWay \ {"init_reg"}, Goto("main", label),
             UNCHANGED <<reg, cooling_off, cool_off_vt, power_on_vt,
                         enabled, restore>>
      PROVE  ~Booted' /\ QuietBoot'
  <2>1. pc'["main"] = label /\ \A c \in Ctx \ {"main"} : pc'[c] = pc[c]
    BY <1>0, <1>4, GotoMoves DEF TypeOK
  <2> QED
    BY <1>2, <1>4, <2>1 DEF QuietBoot, Booted, BootWay, BootLabels
<1>5. ASSUME Goto("main", "idle"), pin' = reg'
      PROVE  Booted' /\ pin' = reg'
  BY <1>0, <1>5, GotoMoves DEF TypeOK, Booted
<1>6. CASE BootToPowerInit
  BY <1>4, <1>6 DEF BootToPowerInit, BootWay, BootLabels
<1>7. CASE InitCooling
  BY <1>2, <1>4, <1>7 DEF InitCooling, BootWay, BootLabels, QuietBoot
<1>8. CASE InitSignature
  BY <1>4, <1>8 DEF InitSignature, BootWay, BootLabels
<1>9. CASE InitRead
  BY <1>2, <1>4, <1>9 DEF InitRead, BootWay, BootLabels, QuietBoot
<1>10. CASE InitPin
  <2>1. /\ pc'["main"] = "init_reg"
        /\ \A c \in Ctx \ {"main"} : pc'[c] = pc[c]
        /\ pin' = FALSE
    BY <1>0, <1>2, <1>10, GotoMoves DEF InitPin, TypeOK, QuietBoot
  <2> QED
    BY <1>2, <1>10, <2>1 DEF InitPin, QuietBoot, Booted, BootWay, BootLabels
<1>11. CASE InitReg
  <2>1. pin' = reg'
    BY <1>2, <1>11 DEF InitReg, QuietBoot, At
  <2> QED
    BY <1>5, <1>11, <2>1 DEF InitReg
<1>12. CASE CheckCooling("main")
  BY <1>2, <1>4, <1>12 DEF CheckCooling, BootWay, BootLabels, QuietBoot
<1>13. CASE CheckOn("main")
  BY <1>2, <1>4, <1>13 DEF CheckOn, BootWay, BootLabels, QuietBoot
<1>14. CASE SetOn("main")
  BY <1>5, <1>14 DEF SetOn, PowerSetState
<1>15. CASE OffStep("main") \/ Bite("main")
  BY <1>2, <1>15
  DEF OffStep, CheckOff, SetOff, StartCooling, ArmCoolOff, DisableWdt,
      ArmPowerOn, Bite, At, QuietBoot, BootWay, BootLabels
<1> QED
  BY <1>6, <1>7, <1>8, <1>9, <1>10, <1>11, <1>12, <1>13, <1>14, <1>15
  DEF InitStep, Step, OnStep

(* The others wait for the end of the boot; then they switch the pin and   *)
(* the register together.                                                  *)
LEMMA QuietOthers ==
  ASSUME QuietInv, ~listening, ~listening',
         \/ \E c \in Ctx \ {"main"} : Step(c)
         \/ \E c \in Callers : Calls(c)
         \/ VtStep \/ ButtonExpires \/ HostCommand
  PROVE  QuietInv'
<1>0. /\ "main" \in Ctx /\ "vt" \in Ctx /\ "vt" # "main"
      /\ Callers \subseteq Ctx /\ "main" \notin Callers
      /\ Unarmed # 0
  BY AlwaysContexts, CallersAssumption DEF Ctx, Unarmed
<1>1. TypeOK'
  BY StepTypes, CallTypes, InterruptTypes, HostTypes DEF QuietInv
<1>3. Booted
  <2> SUFFICES ASSUME ~Booted PROVE FALSE
    OBVIOUS
  <2>1. QuietBoot
    BY DEF QuietInv
  <2>2. ASSUME NEW c \in Ctx \ {"main"}, Step(c)
        PROVE  FALSE
    <3>1. pc[c] # "idle"
      BY <2>2 DEF Step, OffStep, OnStep, CheckOff, SetOff, StartCooling,
                  ArmCoolOff, DisableWdt, ArmPowerOn, CheckCooling, CheckOn,
                  SetOn, Bite, At
    <3> QED
      BY <2>1, <3>1 DEF QuietBoot
  <2>3. ASSUME NEW c \in Callers, Calls(c)
        PROVE  FALSE
    BY <2>1, <2>3 DEF Calls, CallOff, CallOn, WdtExpires, QuietBoot
  <2>4. ~VtStep
    BY <1>0, <2>1
    DEF VtStep, FireCoolOff, FirePowerOn, OffLocked, OnLocked, StopCoolOff,
        At, QuietBoot
  <2>5. ~ButtonExpires /\ ~HostCommand
    BY DEF ButtonExpires, HostCommand, HostOff, HostReboot, HostOn,
           HostReserved, HostMayTalk
  <2> QED
    BY <2>2, <2>3, <2>4, <2>5
<1>4. Booted'
  <2>1. ASSUME NEW c \in Ctx \ {"main"}, NEW label, Goto(c, label)
        PROVE  Booted'
    BY <1>0, <1>3, <2>1, GotoMoves DEF Booted, QuietInv, TypeOK
  <2>2. (\E c \in Ctx \ {"main"} : \E label \in Labels : Goto(c, label))
        \/ UNCHANGED pc
    <3>1. ASSUME NEW c \in Callers, Calls(c)
          PROVE  \E label \in Labels : Goto(c, label)
      BY <3>1 DEF Calls, CallOff, CallOn, WdtExpires, Call, Labels
    <3>2. HostCommand => UNCHANGED pc
      BY DEF HostCommand, HostOff, HostReboot, HostOn, HostReserved
    <3> QED
      BY <1>0, <3>1, <3>2, StepMoves, InterruptMoves
  <2> QED
    BY <1>3, <2>1, <2>2 DEF Booted
<1>5. pin = reg
  BY <1>3 DEF QuietInv
<1>6. pin' = reg'
  <2>1. ASSUME NEW c \in Ctx, Step(c)
        PROVE  pin' = reg'
    BY <1>5, <2>1, WrittenTogether
    DEF Step, OffStep, OnStep, CheckOff, SetOff, StartCooling, ArmCoolOff,
        DisableWdt, ArmPowerOn, CheckCooling, CheckOn, SetOn, Bite
  <2>2. ASSUME NEW c \in Callers, Calls(c)
        PROVE  pin' = reg'
    BY <1>5, <2>2 DEF Calls, CallOff, CallOn, WdtExpires, Call
  <2>3. VtStep \/ ButtonExpires => pin' = reg'
    BY <1>5, WrittenTogether
    DEF VtStep, FireCoolOff, FirePowerOn, OffLocked, OnLocked, StopCoolOff,
        ButtonExpires
  <2>4. HostOff \/ HostReboot => pin' = reg'
    BY <1>5, WrittenTogether DEF HostOff, HostReboot, PowerOffI
  <2>5. ASSUME NEW wdtBit \in BOOLEAN, HostOn(wdtBit) \/ HostReserved(wdtBit)
        PROVE  pin' = reg'
    <3>1. PowerSetStateI(TRUE) \/ UNCHANGED <<pin, reg>>
      BY <2>5 DEF HostOn, HostReserved
    <3> QED
      BY <1>5, <3>1, WrittenTogether
  <2> QED
    BY <2>1, <2>2, <2>3, <2>4, <2>5 DEF HostCommand
<1> QED
  BY <1>1, <1>4, <1>6 DEF QuietInv

(* The invariant is inductive.                                             *)
LEMMA QuietInductive == QuietInv /\ [Next]_vars => QuietInv'
<1> SUFFICES ASSUME QuietInv, [Next]_vars PROVE QuietInv'
  OBVIOUS
<1>1. TypeOK'
  BY NextTypes DEF QuietInv
<1>2. CASE UNCHANGED vars
  BY <1>1, <1>2 DEF QuietInv, QuietBoot, Booted, vars
<1>3. CASE Reset
  BY <1>3, QuietReset
<1>4. CASE listening /\ ~Reset /\ Next
  BY <1>1, <1>4, ListeningKept DEF QuietInv
<1>5. CASE ~listening /\ Tick
  <2>1. /\ ~listening'
        /\ UNCHANGED <<pin, reg, cooling_off, enabled, pc, restore>>
        /\ cool_off_vt = Unarmed => cool_off_vt' = Unarmed
        /\ power_on_vt = Unarmed => power_on_vt' = Unarmed
    BY <1>5 DEF Tick, Countdown
  <2> QED
    BY <1>1, <1>5, <2>1 DEF QuietInv, QuietBoot, Booted
<1>6. CASE ~listening /\ Run /\ ~Reset
  BY <1>6, ListeningKept, QuietMain, QuietOthers DEF Run, Next
<1> QED
  BY <1>2, <1>3, <1>4, <1>5, <1>6 DEF Next

(* A boot during which the slave is closed ends with the pin at what the   *)
(* register says, and from then on they agree, for all delays, callers and *)
(* numbers of resets.                                                      *)
THEOREM QuietBootsSynchronise == Spec => []QuietBootSynchronises
<1>1. Init => QuietInv
  <2> SUFFICES ASSUME Init PROVE QuietInv
    OBVIOUS
  <2>1. TypeOK
    BY InitTypes
  <2> QED
    BY <2>1, AlwaysContexts
    DEF Init, QuietInv, QuietBoot, BootWay, BootLabels, Booted
<1>2. QuietInv => QuietBootSynchronises
  BY DEF QuietInv, QuietBootSynchronises, BootSynchronises
<1> QED
  BY <1>1, <1>2, QuietInductive, PTL DEF Spec

-----------------------------------------------------------------------------
(* The two timers are virtual timers of the kernel.  A step may set both,  *)
(* so each is compared with what the kernel promises by itself.            *)
CoolOffTimer == INSTANCE VirtualTimers WITH
  Timers <- {"cool_off_vt"},
  Forever <- CoolOff,
  left <- [t \in {"cool_off_vt"} |-> cool_off_vt]

PowerOnTimer == INSTANCE VirtualTimers WITH
  Timers <- {"power_on_vt"},
  Forever <- RebootQuiesce,
  left <- [t \in {"power_on_vt"} |-> power_on_vt]

(* What power.c may do to a timer with the delay max: set it, reset it, or *)
(* wait for the tick, which a timer that is due holds up.                  *)
TimerMoves(old, new, max) ==
  \/ new \in {old, Unarmed, max}
  \/ old # 0 /\ new = Countdown(old)

(* No step does anything else to the two timers.                           *)
LEMMA TimersMove ==
  ASSUME [Next]_vars
  PROVE  /\ TimerMoves(cool_off_vt, cool_off_vt', CoolOff)
         /\ TimerMoves(power_on_vt, power_on_vt', RebootQuiesce)
<1> DEFINE Moves == /\ cool_off_vt' \in {cool_off_vt, Unarmed, CoolOff}
                    /\ power_on_vt' \in {power_on_vt, Unarmed, RebootQuiesce}
<1>1. ASSUME NEW c \in Ctx, Step(c)
      PROVE  Moves
  BY <1>1
  DEF Step, OffStep, OnStep, CheckOff, SetOff, StartCooling, ArmCoolOff,
      DisableWdt, ArmPowerOn, CheckCooling, CheckOn, SetOn, Bite
<1>2. ASSUME NEW c \in Callers, Calls(c)
      PROVE  Moves
  BY <1>2 DEF Calls, CallOff, CallOn, WdtExpires, Call
<1>3. VtStep \/ ButtonExpires => Moves
  BY DEF VtStep, FireCoolOff, FirePowerOn, OffLocked, OnLocked, StopCoolOff,
         ButtonExpires
<1>4. HostCommand => Moves
  BY DEF HostCommand, HostOff, HostReboot, HostOn, HostReserved, PowerOffI
<1>5. InitStep \/ Reset \/ UNCHANGED vars => Moves
  BY DEF InitStep, BootToPowerInit, InitCooling, InitSignature, InitRead,
         InitPin, InitReg, Reset, vars
<1>6. CASE Tick
  BY <1>6 DEF Tick, Due, TimerMoves
<1> QED
  BY <1>1, <1>2, <1>3, <1>4, <1>5, <1>6 DEF Next, Run, TimerMoves

(* Each timer is one the kernel can keep: it is set to a delay that it can *)
(* count, no tick passes it by when it is due, and it is never counted     *)
(* below zero, for all delays, callers and numbers of resets.              *)
THEOREM TimersAreVirtualTimers == Spec => CoolOffTimer!Spec /\ PowerOnTimer!Spec
<1> USE DEF TimerMoves, Countdown, Unarmed
<1>1. Init => CoolOffTimer!Init /\ PowerOnTimer!Init
  BY DEF Init, CoolOffTimer!Init, PowerOnTimer!Init, CoolOffTimer!Unarmed,
         PowerOnTimer!Unarmed
<1>2. ASSUME [Next]_vars
      PROVE  [CoolOffTimer!Next]_([t \in {"cool_off_vt"} |-> cool_off_vt])
  <2>1. TimerMoves(cool_off_vt, cool_off_vt', CoolOff)
    BY <1>2, TimersMove
  <2>2. CASE cool_off_vt' = CoolOff
    <3>1. CoolOff \in 1 .. CoolOff
      BY DelayAssumption
    <3>2. CoolOffTimer!Set("cool_off_vt", CoolOff)
      BY <2>2 DEF CoolOffTimer!Set
    <3> QED
      BY <3>1, <3>2 DEF CoolOffTimer!Next
  <2>3. CASE cool_off_vt' = Unarmed
    <3>1. CoolOffTimer!Disarm("cool_off_vt")
      BY <2>3 DEF CoolOffTimer!Disarm, CoolOffTimer!Unarmed
    <3> QED
      BY <3>1 DEF CoolOffTimer!Next
  <2>4. CASE cool_off_vt # 0 /\ cool_off_vt' = Countdown(cool_off_vt)
    <3>1. CoolOffTimer!Tick
      BY <2>4 DEF CoolOffTimer!Tick, CoolOffTimer!Unarmed
    <3> QED
      BY <3>1 DEF CoolOffTimer!Next
  <2> QED
    BY <2>1, <2>2, <2>3, <2>4
<1>3. ASSUME [Next]_vars
      PROVE  [PowerOnTimer!Next]_([t \in {"power_on_vt"} |-> power_on_vt])
  <2>1. TimerMoves(power_on_vt, power_on_vt', RebootQuiesce)
    BY <1>3, TimersMove
  <2>2. CASE power_on_vt' = RebootQuiesce
    <3>1. RebootQuiesce \in 1 .. RebootQuiesce
      BY DelayAssumption
    <3>2. PowerOnTimer!Set("power_on_vt", RebootQuiesce)
      BY <2>2 DEF PowerOnTimer!Set
    <3> QED
      BY <3>1, <3>2 DEF PowerOnTimer!Next
  <2>3. CASE power_on_vt' = Unarmed
    <3>1. PowerOnTimer!Disarm("power_on_vt")
      BY <2>3 DEF PowerOnTimer!Disarm, PowerOnTimer!Unarmed
    <3> QED
      BY <3>1 DEF PowerOnTimer!Next
  <2>4. CASE power_on_vt # 0 /\ power_on_vt' = Countdown(power_on_vt)
    <3>1. PowerOnTimer!Tick
      BY <2>4 DEF PowerOnTimer!Tick, PowerOnTimer!Unarmed
    <3> QED
      BY <3>1 DEF PowerOnTimer!Next
  <2> QED
    BY <2>1, <2>2, <2>3, <2>4
<1> QED
  BY <1>1, <1>2, <1>3, PTL
  DEF Spec, CoolOffTimer!Spec, PowerOnTimer!Spec

=============================================================================
