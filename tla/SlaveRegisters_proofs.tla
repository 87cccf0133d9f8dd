----------------------- MODULE SlaveRegisters_proofs -----------------------
(***************************************************************************)
(* Proofs about SlaveRegisters, for every set of event sources: the types, *)
(* the interrupt pin and the mask in the backup register.                  *)
(*                                                                         *)
(* NoHiddenInterrupt speaks of the moments at which the slave thread is    *)
(* outside its handler.  It becomes inductive as PinFollows, which also    *)
(* says what holds in the handler: only between its store to irq_status    *)
(* and its write of the pin may a bit be set and the pin be low, and what  *)
(* it is about to write is out of date only if the host has cleared bits.  *)
(*                                                                         *)
(* MaskSurvives becomes inductive as MaskAgrees, with the word that        *)
(* powerInit has loaded and is about to store.                             *)
(*                                                                         *)
(* StatusLeans becomes inductive as AllLean: of the two events of a pair   *)
(* the one that is right is pending, or being handled, as long as it is    *)
(* not shown, and whenever the other one still has its turn to come.       *)
(***************************************************************************)
EXTENDS SlaveRegisters, TLAPS

-----------------------------------------------------------------------------
(* The threads' records have no other fields, the slave thread sets no bit *)
(* but that of an event whose source there is, and it is not running yet   *)
(* when the boot opens the registers.                                      *)
Shape ==
  /\ slave = [pc |-> slave.pc, id |-> slave.id, tmp |-> slave.tmp]
  /\ boot = [pc |-> boot.pc, tmp |-> boot.tmp]
  /\ slave.pc \in {"load_status", "store_status"} => Irq(slave.id) \in Irqs
  /\ boot.pc = "open" => slave.pc = "off"

Types == SrTypeOK /\ Shape

RegType == [power : PowerBits, irq_enable : SUBSET Irqs,
            irq_status : SUBSET Irqs]

(* A value loaded from irq_status is not "no value".                       *)
LEMMA StatusIsAValue == \A s \in SUBSET Irqs : s # None
BY NoneAssumption DEF Irqs

(* The cleared registers and those of every transaction have their type.   *)
LEMMA RegistersTyped ==
  /\ Cleared \in RegType
  /\ \A r \in RegType, w \in BOOLEAN : Prepared(r, w) \in RegType
BY DEF Cleared, RegType, PowerBits, Prepared

(* The number of an event is one of six.                                   *)
LEMMA IdsTyped ==
  /\ POWERED_OFF_ID \in Ids /\ POWERED_ON_ID \in Ids
  /\ \A source \in {"button", "ac"} : Changed(source) \in Ids
BY DEF Ids, Changed, POWERED_OFF_ID, POWERED_ON_ID, POWER_BUTTON_PRESSED_ID,
       POWER_BUTTON_RELEASED_ID, AC_UNPLUGGED_ID, AC_CONNECTED_ID

(* The lowest flag is one that is set, and no other is lower.              *)
LEMMA LowestIsPending ==
  ASSUME NEW flags, flags \subseteq Ids, flags # {}
  PROVE  /\ Min(flags) \in flags
         /\ \A y \in flags : Min(flags) <= y
<1>1. \E x \in flags : \A y \in flags : x <= y
  <2>1. CASE 0 \in flags
    BY <2>1 DEF Ids
  <2>2. CASE 0 \notin flags /\ 1 \in flags
    BY <2>2 DEF Ids
  <2>3. CASE 0 \notin flags /\ 1 \notin flags /\ 2 \in flags
    BY <2>3 DEF Ids
  <2>4. CASE /\ 0 \notin flags /\ 1 \notin flags /\ 2 \notin flags
             /\ 3 \in flags
    BY <2>4 DEF Ids
  <2>5. CASE /\ 0 \notin flags /\ 1 \notin flags /\ 2 \notin flags
             /\ 3 \notin flags /\ 4 \in flags
    BY <2>5 DEF Ids
  <2>6. CASE /\ 0 \notin flags /\ 1 \notin flags /\ 2 \notin flags
             /\ 3 \notin flags /\ 4 \notin flags /\ 5 \in flags
    BY <2>6 DEF Ids
  <2>7. PICK x \in flags : TRUE
    OBVIOUS
  <2>8. x \in {0, 1, 2, 3, 4, 5}
    BY DEF Ids
  <2> QED
    BY <2>1, <2>2, <2>3, <2>4, <2>5, <2>6, <2>7, <2>8
<1> QED
  BY <1>1 DEF Min

(* Broadcasting keeps the type of the flags.                               *)
LEMMA BroadcastTyped ==
  ASSUME pending \subseteq Ids, NEW id \in Ids, Broadcast(id)
  PROVE  pending' \subseteq Ids
BY DEF Broadcast

-----------------------------------------------------------------------------
(* The types.                                                              *)

(* The initial values have their types.                                    *)
LEMMA InitTypes == Init => Types
<1> SUFFICES ASSUME Init PROVE Types
  OBVIOUS
<1>1. reg \in RegType
  BY RegistersTyped DEF Init
<1>2. slave.pc = "off" /\ slave.id = 0 /\ boot.pc = "open" /\ Shape
  BY DEF Init, Shape
<1>3. slave.pc \in SlaveLabels /\ slave.id \in Ids
  BY <1>2 DEF SlaveLabels, Ids
<1> QED
  BY <1>1, <1>2, <1>3 DEF Init, Types, SrTypeOK, At, RegType

(* What a step of the slave thread loads fits what it stores.              *)
LEMMA SlaveTypes == ASSUME Types, SlaveStep PROVE Types'
<1> USE DEF Types, SrTypeOK, Shape, At
<1>1. CASE Register
  BY <1>1 DEF Register, SlaveLabels
<1>2. CASE WaitOne
  <2>1. Min(pending) \in Ids
    BY <1>2, LowestIsPending DEF WaitOne
  <2> QED
    BY <1>2, <2>1 DEF WaitOne, SlaveLabels
<1>3. CASE LoadPower
  BY <1>3 DEF LoadPower, SlaveLabels
<1>4. CASE StorePower
  <2>1. Updated(slave.tmp, slave.id) \in PowerBits
    BY <1>4 DEF StorePower, Updated, PowerBits
  <2>2. reg' \in RegType
    BY <1>4, <2>1 DEF StorePower, RegType
  <2> QED
    BY <1>4, <2>2 DEF StorePower, SlaveLabels, RegType
<1>5. CASE TestEnable
  BY <1>5 DEF TestEnable, SlaveLabels
<1>6. CASE LoadStatus
  BY <1>6, StatusIsAValue DEF LoadStatus, SlaveLabels
<1>7. CASE StoreStatus
  <2>1. reg' \in RegType
    BY <1>7 DEF StoreStatus, RegType
  <2> QED
    BY <1>7, <2>1 DEF StoreStatus, SlaveLabels, RegType
<1>8. CASE TestStatus
  BY <1>8 DEF TestStatus, SlaveLabels
<1>9. CASE WritePin
  BY <1>9 DEF WritePin, SlaveLabels, Ids
<1> QED
  BY <1>1, <1>2, <1>3, <1>4, <1>5, <1>6, <1>7, <1>8, <1>9 DEF SlaveStep

(* A transaction of the host.                                              *)
LEMMA HostTypes == ASSUME Types, HostStep PROVE Types'
<1> USE DEF Types, SrTypeOK, Shape, At
<1>1. CASE HostReads
  <2>1. reg' \in RegType
    BY <1>1, RegistersTyped DEF HostReads, RegType
  <2> QED
    BY <1>1, <2>1 DEF HostReads, RegType
<1>2. ASSUME NEW wdt \in BOOLEAN, NEW off \in BOOLEAN,
             HostWritesPower(wdt, off)
      PROVE  Types'
  <2>1. reg' \in RegType /\ enabled' \in BOOLEAN
    BY <1>2, RegistersTyped DEF HostWritesPower, RegType
  <2>2. pin' \in BOOLEAN
    BY <1>2 DEF HostWritesPower, UpdateIrq
  <2>3. pending' \subseteq Ids
    BY <1>2, BroadcastTyped, IdsTyped DEF HostWritesPower
  <2>4. backup' \in [mask : SUBSET Irqs, on : BOOLEAN]
    BY <1>2 DEF HostWritesPower
  <2>5. raced' \in BOOLEAN
    BY <1>2 DEF HostWritesPower, Race
  <2> QED
    BY <1>2, <2>1, <2>2, <2>3, <2>4, <2>5 DEF HostWritesPower, RegType
<1>3. ASSUME NEW mask \in SUBSET Irqs, HostWritesEnable(mask)
      PROVE  Types'
  <2>1. Prepared(reg, enabled) \in RegType
    BY RegistersTyped DEF RegType
  <2>2. reg' \in RegType
    BY <1>3, <2>1 DEF HostWritesEnable, RegType
  <2>3. pin' \in BOOLEAN /\ raced' \in BOOLEAN
    BY <1>3 DEF HostWritesEnable, UpdateIrq, Race
  <2> QED
    BY <1>3, <2>2, <2>3 DEF HostWritesEnable, RegType
<1>4. ASSUME NEW kept \in SUBSET reg.irq_status, HostClearsStatus(kept)
      PROVE  Types'
  <2>1. Prepared(reg, enabled) \in RegType
    BY RegistersTyped DEF RegType
  <2>2. kept \in SUBSET Irqs
    OBVIOUS
  <2>3. reg' \in RegType
    BY <1>4, <2>1, <2>2 DEF HostClearsStatus, RegType
  <2>4. pin' \in BOOLEAN
    BY <1>4 DEF HostClearsStatus, UpdateIrq
  <2> QED
    BY <1>4, <2>3, <2>4 DEF HostClearsStatus, RegType
<1> QED
  BY <1>1, <1>2, <1>3, <1>4 DEF HostStep

(* The boot, a reset, and what happens outside.                            *)
LEMMA OtherTypes ==
  ASSUME Types,
         \/ SenokoSlaveInit \/ PowerInitLoad \/ PowerInitStore
         \/ \E source \in {"button", "ac"} \intersect Sources :
              InputChanges(source)
         \/ PowerChanges \/ WatchdogDisabled \/ Reset
  PROVE  Types'
<1> USE DEF Types, SrTypeOK, Shape, At
<1>1. CASE SenokoSlaveInit
  <2>1. reg' \in RegType
    BY <1>1 DEF SenokoSlaveInit, RegType, PowerBits
  <2> QED
    BY <1>1, <2>1 DEF SenokoSlaveInit, RegType, SlaveLabels
<1>2. CASE PowerInitLoad
  BY <1>2 DEF PowerInitLoad
<1>3. CASE PowerInitStore
  BY <1>3 DEF PowerInitStore
<1>4. ASSUME NEW source \in {"button", "ac"} \intersect Sources,
             InputChanges(source)
      PROVE  Types'
  <2>1. pending' \subseteq Ids
    BY <1>4, BroadcastTyped, IdsTyped DEF InputChanges
  <2>2. input' \in [button : BOOLEAN, ac : BOOLEAN]
    BY <1>4 DEF InputChanges
  <2>3. missed' \subseteq Sources
    BY <1>4 DEF InputChanges
  <2> QED
    BY <1>4, <2>1, <2>2, <2>3 DEF InputChanges
<1>5. CASE PowerChanges
  <2>1. pending' \subseteq Ids
    BY <1>5, BroadcastTyped, IdsTyped DEF PowerChanges
  <2>2. backup' \in [mask : SUBSET Irqs, on : BOOLEAN]
    BY <1>5 DEF PowerChanges
  <2>3. raced' \in BOOLEAN
    BY <1>5 DEF PowerChanges, Race
  <2> QED
    BY <1>5, <2>1, <2>2, <2>3 DEF PowerChanges
<1>6. CASE WatchdogDisabled
  BY <1>6 DEF WatchdogDisabled
<1>7. CASE Reset
  <2>1. reg' \in RegType
    BY <1>7, RegistersTyped DEF Reset
  <2>2. /\ slave'.pc = "off" /\ slave'.id = 0 /\ boot'.pc = "open"
        /\ Shape'
    BY <1>7 DEF Reset
  <2>3. slave'.pc \in SlaveLabels /\ slave'.id \in Ids
    BY <2>2 DEF SlaveLabels, Ids
  <2> QED
    BY <1>7, <2>1, <2>2, <2>3 DEF Reset, RegType
<1> QED
  BY <1>1, <1>2, <1>3, <1>4, <1>5, <1>6, <1>7

(* Every step keeps the types.                                             *)
LEMMA TypesKept == Types /\ [Next]_vars => Types'
<1> SUFFICES ASSUME Types, [Next]_vars PROVE Types'
  OBVIOUS
<1>1. CASE UNCHANGED vars
  BY <1>1 DEF vars, Types, SrTypeOK, Shape, At
<1> QED
  BY <1>1, SlaveTypes, HostTypes, OtherTypes DEF Next

(* The registers, the backup register and both threads keep their types,   *)
(* for every set of sources: what was loaded fits what is stored.          *)
THEOREM TypeCorrect == Spec => []SrTypeOK
<1>1. Types => SrTypeOK
  BY DEF Types
<1> QED
  BY InitTypes, TypesKept, <1>1, PTL DEF Spec


-----------------------------------------------------------------------------
(* The interrupt pin.                                                      *)
PinFollows ==
  reg.irq_status # {} =>
    /\ slave.pc \notin {"update_irq", "write_pin"} => pin
    /\ slave.pc = "write_pin" => slave.tmp

(* At first no bit is set.                                                 *)
LEMMA InitPin == Init => PinFollows
BY DEF Init, Cleared, PinFollows

(* The thread's own steps: a bit that it sets is followed by update_irq.   *)
LEMMA SlavePin == ASSUME Types, PinFollows, SlaveStep PROVE PinFollows'
<1> USE DEF Types, SrTypeOK, Shape, PinFollows, At
<1>1. CASE Register
  BY <1>1 DEF Register
<1>2. CASE WaitOne
  BY <1>2 DEF WaitOne
<1>3. CASE LoadPower
  BY <1>3 DEF LoadPower
<1>4. CASE StorePower
  BY <1>4 DEF StorePower
<1>5. CASE TestEnable
  BY <1>5 DEF TestEnable
<1>6. CASE LoadStatus
  BY <1>6 DEF LoadStatus
<1>7. CASE StoreStatus
  BY <1>7 DEF StoreStatus
<1>8. CASE TestStatus
  BY <1>8 DEF TestStatus
<1>9. CASE WritePin
  BY <1>9 DEF WritePin
<1> QED
  BY <1>1, <1>2, <1>3, <1>4, <1>5, <1>6, <1>7, <1>8, <1>9 DEF SlaveStep

(* A transaction of the host sets no bit, and if it clears one it writes   *)
(* the pin.                                                                *)
LEMMA HostPin == ASSUME Types, PinFollows, HostStep PROVE PinFollows'
<1> USE DEF Types, SrTypeOK, PinFollows, Prepared, UpdateIrq
<1>1. CASE HostReads
  BY <1>1 DEF HostReads
<1>2. ASSUME NEW wdt \in BOOLEAN, NEW off \in BOOLEAN,
             HostWritesPower(wdt, off)
      PROVE  PinFollows'
  BY <1>2 DEF HostWritesPower
<1>3. ASSUME NEW mask \in SUBSET Irqs, HostWritesEnable(mask)
      PROVE  PinFollows'
  BY <1>3 DEF HostWritesEnable
<1>4. ASSUME NEW kept \in SUBSET reg.irq_status, HostClearsStatus(kept)
      PROVE  PinFollows'
  BY <1>4 DEF HostClearsStatus
<1> QED
  BY <1>1, <1>2, <1>3, <1>4 DEF HostStep

(* No other step sets a bit or writes the pin, but for a reset.            *)
LEMMA PinKept == Types /\ PinFollows /\ [Next]_vars => PinFollows'
<1> SUFFICES ASSUME Types, PinFollows, [Next]_vars PROVE PinFollows'
  OBVIOUS
<1> USE DEF Types, SrTypeOK, Shape, PinFollows
<1>1. CASE SenokoSlaveInit
  BY <1>1 DEF SenokoSlaveInit
<1>2. CASE PowerInitLoad
  BY <1>2 DEF PowerInitLoad
<1>3. CASE PowerInitStore
  BY <1>3 DEF PowerInitStore
<1>4. CASE \E source \in {"button", "ac"} \intersect Sources :
             InputChanges(source)
  BY <1>4 DEF InputChanges
<1>5. CASE PowerChanges
  BY <1>5 DEF PowerChanges
<1>6. CASE WatchdogDisabled
  BY <1>6 DEF WatchdogDisabled
<1>7. CASE Reset
  BY <1>7 DEF Reset, Cleared
<1>8. CASE UNCHANGED vars
  BY <1>8 DEF vars
<1> QED
  BY <1>1, <1>2, <1>3, <1>4, <1>5, <1>6, <1>7, <1>8, SlavePin, HostPin
  DEF Next

(* Outside its handler the slave thread leaves the pin high whenever a     *)
(* status bit is set, wherever the host's transactions fell.               *)
THEOREM InterruptIsShown == Spec => []NoHiddenInterrupt
<1>1. PinFollows => NoHiddenInterrupt
  BY DEF PinFollows, NoHiddenInterrupt, At
<1> QED
  BY InitTypes, TypesKept, InitPin, PinKept, <1>1, PTL DEF Spec

-----------------------------------------------------------------------------
(* The mask in the backup register.                                        *)
MaskAgrees ==
  ~raced =>
    /\ boot.pc # "open" => backup.mask = reg.irq_enable
    /\ boot.pc = "store" => boot.tmp.mask = reg.irq_enable

(* At first nothing has been restored.                                     *)
LEMMA InitMask == Init => MaskAgrees
BY DEF Init, MaskAgrees

(* The slave thread leaves irq_enable alone; of the host's transactions    *)
(* the one that writes it saves it too.                                    *)
LEMMA SlaveMask == ASSUME Types, MaskAgrees, SlaveStep PROVE MaskAgrees'
<1>1. reg'.irq_enable = reg.irq_enable
  BY DEF SlaveStep, Types, SrTypeOK, Register, WaitOne, LoadPower, StorePower,
         TestEnable, LoadStatus, StoreStatus, TestStatus, WritePin
<1>2. UNCHANGED <<backup, boot, raced>>
  BY DEF SlaveStep, Register, WaitOne, LoadPower, StorePower, TestEnable,
         LoadStatus, StoreStatus, TestStatus, WritePin
<1> QED
  BY <1>1, <1>2 DEF MaskAgrees

(* Of the transactions of the host one changes the mask, in both places.   *)
LEMMA HostMask == ASSUME Types, MaskAgrees, HostStep PROVE MaskAgrees'
<1> USE DEF Types, SrTypeOK, MaskAgrees, Prepared, Race
<1>1. CASE HostReads
  BY <1>1 DEF HostReads
<1>2. ASSUME NEW wdt \in BOOLEAN, NEW off \in BOOLEAN,
             HostWritesPower(wdt, off)
      PROVE  MaskAgrees'
  BY <1>2 DEF HostWritesPower
<1>3. ASSUME NEW mask \in SUBSET Irqs, HostWritesEnable(mask)
      PROVE  MaskAgrees'
  BY <1>3 DEF HostWritesEnable
<1>4. ASSUME NEW kept \in SUBSET reg.irq_status, HostClearsStatus(kept)
      PROVE  MaskAgrees'
  BY <1>4 DEF HostClearsStatus
<1> QED
  BY <1>1, <1>2, <1>3, <1>4 DEF HostStep

(* A boot restores the mask; powerInit loses one only in a race.           *)
LEMMA MaskKept == Types /\ MaskAgrees /\ [Next]_vars => MaskAgrees'
<1> SUFFICES ASSUME Types, MaskAgrees, [Next]_vars PROVE MaskAgrees'
  OBVIOUS
<1> USE DEF Types, SrTypeOK, Shape, MaskAgrees, Race
<1>1. CASE SenokoSlaveInit
  BY <1>1 DEF SenokoSlaveInit
<1>2. CASE PowerInitLoad
  BY <1>2 DEF PowerInitLoad
<1>3. CASE PowerInitStore
  BY <1>3 DEF PowerInitStore
<1>4. CASE \E source \in {"button", "ac"} \intersect Sources :
             InputChanges(source)
  BY <1>4 DEF InputChanges
<1>5. CASE PowerChanges
  BY <1>5 DEF PowerChanges
<1>6. CASE WatchdogDisabled
  BY <1>6 DEF WatchdogDisabled
<1>7. CASE Reset
  BY <1>7 DEF Reset
<1>8. CASE UNCHANGED vars
  BY <1>8 DEF vars
<1> QED
  BY <1>1, <1>2, <1>3, <1>4, <1>5, <1>6, <1>7, <1>8, SlaveMask, HostMask
  DEF Next

(* The mask that a reset restores is the one the host has written, unless  *)
(* the write fell between powerInit's load and store.                      *)
THEOREM MaskIsSaved == Spec => []MaskSurvives
<1>1. MaskAgrees => MaskSurvives
  BY DEF MaskAgrees, MaskSurvives
<1> QED
  BY InitTypes, TypesKept, InitMask, MaskKept, <1>1, PTL DEF Spec


-----------------------------------------------------------------------------
(* What the host reads of two opposite events.                             *)

NoEvent == 6

Handled == IF slave.pc \in {"load", "store"} THEN slave.id ELSE NoEvent

(* While it is right to show the event hi of a pair, the other one, lo, is *)
(* never the last to be handled: of the pending flags, and of the one that *)
(* is being handled.                                                       *)
Leans(right, lo, hi, shown, flags, handled) ==
  right =>
    /\ lo \in flags \/ handled = lo => hi \in flags
    /\ ~shown => hi \in flags \/ handled = hi

(* The thread takes the lowest flag.                                       *)
LEMMA TakingLeans ==
  ASSUME NEW right \in BOOLEAN, NEW shown \in BOOLEAN,
         NEW lo \in Ids, NEW hi \in Ids, lo < hi,
         NEW flags \in SUBSET Ids, NEW m \in flags,
         \A y \in flags : m <= y,
         Leans(right, lo, hi, shown, flags, NoEvent)
  PROVE  Leans(right, lo, hi, shown, flags \ {m}, m)
<1> SUFFICES ASSUME right
             PROVE  /\ lo \in flags \ {m} \/ m = lo => hi \in flags \ {m}
                    /\ ~shown => hi \in flags \ {m} \/ m = hi
  BY DEF Leans
<1>1. lo \in Nat /\ hi \in Nat /\ m \in Nat
  BY DEF Ids
<1>2. NoEvent # lo /\ NoEvent # hi
  BY DEF NoEvent, Ids
<1>3. lo \in flags => m # hi
  BY <1>1
<1> QED
  BY <1>1, <1>2, <1>3 DEF Leans

OnLeans == Leans(backup.on /\ ~raced, POWERED_OFF_ID, POWERED_ON_ID,
                 reg.power.on, pending, Handled)

AcLeans == slave.pc # "off" =>
             Leans(input.ac /\ "ac" \notin missed, AC_UNPLUGGED_ID,
                   AC_CONNECTED_ID, reg.power.ac, pending, Handled)

ButtonLeans == slave.pc # "off" =>
                 Leans(~input.button /\ "button" \notin missed,
                       POWER_BUTTON_PRESSED_ID, POWER_BUTTON_RELEASED_ID,
                       ~reg.power.pressed, pending, Handled)

(* Nothing reaches the thread before it listens; the value that it is      *)
(* about to store differs from the register at most in the watchdog's bit; *)
(* and powerInit stores the state it has found.                            *)
Fresh ==
  /\ slave.pc \in {"off", "asleep"} => pending = {} /\ reg.power.on
  /\ slave.pc = "store" => /\ slave.tmp.on = reg.power.on
                           /\ slave.tmp.ac = reg.power.ac
                           /\ slave.tmp.pressed = reg.power.pressed
  /\ boot.pc = "store" /\ ~raced => boot.tmp.on = backup.on

AllLean == Fresh /\ OnLeans /\ AcLeans /\ ButtonLeans

(* What the identifiers are.                                               *)
LEMMA Pairs ==
  /\ POWERED_OFF_ID \in Ids /\ POWERED_ON_ID \in Ids
  /\ AC_UNPLUGGED_ID \in Ids /\ AC_CONNECTED_ID \in Ids
  /\ POWER_BUTTON_PRESSED_ID \in Ids /\ POWER_BUTTON_RELEASED_ID \in Ids
  /\ POWERED_OFF_ID < POWERED_ON_ID
  /\ AC_UNPLUGGED_ID < AC_CONNECTED_ID
  /\ POWER_BUTTON_PRESSED_ID < POWER_BUTTON_RELEASED_ID
  /\ POWERED_OFF_ID \notin {AC_UNPLUGGED_ID, POWER_BUTTON_PRESSED_ID}
  /\ POWERED_ON_ID \notin {AC_UNPLUGGED_ID, POWER_BUTTON_PRESSED_ID}
  /\ AC_UNPLUGGED_ID \notin {POWERED_OFF_ID, POWER_BUTTON_PRESSED_ID}
  /\ AC_CONNECTED_ID \notin {POWERED_OFF_ID, POWER_BUTTON_PRESSED_ID}
  /\ POWER_BUTTON_PRESSED_ID \notin {POWERED_OFF_ID, AC_UNPLUGGED_ID}
  /\ POWER_BUTTON_RELEASED_ID \notin {POWERED_OFF_ID, AC_UNPLUGGED_ID}
BY DEF Ids, POWERED_OFF_ID, POWERED_ON_ID, POWER_BUTTON_PRESSED_ID,
       POWER_BUTTON_RELEASED_ID, AC_UNPLUGGED_ID, AC_CONNECTED_ID

(* Before the thread listens there is nothing to lean.                     *)
LEMMA InitLeans == Init => AllLean
<1> SUFFICES ASSUME Init PROVE AllLean
  OBVIOUS
<1>1. slave.pc = "off" /\ pending = {} /\ reg.power.on /\ boot.pc = "open"
  BY DEF Init, Cleared
<1>2. Handled = NoEvent /\ NoEvent # POWERED_OFF_ID
  BY <1>1, Pairs DEF Handled, NoEvent, Ids
<1> QED
  BY <1>1, <1>2 DEF AllLean, Fresh, OnLeans, AcLeans, ButtonLeans, Leans

(* A flag is taken.                                                        *)
LEMMA WaitOneLeans == ASSUME Types, AllLean, WaitOne PROVE AllLean'
<1> DEFINE id == Min(pending)
<1>1. /\ pending \in SUBSET Ids /\ id \in pending
      /\ \A y \in pending : id <= y
  BY LowestIsPending DEF WaitOne, Types, SrTypeOK
<1>2. /\ Handled = NoEvent /\ Handled' = id /\ pending' = pending \ {id}
      /\ slave.pc # "off" /\ slave'.pc = "load"
      /\ UNCHANGED <<reg, backup, input, boot, missed, raced>>
  BY DEF WaitOne, At, Handled, Types, Shape
<1>3. reg.power \in PowerBits
  BY DEF Types, SrTypeOK
<1> HIDE DEF id
<1>4. Fresh'
  BY <1>2 DEF AllLean, Fresh
<1>5. OnLeans'
  <2>1. Leans(backup.on /\ ~raced, POWERED_OFF_ID, POWERED_ON_ID,
              reg.power.on, pending \ {id}, id)
    BY <1>1, <1>2, <1>3, Pairs, TakingLeans
       DEF AllLean, OnLeans, PowerBits, Types, SrTypeOK
  <2> QED
    BY <1>2, <2>1 DEF OnLeans
<1>6. AcLeans'
  <2>1. Leans(input.ac /\ "ac" \notin missed, AC_UNPLUGGED_ID,
              AC_CONNECTED_ID, reg.power.ac, pending \ {id}, id)
    BY <1>1, <1>2, <1>3, Pairs, TakingLeans
       DEF AllLean, AcLeans, PowerBits, Types, SrTypeOK
  <2> QED
    BY <1>2, <2>1 DEF AcLeans
<1>7. ButtonLeans'
  <2>1. Leans(~input.button /\ "button" \notin missed,
              POWER_BUTTON_PRESSED_ID, POWER_BUTTON_RELEASED_ID,
              ~reg.power.pressed, pending \ {id}, id)
    BY <1>1, <1>2, <1>3, Pairs, TakingLeans
       DEF AllLean, ButtonLeans, PowerBits, Types, SrTypeOK
  <2> QED
    BY <1>2, <2>1 DEF ButtonLeans
<1> QED
  BY <1>4, <1>5, <1>6, <1>7 DEF AllLean

(* A bit is stored.                                                        *)
LEMMA StorePowerLeans == ASSUME Types, AllLean, StorePower PROVE AllLean'
<1> DEFINE power == Updated(slave.tmp, slave.id)
<1>1. /\ slave.id = POWERED_ON_ID => power.on
      /\ slave.id # POWERED_OFF_ID /\ reg.power.on => power.on
      /\ slave.id = AC_CONNECTED_ID => power.ac
      /\ slave.id # AC_UNPLUGGED_ID /\ reg.power.ac => power.ac
      /\ slave.id = POWER_BUTTON_RELEASED_ID => ~power.pressed
      /\ slave.id # POWER_BUTTON_PRESSED_ID /\ ~reg.power.pressed
           => ~power.pressed
      /\ power \in PowerBits
  <2>1. /\ slave.tmp \in PowerBits
        /\ slave.tmp.on = reg.power.on
        /\ slave.tmp.ac = reg.power.ac
        /\ slave.tmp.pressed = reg.power.pressed
    BY DEF StorePower, At, AllLean, Fresh, Types, SrTypeOK
  <2>2. slave.id \in {0, 1, 2, 3, 4, 5}
    BY DEF Types, SrTypeOK, Ids
  <2> USE DEF Updated, PowerBits, POWERED_OFF_ID, POWERED_ON_ID,
              POWER_BUTTON_PRESSED_ID, POWER_BUTTON_RELEASED_ID,
              AC_UNPLUGGED_ID, AC_CONNECTED_ID
  <2>3. CASE slave.id \in {0, 1}
    <3>1. power = [slave.tmp EXCEPT !.pressed = slave.id = 0]
      BY <2>3
    <3>2. /\ power.pressed = (slave.id = 0)
          /\ power.on = reg.power.on /\ power.ac = reg.power.ac
      BY <2>1, <3>1
    <3>3. power \in PowerBits
      BY <2>1, <3>1
    <3> QED
      BY <2>3, <3>2, <3>3
  <2>4. CASE slave.id \in {2, 3}
    <3>1. power = [slave.tmp EXCEPT !.ac = slave.id = 3]
      BY <2>4
    <3>2. /\ power.ac = (slave.id = 3)
          /\ power.on = reg.power.on /\ power.pressed = reg.power.pressed
      BY <2>1, <3>1
    <3>3. power \in PowerBits
      BY <2>1, <3>1
    <3> QED
      BY <2>4, <3>2, <3>3
  <2>5. CASE slave.id \in {4, 5}
    <3>1. power = [slave.tmp EXCEPT !.on = slave.id = 5]
      BY <2>5
    <3>2. /\ power.on = (slave.id = 5)
          /\ power.ac = reg.power.ac /\ power.pressed = reg.power.pressed
      BY <2>1, <3>1
    <3>3. power \in PowerBits
      BY <2>1, <3>1
    <3> QED
      BY <2>5, <3>2, <3>3
  <2> QED
    BY <2>2, <2>3, <2>4, <2>5
<1>2. /\ Handled = slave.id /\ Handled' = NoEvent /\ reg'.power = power
      /\ slave.pc # "off" /\ slave'.pc \in {"update_irq", "enable"}
      /\ UNCHANGED <<pending, backup, input, boot, missed, raced>>
  BY DEF StorePower, At, Handled, Types, SrTypeOK, Shape
<1>3. /\ reg.power \in PowerBits /\ slave.id \in Ids
      /\ pending \in SUBSET Ids
  BY DEF Types, SrTypeOK
<1> HIDE DEF power
<1>4. Fresh'
  BY <1>2 DEF AllLean, Fresh
<1>5. OnLeans'
  <2>1. Leans(backup.on /\ ~raced, POWERED_OFF_ID, POWERED_ON_ID,
              reg.power.on, pending, slave.id)
    BY <1>2 DEF AllLean, OnLeans
  <2>2. NoEvent # POWERED_OFF_ID
    BY DEF NoEvent, POWERED_OFF_ID
  <2>3. Leans(backup.on /\ ~raced, POWERED_OFF_ID, POWERED_ON_ID,
              power.on, pending, NoEvent)
    BY <1>1, <2>1, <2>2 DEF Leans
  <2> QED
    BY <1>2, <2>3 DEF OnLeans
<1>6. AcLeans'
  <2>1. Leans(input.ac /\ "ac" \notin missed, AC_UNPLUGGED_ID, AC_CONNECTED_ID,
              reg.power.ac, pending, slave.id)
    BY <1>2 DEF AllLean, AcLeans
  <2>2. NoEvent # AC_UNPLUGGED_ID
    BY DEF NoEvent, AC_UNPLUGGED_ID
  <2>3. Leans(input.ac /\ "ac" \notin missed, AC_UNPLUGGED_ID, AC_CONNECTED_ID,
              power.ac, pending, NoEvent)
    BY <1>1, <2>1, <2>2 DEF Leans
  <2> QED
    BY <1>2, <2>3 DEF AcLeans
<1>7. ButtonLeans'
  <2>1. Leans(~input.button /\ "button" \notin missed,
              POWER_BUTTON_PRESSED_ID, POWER_BUTTON_RELEASED_ID,
              ~reg.power.pressed, pending, slave.id)
    BY <1>2 DEF AllLean, ButtonLeans
  <2>2. NoEvent # POWER_BUTTON_PRESSED_ID
    BY DEF NoEvent, POWER_BUTTON_PRESSED_ID
  <2>3. Leans(~input.button /\ "button" \notin missed,
              POWER_BUTTON_PRESSED_ID, POWER_BUTTON_RELEASED_ID,
              ~power.pressed, pending, NoEvent)
    BY <1>1, <2>1, <2>2 DEF Leans
  <2> QED
    BY <1>2, <2>3 DEF ButtonLeans
<1> QED
  BY <1>4, <1>5, <1>6, <1>7 DEF AllLean

(* The other steps of the thread change none of these.                     *)
LEMMA SlaveLeans == ASSUME Types, AllLean, SlaveStep PROVE AllLean'
<1> USE DEF Types, SrTypeOK, Shape, At, AllLean, Fresh, OnLeans, AcLeans,
            ButtonLeans, Handled
<1>1. CASE Register
  <2>1. /\ Handled' = Handled /\ slave.pc = "asleep"
        /\ slave'.pc = "wait" /\ boot.pc # "open"
        /\ UNCHANGED <<reg, pending, backup, input, boot, missed, raced>>
    BY <1>1 DEF Register
  <2> QED
    BY <2>1
<1>2. CASE LoadPower
  <2>1. /\ Handled' = Handled /\ slave.pc = "load"
        /\ slave'.pc = "store" /\ slave'.tmp = reg.power
        /\ UNCHANGED <<reg, pending, backup, input, boot, missed, raced>>
    BY <1>2 DEF LoadPower
  <2> QED
    BY <2>1
<1>3. ASSUME TestEnable \/ LoadStatus \/ StoreStatus \/ TestStatus \/ WritePin
      PROVE  AllLean'
  <2>1. /\ Handled = NoEvent /\ Handled' = NoEvent
        /\ slave.pc \notin {"off", "asleep"}
        /\ slave'.pc \notin {"off", "asleep", "store"}
        /\ reg'.power = reg.power
        /\ UNCHANGED <<pending, backup, input, boot, missed, raced>>
    <3>1. CASE TestEnable
      BY <3>1 DEF TestEnable
    <3>2. CASE LoadStatus
      BY <3>2 DEF LoadStatus
    <3>3. CASE StoreStatus
      BY <3>3 DEF StoreStatus
    <3>4. CASE TestStatus
      BY <3>4 DEF TestStatus
    <3>5. CASE WritePin
      BY <3>5 DEF WritePin
    <3> QED
      BY <1>3, <3>1, <3>2, <3>3, <3>4, <3>5
  <2> QED
    BY <2>1
<1> QED
  BY <1>1, <1>2, <1>3, WaitOneLeans, StorePowerLeans DEF SlaveStep

(* An event of the power state, from power.c or from a command of the      *)
(* host, follows the state.                                                *)
LEMMA PowerLeans ==
  ASSUME Types, AllLean,
         UNCHANGED <<input, slave, boot, missed>>,
         reg'.power.on = reg.power.on, reg'.power.ac = reg.power.ac,
         reg'.power.pressed = reg.power.pressed,
         NEW on \in BOOLEAN, backup'.on = on,
         boot.pc = "store" => raced',
         raced => raced',
         Broadcast(IF on THEN POWERED_ON_ID ELSE POWERED_OFF_ID)
  PROVE  AllLean'
<1> DEFINE id == IF on THEN POWERED_ON_ID ELSE POWERED_OFF_ID
<1>1. /\ pending \in SUBSET Ids /\ Handled \in Ids \union {NoEvent}
      /\ Handled' = Handled
  BY DEF Types, SrTypeOK, Handled
<1>2. /\ id \in Ids \ {AC_UNPLUGGED_ID}
      /\ id \in Ids \ {POWER_BUTTON_PRESSED_ID}
  BY Pairs
<1>3. CASE slave.pc \in {"off", "asleep"}
  <2>1. pending' = pending /\ pending = {} /\ reg.power.on
    BY <1>3 DEF Broadcast, AllLean, Fresh
  <2>2. Handled' = NoEvent /\ NoEvent # POWERED_OFF_ID
    BY <1>3 DEF Handled, NoEvent, POWERED_OFF_ID
  <2> QED
    BY <2>1, <2>2, <1>1
       DEF AllLean, Fresh, OnLeans, AcLeans, ButtonLeans, Leans
<1>4. CASE slave.pc \notin {"off", "asleep"}
  <2>1. pending' = pending \union {id}
    BY <1>4 DEF Broadcast
  <2>2. Fresh'
    BY <1>4 DEF AllLean, Fresh
  <2>3. OnLeans'
    <3>1. CASE on
      BY <3>1, <2>1, <1>1 DEF OnLeans, Leans
    <3>2. CASE ~on
      BY <3>2 DEF OnLeans, Leans
    <3> QED
      BY <3>1, <3>2
  <2>4. AcLeans'
    BY <1>1, <1>2, <1>4, <2>1 DEF AllLean, AcLeans, Leans
  <2>5. ButtonLeans'
    BY <1>1, <1>2, <1>4, <2>1 DEF AllLean, ButtonLeans, Leans
  <2> QED
    BY <2>2, <2>3, <2>4, <2>5 DEF AllLean
<1> QED
  BY <1>3, <1>4

(* Steps that touch none of the bits nor the state that they show.         *)
LEMMA ShownKept ==
  ASSUME AllLean,
         UNCHANGED <<input, slave, missed, pending>>,
         reg'.power.on = reg.power.on, reg'.power.ac = reg.power.ac,
         reg'.power.pressed = reg.power.pressed,
         backup'.on = backup.on, raced => raced',
         boot'.pc = "store" => boot' = boot \/ boot'.tmp.on = backup.on
  PROVE  AllLean'
BY DEF AllLean, Fresh, OnLeans, AcLeans, ButtonLeans, Leans, Handled

(* The transactions of the host change no bit that an event changes.       *)
LEMMA HostLeans == ASSUME Types, AllLean, HostStep PROVE AllLean'
<1> USE DEF Types, SrTypeOK, Shape, Prepared
<1>1. CASE HostReads
  <2>1. /\ reg'.power.on = reg.power.on /\ reg'.power.ac = reg.power.ac
        /\ reg'.power.pressed = reg.power.pressed
    BY <1>1 DEF HostReads, PowerBits
  <2> QED
    BY <1>1, <2>1, ShownKept DEF HostReads
<1>2. ASSUME NEW wdt \in BOOLEAN, NEW off \in BOOLEAN,
             HostWritesPower(wdt, off)
      PROVE  AllLean'
  <2>1. /\ reg'.power.on = reg.power.on /\ reg'.power.ac = reg.power.ac
        /\ reg'.power.pressed = reg.power.pressed
        /\ UNCHANGED <<input, slave, boot, missed>>
    BY <1>2 DEF HostWritesPower, PowerBits
  <2>2. CASE ~off
    <3>1. UNCHANGED <<backup, pending, raced>>
      BY <1>2, <2>2 DEF HostWritesPower
    <3> QED
      BY <2>1, <3>1, ShownKept
  <2>3. CASE off
    <3>1. /\ backup'.on = FALSE /\ Broadcast(POWERED_OFF_ID)
          /\ boot.pc = "store" => raced'
          /\ raced => raced'
      BY <1>2, <2>3 DEF HostWritesPower, Race
    <3> QED
      BY <2>1, <3>1, PowerLeans
  <2> QED
    BY <2>2, <2>3
<1>3. ASSUME NEW mask \in SUBSET Irqs, HostWritesEnable(mask)
      PROVE  AllLean'
  <2>1. /\ reg'.power.on = reg.power.on /\ reg'.power.ac = reg.power.ac
        /\ reg'.power.pressed = reg.power.pressed
        /\ backup'.on = backup.on /\ (raced => raced')
    BY <1>3 DEF HostWritesEnable, PowerBits, Race
  <2> QED
    BY <1>3, <2>1, ShownKept DEF HostWritesEnable
<1>4. ASSUME NEW kept \in SUBSET reg.irq_status, HostClearsStatus(kept)
      PROVE  AllLean'
  <2>1. /\ reg'.power.on = reg.power.on /\ reg'.power.ac = reg.power.ac
        /\ reg'.power.pressed = reg.power.pressed
    BY <1>4 DEF HostClearsStatus, PowerBits
  <2> QED
    BY <1>4, <2>1, ShownKept DEF HostClearsStatus
<1> QED
  BY <1>1, <1>2, <1>3, <1>4 DEF HostStep

(* The events of an input follow the input.                                *)
LEMMA InputLeans ==
  ASSUME Types, AllLean, NEW source \in {"button", "ac"} \intersect Sources,
         InputChanges(source)
  PROVE  AllLean'
<1>1. /\ UNCHANGED <<reg, backup, enabled, slave, boot, raced>>
      /\ Handled' = Handled
  BY DEF InputChanges, Handled
<1>2. Fresh'
  BY <1>1 DEF InputChanges, AllLean, Fresh, Broadcast
<1>3. CASE slave.pc = "off"
  BY <1>1, <1>2, <1>3 DEF InputChanges, Broadcast, AllLean, OnLeans, AcLeans,
                          ButtonLeans
<1>4. CASE slave.pc = "asleep"
  <2>1. pending' = pending /\ missed' = missed \union {source}
    BY <1>4 DEF InputChanges, Broadcast
  <2>2. OnLeans'
    BY <1>1, <2>1 DEF AllLean, OnLeans
  <2>3. CASE source = "ac"
    <3>1. AcLeans'
      BY <2>1, <2>3 DEF AcLeans, Leans
    <3>2. /\ input'.button = input.button
          /\ "button" \in missed <=> "button" \in missed'
      BY <2>1, <2>3 DEF InputChanges, Types, SrTypeOK
    <3>3. ButtonLeans'
      BY <1>1, <2>1, <3>2 DEF AllLean, ButtonLeans, Leans
    <3> QED
      BY <1>2, <2>2, <3>1, <3>3 DEF AllLean
  <2>4. CASE source = "button"
    <3>1. ButtonLeans'
      BY <2>1, <2>4 DEF ButtonLeans, Leans
    <3>2. /\ input'.ac = input.ac
          /\ "ac" \in missed <=> "ac" \in missed'
      BY <2>1, <2>4 DEF InputChanges, Types, SrTypeOK
    <3>3. AcLeans'
      BY <1>1, <2>1, <3>2 DEF AllLean, AcLeans, Leans
    <3> QED
      BY <1>2, <2>2, <3>1, <3>3 DEF AllLean
  <2> QED
    BY <2>3, <2>4
<1>5. CASE slave.pc \notin {"off", "asleep"}
  <2> DEFINE id == Changed(source)
  <2>1. pending' = pending \union {id} /\ missed' = missed
    BY <1>5 DEF InputChanges, Broadcast
  <2>2. CASE source = "ac"
    <3>1. /\ input'.ac = ~input.ac /\ input'.button = input.button
          /\ id = IF input.ac THEN AC_UNPLUGGED_ID ELSE AC_CONNECTED_ID
      BY <2>2 DEF InputChanges, Types, SrTypeOK, Changed
    <3>2. id # POWERED_OFF_ID /\ id # POWER_BUTTON_PRESSED_ID
      BY <3>1, Pairs
    <3> HIDE DEF id
    <3>3. OnLeans'
      BY <1>1, <1>5, <2>1, <3>2 DEF AllLean, OnLeans, Leans
    <3>4. ButtonLeans'
      BY <1>1, <1>5, <2>1, <3>1, <3>2 DEF AllLean, ButtonLeans, Leans
    <3>5. AcLeans'
      BY <1>1, <1>5, <2>1, <3>1 DEF AllLean, AcLeans, Leans
    <3> QED
      BY <1>2, <3>3, <3>4, <3>5 DEF AllLean
  <2>3. CASE source = "button"
    <3>1. /\ input'.button = ~input.button /\ input'.ac = input.ac
          /\ id = IF input.button THEN POWER_BUTTON_RELEASED_ID
                  ELSE POWER_BUTTON_PRESSED_ID
      BY <2>3 DEF InputChanges, Types, SrTypeOK, Changed
    <3>2. id # POWERED_OFF_ID /\ id # AC_UNPLUGGED_ID
      BY <3>1, Pairs
    <3> HIDE DEF id
    <3>3. OnLeans'
      BY <1>1, <1>5, <2>1, <3>2 DEF AllLean, OnLeans, Leans
    <3>4. AcLeans'
      BY <1>1, <1>5, <2>1, <3>1, <3>2 DEF AllLean, AcLeans, Leans
    <3>5. ButtonLeans'
      BY <1>1, <1>5, <2>1, <3>1 DEF AllLean, ButtonLeans, Leans
    <3> QED
      BY <1>2, <3>3, <3>4, <3>5 DEF AllLean
  <2> QED
    BY <2>2, <2>3
<1> QED
  BY <1>3, <1>4, <1>5

(* Every step keeps what the four conjuncts of AllLean say.                *)
LEMMA LeansKept == Types /\ AllLean /\ [Next]_vars => AllLean'
<1> SUFFICES ASSUME Types, AllLean, [Next]_vars PROVE AllLean'
  OBVIOUS
<1>1. CASE SenokoSlaveInit
  <2>1. /\ slave.pc = "off" /\ slave'.pc = "asleep" /\ pending' = {}
        /\ boot'.pc = "power" /\ Handled' = NoEvent
        /\ reg'.power = [on |-> TRUE, wdt |-> FALSE, ac |-> input.ac,
                         pressed |-> input.button]
        /\ input' = input
    BY <1>1 DEF SenokoSlaveInit, Types, SrTypeOK, Shape, AllLean, Fresh,
                Handled
  <2>2. /\ NoEvent # POWERED_OFF_ID /\ NoEvent # AC_UNPLUGGED_ID
        /\ NoEvent # POWER_BUTTON_PRESSED_ID
    BY DEF NoEvent, POWERED_OFF_ID, AC_UNPLUGGED_ID, POWER_BUTTON_PRESSED_ID
  <2> QED
    BY <2>1, <2>2 DEF AllLean, Fresh, OnLeans, AcLeans, ButtonLeans, Leans
<1>2. CASE PowerInitLoad
  <2>1. boot'.tmp = backup
    BY <1>2 DEF PowerInitLoad
  <2> QED
    BY <1>2, <2>1, ShownKept DEF PowerInitLoad
<1>3. CASE PowerInitStore
  <2>1. backup'.on = backup.on \/ raced
    BY <1>3 DEF PowerInitStore, AllLean, Fresh
  <2>2. boot'.pc = "done"
    BY <1>3 DEF PowerInitStore
  <2> QED
    BY <1>3, <2>1, <2>2
       DEF PowerInitStore, AllLean, Fresh, OnLeans, AcLeans, ButtonLeans,
           Leans, Handled
<1>4. CASE \E source \in {"button", "ac"} \intersect Sources :
             InputChanges(source)
  BY <1>4, InputLeans
<1>5. CASE PowerChanges
  <2> DEFINE on == ~backup.on
  <2>1. /\ backup'.on = on /\ on \in BOOLEAN
        /\ Broadcast(IF on THEN POWERED_ON_ID ELSE POWERED_OFF_ID)
    BY <1>5 DEF PowerChanges, Types, SrTypeOK
  <2>2. (boot.pc = "store" => raced') /\ (raced => raced')
    BY <1>5 DEF PowerChanges, Race
  <2>3. UNCHANGED <<reg, input, slave, boot, missed>>
    BY <1>5 DEF PowerChanges
  <2> QED
    BY <2>1, <2>2, <2>3, PowerLeans
<1>6. CASE WatchdogDisabled
  BY <1>6, ShownKept DEF WatchdogDisabled
<1>7. CASE Reset
  <2>1. /\ slave'.pc = "off" /\ pending' = {} /\ reg'.power.on
        /\ boot'.pc = "open" /\ Handled' = NoEvent
    BY <1>7 DEF Reset, Cleared, Handled
  <2>2. NoEvent # POWERED_OFF_ID
    BY DEF NoEvent, POWERED_OFF_ID
  <2> QED
    BY <2>1, <2>2 DEF AllLean, Fresh, OnLeans, AcLeans, ButtonLeans, Leans
<1>8. CASE UNCHANGED vars
  BY <1>8, ShownKept DEF vars
<1> QED
  BY <1>1, <1>2, <1>3, <1>4, <1>5, <1>6, <1>7, <1>8, SlaveLeans, HostLeans
  DEF Next

(* Once every event is handled a board that is on is shown as on, an       *)
(* adapter that is plugged in as such, and a button that is not pressed,   *)
(* although the flags keep no order.                                       *)
THEOREM StatusAlwaysLeans == Spec => []StatusLeans
<1>1. Types /\ AllLean => StatusLeans
  <2> SUFFICES ASSUME Types, AllLean, slave.pc = "wait", pending = {}
               PROVE  /\ backup.on /\ ~raced => reg.power.on
                      /\ input.ac /\ "ac" \notin missed => reg.power.ac
                      /\ ~input.button /\ "button" \notin missed =>
                           ~reg.power.pressed
    BY DEF StatusLeans, At
  <2>1. /\ Handled # POWERED_ON_ID /\ Handled # AC_CONNECTED_ID
        /\ Handled # POWER_BUTTON_RELEASED_ID
    BY DEF Handled, NoEvent, POWERED_OFF_ID, POWERED_ON_ID, AC_CONNECTED_ID,
           POWER_BUTTON_RELEASED_ID
  <2> QED
    BY <2>1 DEF AllLean, OnLeans, AcLeans, ButtonLeans, Leans
<1> QED
  BY InitTypes, TypesKept, InitLeans, LeansKept, <1>1, PTL DEF Spec
=============================================================================
