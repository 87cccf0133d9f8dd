--------------------------- MODULE SlaveRegisters ---------------------------
(***************************************************************************)
(* src/senoko/senoko-slave.c: the registers that the mainboard reads and   *)
(* writes over I2C, and the pin that interrupts it.                        *)
(*                                                                         *)
(* The I2C interrupt carries out the host's transactions, each a step that *)
(* nothing preempts.  The slave thread turns events into status bits with  *)
(* loads and stores of the same bytes, one step each, so that transactions *)
(* come in between.  The interrupt mask is kept in the upper byte of the   *)
(* backup register, whose lower byte holds the state of power.c: powerInit *)
(* rewrites the whole register without a lock while the host may talk.     *)
(***************************************************************************)
EXTENDS FiniteSetsExt, Naturals

CONSTANTS
  Sources,   \* which events occur: "button", "ac", "power"
  None       \* no value: nothing has been loaded

ASSUME SourcesAssumption == Sources \subseteq {"button", "ac", "power"}

ASSUME NoneAssumption == \A s \in SUBSET {"keypad", "power"} : None # s

VARIABLES
  reg,      \* the registers power, irq_enable and irq_status
  pin,      \* PA0, which interrupts the mainboard
  backup,   \* the backup register: the mask, and the bit of power.c
  enabled,  \* the host watchdog is enabled
  input,    \* the debounced inputs: button is pressed, ac is plugged in
  pending,  \* the event flags of the slave thread
  slave,    \* the slave thread: its point, event and loaded value
  boot,     \* the main thread: its point in the boot and loaded value
  missed,   \* inputs that changed since the boot read them and before the
            \* thread listened (history)
  raced     \* powerInit undid a write of the backup register (history)

vars == <<reg, pin, backup, enabled, input, pending, slave, boot, missed,
          raced>>

\* The bits of irq_enable and irq_status that these sources use.
Irqs == {i \in {"keypad", "power"} :
           IF i = "keypad" THEN "button" \in Sources ELSE "ac" \in Sources}

POWER_BUTTON_PRESSED_ID == 0
POWER_BUTTON_RELEASED_ID == 1
AC_UNPLUGGED_ID == 2
AC_CONNECTED_ID == 3

(* Mutant: the two identifiers are swapped.                                *)
POWERED_OFF_LAST == 5

POWERED_OFF_ID == 4

\* The other number of the last pair.
POWERED_ON_ID == 9 - POWERED_OFF_ID

Ids == 0 .. 5

Irq(id) == IF id \in {POWER_BUTTON_PRESSED_ID, POWER_BUTTON_RELEASED_ID}
           THEN "keypad" ELSE "power"

\* chEvtBroadcastI, which reaches the thread once it is registered.
Broadcast(id) ==
  pending' = IF slave.pc \in {"off", "asleep"} THEN pending
                                               ELSE pending \union {id}

\* A change of the backup register between powerInit's load and store.
Race == raced' = (raced \/ boot.pc = "store")

\* No thread is above the main thread: the slave thread waits.
SlaveBlocked == \/ slave.pc \in {"off", "asleep"}
                \/ slave.pc = "wait" /\ pending = {}

-----------------------------------------------------------------------------
Cleared == [power |-> [on |-> TRUE, wdt |-> FALSE, ac |-> FALSE,
                       pressed |-> FALSE],
            irq_enable |-> {}, irq_status |-> {}]

Init ==
  /\ reg = Cleared
  /\ pin = FALSE
  /\ backup = [mask |-> {}, on |-> TRUE]
  /\ enabled = FALSE
  /\ input = [button |-> FALSE, ac |-> FALSE]
  /\ pending = {}
  /\ slave = [pc |-> "off", id |-> 0, tmp |-> None]
  /\ boot = [pc |-> "open", tmp |-> None]
  /\ missed = {}
  /\ raced = FALSE

\* Only the backup register survives; the host may talk from
\* senokoI2cInit on, which comes before everything else here.
Reset ==
  /\ reg' = Cleared
  /\ pin' = FALSE
  /\ enabled' = FALSE
  /\ pending' = {}
  /\ slave' = [pc |-> "off", id |-> 0, tmp |-> None]
  /\ boot' = [pc |-> "open", tmp |-> None]
  /\ missed' = {}
  /\ UNCHANGED <<backup, input, raced>>

SenokoSlaveInit ==
  /\ boot.pc = "open"
  /\ boot' = [boot EXCEPT !.pc = "power"]
  /\ reg' = [reg EXCEPT
       !.power = [on |-> TRUE, wdt |-> FALSE, ac |-> input.ac,
                  pressed |-> input.button],
       !.irq_enable = backup.mask]
  /\ slave' = [slave EXCEPT !.pc = "asleep"]
  /\ raced' = FALSE
  /\ UNCHANGED <<pin, backup, enabled, input, pending, missed>>

\* powerInit: power_set_state_x with the state just read.
PowerInitLoad ==
  /\ boot.pc = "power"
  /\ SlaveBlocked
  /\ boot' = [pc |-> "store", tmp |-> backup]
  /\ UNCHANGED <<reg, pin, backup, enabled, input, pending, slave, missed,
                 raced>>

(* Mutant: the new value is built from the state and the signature alone.  *)
PowerInitStoreDropsMask ==
  /\ boot.pc = "store"
  /\ SlaveBlocked
  /\ backup' = [boot.tmp EXCEPT !.mask = {}]
  /\ boot' = [pc |-> "done", tmp |-> None]
  /\ UNCHANGED <<reg, pin, enabled, input, pending, slave, missed, raced>>

PowerInitStore ==
  /\ boot.pc = "store"
  /\ SlaveBlocked
  /\ backup' = boot.tmp
  /\ boot' = [pc |-> "done", tmp |-> None]
  /\ UNCHANGED <<reg, pin, enabled, input, pending, slave, missed, raced>>

-----------------------------------------------------------------------------
(* What happens outside, and reaches the thread as events.                 *)

Changed(source) ==
  CASE source = "button" -> IF input.button THEN POWER_BUTTON_RELEASED_ID
                                            ELSE POWER_BUTTON_PRESSED_ID
    [] source = "ac"     -> IF input.ac THEN AC_UNPLUGGED_ID
                                        ELSE AC_CONNECTED_ID

InputChanges(source) ==
  /\ input' = [input EXCEPT ![source] = ~@]
  /\ Broadcast(Changed(source))
  /\ missed' = IF slave.pc = "asleep" THEN missed \union {source}
                                      ELSE missed
  /\ UNCHANGED <<reg, pin, backup, enabled, slave, boot, raced>>

\* power.c switches in a locked section, for one of its other callers.  A
\* power-off disables the watchdog, at once or a little later.
PowerChanges ==
  /\ "power" \in Sources
  /\ backup' = [backup EXCEPT !.on = ~@]
  /\ Broadcast(IF backup.on THEN POWERED_OFF_ID ELSE POWERED_ON_ID)
  /\ Race
  /\ UNCHANGED <<reg, pin, enabled, input, slave, boot, missed>>

WatchdogDisabled ==
  /\ enabled' = FALSE
  /\ UNCHANGED <<reg, pin, backup, input, pending, slave, boot, missed,
                 raced>>

-----------------------------------------------------------------------------
(* The I2C interrupt.  Every transaction begins, and every write ends,     *)
(* with senokoSlavePrepTransaction, which renews the watchdog bit; a write *)
(* ends with update_irq.                                                   *)

HostTalks == backup.on

Prepared(r, w) == [r EXCEPT !.power.wdt = w]

UpdateIrq == pin' = (reg'.irq_status # {})

HostReads ==
  /\ HostTalks
  /\ reg' = Prepared(reg, enabled)
  /\ UNCHANGED <<pin, backup, enabled, input, pending, slave, boot, missed,
                 raced>>

\* REG_POWER with the key: powerOffI disables the watchdog again.
HostWritesPower(wdt, off) ==
  /\ HostTalks
  /\ off => "power" \in Sources
  /\ enabled' = (wdt /\ ~off)
  /\ reg' = Prepared(reg, enabled')
  /\ UpdateIrq
  /\ IF off
     THEN /\ backup' = [backup EXCEPT !.on = FALSE]
          /\ Broadcast(POWERED_OFF_ID)
          /\ Race
     ELSE UNCHANGED <<backup, pending, raced>>
  /\ UNCHANGED <<input, slave, boot, missed>>

\* REG_IRQ_ENABLE, saved in the upper byte of the backup register.
HostWritesEnable(mask) ==
  /\ HostTalks
  /\ backup' = [backup EXCEPT !.mask = mask]
  /\ reg' = [Prepared(reg, enabled) EXCEPT !.irq_enable = mask]
  /\ UpdateIrq
  /\ Race
  /\ UNCHANGED <<enabled, input, pending, slave, boot, missed>>

\* REG_IRQ_STATUS: the register becomes what is written.  That the host
\* clears bits and sets none is an assumption about the host: README.md says
\* "Write 0 to clear a IRQs", and the code would store any byte.
HostClearsStatus(kept) ==
  /\ HostTalks
  /\ kept \subseteq reg.irq_status
  /\ reg' = [Prepared(reg, enabled) EXCEPT !.irq_status = kept]
  /\ UpdateIrq
  /\ UNCHANGED <<backup, enabled, input, pending, slave, boot, missed,
                 raced>>

-----------------------------------------------------------------------------
(* The slave thread.                                                       *)

At(label) == slave.pc = label

\* After 300 ms, the six calls of chEvtRegister.
Register ==
  /\ At("asleep")
  /\ slave' = [slave EXCEPT !.pc = "wait"]
  /\ UNCHANGED <<reg, pin, backup, enabled, input, pending, boot, missed,
                 raced>>

(* Mutant: chEvtWaitAny, of whose flags only the last one is handled.      *)
WaitAny ==
  /\ At("wait")
  /\ pending # {}
  /\ slave' = [pc |-> "load", id |-> Max(pending), tmp |-> None]
  /\ pending' = {}
  /\ UNCHANGED <<reg, pin, backup, enabled, input, boot, missed, raced>>

\* chEvtWaitOne: the flag with the lowest number.
WaitOne ==
  /\ At("wait")
  /\ pending # {}
  /\ slave' = [pc |-> "load", id |-> Min(pending), tmp |-> None]
  /\ pending' = pending \ {Min(pending)}
  /\ UNCHANGED <<reg, pin, backup, enabled, input, boot, missed, raced>>

\* registers.power |= or &= one bit, or power_event's two assignments.
LoadPower ==
  /\ At("load")
  /\ slave' = [slave EXCEPT !.pc = "store", !.tmp = reg.power]
  /\ UNCHANGED <<reg, pin, backup, enabled, input, pending, boot, missed,
                 raced>>

Updated(power, id) ==
  CASE id \in {POWER_BUTTON_PRESSED_ID, POWER_BUTTON_RELEASED_ID} ->
         [power EXCEPT !.pressed = id = POWER_BUTTON_PRESSED_ID]
    [] id \in {AC_UNPLUGGED_ID, AC_CONNECTED_ID} ->
         [power EXCEPT !.ac = id = AC_CONNECTED_ID]
    [] OTHER -> [power EXCEPT !.on = id = POWERED_ON_ID]

StorePower ==
  /\ At("store")
  /\ reg' = [reg EXCEPT !.power = Updated(slave.tmp, slave.id)]
  /\ slave' = [slave EXCEPT !.tmp = None,
       !.pc = IF slave.id \in {POWERED_OFF_ID, POWERED_ON_ID}
              THEN "update_irq" ELSE "enable"]
  /\ UNCHANGED <<pin, backup, enabled, input, pending, boot, missed, raced>>

(* Mutant: the bit is stored over whatever value the thread holds.         *)
TestEnableThenStore ==
  /\ At("enable")
  /\ slave' = [slave EXCEPT !.pc = IF Irq(slave.id) \in reg.irq_enable
                                   THEN "store_status" ELSE "update_irq"]
  /\ UNCHANGED <<reg, pin, backup, enabled, input, pending, boot, missed,
                 raced>>

TestEnable ==
  /\ At("enable")
  /\ slave' = [slave EXCEPT !.pc = IF Irq(slave.id) \in reg.irq_enable
                                   THEN "load_status" ELSE "update_irq"]
  /\ UNCHANGED <<reg, pin, backup, enabled, input, pending, boot, missed,
                 raced>>

LoadStatus ==
  /\ At("load_status")
  /\ slave' = [slave EXCEPT !.pc = "store_status", !.tmp = reg.irq_status]
  /\ UNCHANGED <<reg, pin, backup, enabled, input, pending, boot, missed,
                 raced>>

(* Mutant: after the store the handler returns without update_irq.         *)
StoreStatusQuietly ==
  /\ At("store_status")
  /\ reg' = [reg EXCEPT !.irq_status = slave.tmp \union {Irq(slave.id)}]
  /\ slave' = [pc |-> "wait", id |-> 0, tmp |-> None]
  /\ UNCHANGED <<pin, backup, enabled, input, pending, boot, missed, raced>>

StoreStatus ==
  /\ At("store_status")
  /\ reg' = [reg EXCEPT !.irq_status = slave.tmp \union {Irq(slave.id)}]
  /\ slave' = [slave EXCEPT !.pc = "update_irq", !.tmp = None]
  /\ UNCHANGED <<pin, backup, enabled, input, pending, boot, missed, raced>>

\* update_irq: the test, and the pin.
TestStatus ==
  /\ At("update_irq")
  /\ slave' = [slave EXCEPT !.pc = "write_pin",
                            !.tmp = reg.irq_status # {}]
  /\ UNCHANGED <<reg, pin, backup, enabled, input, pending, boot, missed,
                 raced>>

WritePin ==
  /\ At("write_pin")
  /\ pin' = slave.tmp
  /\ slave' = [pc |-> "wait", id |-> 0, tmp |-> None]
  /\ UNCHANGED <<reg, backup, enabled, input, pending, boot, missed, raced>>

-----------------------------------------------------------------------------
SlaveStep ==
  \/ Register
  \/ WaitOne
  \/ LoadPower
  \/ StorePower
  \/ TestEnable
  \/ LoadStatus
  \/ StoreStatus
  \/ TestStatus
  \/ WritePin

HostStep ==
  \/ HostReads
  \/ \E wdt, off \in BOOLEAN : HostWritesPower(wdt, off)
  \/ \E mask \in SUBSET Irqs : HostWritesEnable(mask)
  \/ \E kept \in SUBSET reg.irq_status : HostClearsStatus(kept)

Next ==
  \/ SlaveStep
  \/ HostStep
  \/ SenokoSlaveInit
  \/ PowerInitLoad
  \/ PowerInitStore
  \/ \E source \in {"button", "ac"} \intersect Sources : InputChanges(source)
  \/ PowerChanges
  \/ WatchdogDisabled
  \/ Reset

(* The slave thread gets the processor again and again.                    *)
Spec == Init /\ [][Next]_vars /\ WF_vars(SlaveStep)

-----------------------------------------------------------------------------
PowerBits == [on : BOOLEAN, wdt : BOOLEAN, ac : BOOLEAN, pressed : BOOLEAN]

SlaveLabels == {"off", "asleep", "wait", "load", "store", "enable",
                "load_status", "store_status", "update_irq", "write_pin"}

(* The registers, the backup register and the two threads keep their       *)
(* types: what a thread has loaded fits what it is about to store.         *)
SrTypeOK ==
  /\ reg \in [power : PowerBits, irq_enable : SUBSET Irqs,
              irq_status : SUBSET Irqs]
  /\ backup \in [mask : SUBSET Irqs, on : BOOLEAN]
  /\ {pin, enabled, raced} \subseteq BOOLEAN
  /\ input \in [button : BOOLEAN, ac : BOOLEAN]
  /\ pending \subseteq Ids
  /\ slave.pc \in SlaveLabels
  /\ slave.id \in Ids
  /\ At("store") => slave.tmp \in PowerBits
  /\ At("store_status") => slave.tmp # None /\ slave.tmp \subseteq Irqs
  /\ At("write_pin") => slave.tmp \in BOOLEAN
  /\ boot.pc \in {"open", "power", "store", "done"}
  /\ boot.pc = "store" => boot.tmp \in [mask : SUBSET Irqs, on : BOOLEAN]
  /\ missed \subseteq Sources

(* An interrupt is never hidden: outside its handler the slave thread      *)
(* leaves the pin high whenever a status bit is set, wherever the host's   *)
(* clearing of bits fell between its loads, tests and writes.              *)
NoHiddenInterrupt ==
  At("wait") /\ reg.irq_status # {} => pin

(* The flags of the slave thread keep no order, so of two opposite events  *)
(* that are both pending the one with the higher number is handled last.   *)
(* For powered_on that is the right one whenever there is a host to read   *)
(* the register: once every event is handled a board that is on is shown   *)
(* as on.  In the same way an adapter that is plugged in is shown as such, *)
(* and a button that is not pressed; the opposite need not be so.          *)
StatusLeans ==
  At("wait") /\ pending = {} =>
    /\ backup.on /\ ~raced => reg.power.on
    /\ input.ac /\ "ac" \notin missed => reg.power.ac
    /\ ~input.button /\ "button" \notin missed => ~reg.power.pressed

(* The interrupt mask that a reset will restore is the one the host has    *)
(* written, although power.c rewrites the same word on its own account,    *)
(* except for a write that falls inside powerInit.                         *)
MaskSurvives ==
  boot.pc # "open" /\ ~raced => backup.mask = reg.irq_enable

(* A button event that the host asked to be told about reaches the status  *)
(* register, unless the host changes its mind or a reset comes.            *)
ButtonIsReported ==
  pending \intersect {POWER_BUTTON_PRESSED_ID, POWER_BUTTON_RELEASED_ID} # {}
    ~> \/ "keypad" \in reg.irq_status
       \/ "keypad" \notin reg.irq_enable
=============================================================================
