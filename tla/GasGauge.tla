------------------------------ MODULE GasGauge ------------------------------
(***************************************************************************)
(* src/senoko/gg.c and chg.c: the configuration in the gas gauge's data    *)
(* flash, and the charger thread that reads the gauge and switches an      *)
(* empty board off, with the commands of the shell that use the same bus.  *)
(*                                                                         *)
(* An access to the flash takes several transactions: one selects a        *)
(* subclass and the next ones read or write the pages of whichever         *)
(* subclass is selected by then.  To change a word the whole subclass is   *)
(* read into eeprom_cache, which all threads share, and its page is        *)
(* written back.  i2c_bus_sem is meant to keep such sequences apart.       *)
(*                                                                         *)
(* A step is one transaction, which I2cBus.tla looks into, or one call on  *)
(* the semaphore.  A transaction may fail, with or without its effect.     *)
(* The words of the flash are put together to four parts: the cell count   *)
(* and flags (subclass 64), the limits that follow from it, the capacities *)
(* and the version of the configuration (56).                              *)
(***************************************************************************)
EXTENDS Naturals, Sequences, FiniteSets

CONSTANT MaxTries  \* how often ggInit tries to update the configuration

ASSUME TriesAssumption == MaxTries \in Nat \ {0}

VARIABLES
  gauge,     \* the chip: its flash, and the subclass selected in it
  cache,     \* eeprom_cache: the subclass it was read for, and its content
  bus,       \* i2c_bus_sem is free
  th,        \* the threads
  chg,       \* the charger thread's statics: chg_paused; system_state has
             \* been st_wake_up; voltage and termvolt call for a cut
  board,     \* the pack is empty; the pack feeds the mainboard, which is on
             \* while the adapter is out
  drained,   \* the pack has been empty at some moment since the charger
             \* thread woke up for its round (history)
  strayed    \* a command used the bus, or freed it, while the charger
             \* thread had it (history)

vars == <<gauge, cache, bus, th, chg, board, drained, strayed>>

Parts == {"cells", "limits", "capacity", "version"}

\* main is the main thread up to the end of ggInit, which then starts the
\* shell: main stands for the shell thread from there on.
Threads == {"charger", "main"}

Other(t) == CHOOSE u \in Threads : u # t

Get(part) == [op |-> "get", of |-> part]
Set(part) == [op |-> "set", of |-> part]

\* The accesses to the flash of each function.  ggSetCellCount writes the
\* cell count and sixteen limits, ggSetCapacity four to seven words: one
\* access stands for those to one part.
CellCount == <<Get("cells")>>

SetCellCount == <<Get("cells"), Set("cells"), Set("limits")>>

SetCapacity == <<Set("capacity")>>

SetBroadcast == <<Get("cells"), Set("cells")>>

TermVoltage == <<Get("limits")>>

(* Mutant: the version is written before what it vouches for.              *)
UpdateVersionFirst ==
  CellCount \o <<Get("capacity"), Set("version")>> \o SetCellCount
            \o SetCapacity

\* gg_update_if_necessary, once it has found an old version.
Update ==
  CellCount \o <<Get("capacity")>> \o SetCellCount \o SetCapacity
            \o <<Set("version")>>

\* What a thread acquires the bus for.
Program(cmd) ==
  CASE cmd = "version" -> <<Get("version")>>
    [] cmd = "broadcast" -> SetBroadcast
    [] cmd = "round" -> <<>>
    [] cmd = "stats" -> CellCount

Nothing == [of |-> "none", val |-> "none"]

Transactions == {"select", "read", "reselect", "write"}

\* The thread is between its acquisition and its release of the bus.
Inside(t) ==
  /\ th[t].pc \notin {"start", "asleep", "prompt", "waiting"}
  /\ th[t].cmd \notin {"gg", "chg"}

At(t, label) == th[t].pc = label

Goto(t, label) == th' = [th EXCEPT ![t].pc = label]

Thread == [pc |-> "start", cmd |-> "none", job |-> <<>>, got |-> "none",
           ok |-> TRUE, try |-> 0]

Statics == [paused |-> FALSE, woken |-> FALSE, low |-> FALSE]

Init ==
  /\ gauge = [flash |-> [p \in Parts |-> "old"], selected |-> "none"]
  /\ cache = Nothing
  /\ bus = TRUE
  /\ th = [t \in Threads |-> Thread]
  /\ chg = Statics
  /\ board = [feeding |-> TRUE, empty |-> FALSE]
  /\ drained = FALSE
  /\ strayed = FALSE

-----------------------------------------------------------------------------
(* The bus.                                                                *)

\* The thread has the bus for what it acquired it for.
Entered(r) == [r EXCEPT !.pc = IF r.cmd = "round" THEN "woken" ELSE "select"]

(* Mutant: the configuration is updated without acquiring the bus.         *)
AcquireUnlessMain(t, cmd) ==
  LET r == [th[t] EXCEPT !.cmd = cmd, !.job = Program(cmd)] IN
  /\ IF bus \/ cmd = "version"
     THEN bus' = FALSE /\ th' = [th EXCEPT ![t] = Entered(r)]
     ELSE bus' = bus /\ th' = [th EXCEPT ![t] = [r EXCEPT !.pc = "waiting"]]
  /\ drained' = IF cmd = "round" THEN board.empty ELSE drained
  /\ strayed' = (strayed \/ (t = "charger" /\ th["main"].cmd = "gg"))

\* senokoI2cAcquireBus, for the commands of the program.
Acquire(t, cmd) ==
  LET r == [th[t] EXCEPT !.cmd = cmd, !.job = Program(cmd)] IN
  /\ IF bus
     THEN bus' = FALSE /\ th' = [th EXCEPT ![t] = Entered(r)]
     ELSE bus' = bus /\ th' = [th EXCEPT ![t] = [r EXCEPT !.pc = "waiting"]]
  /\ drained' = IF cmd = "round" THEN board.empty ELSE drained
  /\ strayed' = (strayed \/ (t = "charger" /\ th["main"].cmd = "gg"))

\* senokoI2cReleaseBus: a thread that waits gets the bus.
Released(t, r) ==
  IF At(Other(t), "waiting")
  THEN /\ bus' = bus
       /\ th' = [th EXCEPT ![t] = r, ![Other(t)] = Entered(@)]
  ELSE /\ bus' = TRUE
       /\ th' = [th EXCEPT ![t] = r]

(* Mutant: one try too many.                                               *)
AfterReleaseOnceMore(t) ==
  LET again == /\ th[t].cmd \in {"version", "update"} /\ ~th[t].ok
               /\ th[t].try < MaxTries
  IN [Thread EXCEPT
        !.pc = CASE t = "charger" -> "asleep"
                 [] again -> "start"
                 [] OTHER -> "prompt",
        !.try = IF again THEN th[t].try + 1 ELSE 0]

\* Where the thread goes on after its release.  gg_update_if_necessary is
\* tried again if it failed.
AfterRelease(t) ==
  LET again == /\ th[t].cmd \in {"version", "update"} /\ ~th[t].ok
               /\ th[t].try + 1 < MaxTries
  IN [Thread EXCEPT
        !.pc = CASE t = "charger" -> "asleep"
                 [] again -> "start"
                 [] OTHER -> "prompt",
        !.try = IF again THEN th[t].try + 1 ELSE 0]

\* Nobody uses the selection and the cache again before setting them anew:
\* the model forgets them when no thread is in an access.
Forget(t) ==
  IF th[Other(t)].pc \in Transactions
  THEN UNCHANGED <<gauge, cache>>
  ELSE /\ gauge' = [gauge EXCEPT !.selected = "none"]
       /\ cache' = Nothing

Release(t) ==
  /\ At(t, "release")
  /\ Released(t, AfterRelease(t))
  /\ Forget(t)
  /\ drained' = (drained /\ t # "charger")
  /\ strayed' = (strayed \/ (th[t].cmd = "chg" /\ Inside(Other(t))))
  /\ UNCHANGED <<chg, board>>

-----------------------------------------------------------------------------
(* gg_getflash and gg_setflash.                                            *)

Part(t) == Head(th[t].job).of

\* What the caller does when its program has ended: ggInit and the charger
\* thread look at the result, gg returns to the prompt, all others release
\* the bus.
Ended(r, got, ok) ==
  IF r.cmd = "gg" THEN [Thread EXCEPT !.pc = "prompt"]
  ELSE IF r.cmd \in {"version", "term"}
  THEN [r EXCEPT !.pc = "done", !.job = <<>>, !.got = got, !.ok = ok]
  ELSE [r EXCEPT !.pc = "release", !.job = <<>>, !.ok = ok]

\* The access is done, and with it the program if it was the last one.
NextAccess(t, got) ==
  LET r == th[t] IN
  th' = [th EXCEPT ![t] =
           IF Len(r.job) = 1 THEN Ended(r, got, TRUE)
           ELSE [r EXCEPT !.pc = "select", !.job = Tail(r.job)]]

\* A transaction failed for good: every caller gives up its program.
Fails(t) ==
  /\ th[t].pc \in Transactions
  /\ th' = [th EXCEPT ![t] = Ended(@, "none", FALSE)]

\* gg_getflash clears its buffer, eeprom_cache for gg_setflash, before the
\* first transaction, and fills it even from a read that failed.
Cleared(t) ==
  cache' = IF th[t].pc \in {"select", "read"} /\ Head(th[t].job).op = "set"
           THEN [of |-> Part(t), val |-> "lost"] ELSE cache

\* Register 0x77 selects the subclass, for reading and again for writing.
SelectEffect(t) ==
  /\ th[t].pc \in {"select", "reselect"}
  /\ gauge' = [gauge EXCEPT !.selected = Part(t)]
  /\ Cleared(t)
  /\ UNCHANGED <<bus, chg, board, drained, strayed>>

Select(t) ==
  /\ SelectEffect(t)
  /\ Goto(t, IF At(t, "select") THEN "read" ELSE "write")

\* What the pages that are read contain: no pages of the wrong subclass.
Seen(t) == IF gauge.selected = Part(t) THEN gauge.flash[Part(t)] ELSE "lost"

\* The pages are read, for the caller, or into eeprom_cache, in which the
\* caller's bytes then replace what was there.
Read(t) ==
  /\ At(t, "read")
  /\ IF Head(th[t].job).op = "get"
     THEN NextAccess(t, Seen(t)) /\ UNCHANGED cache
     ELSE /\ Goto(t, "reselect")
          /\ cache' = [of |-> Part(t),
                       val |-> IF th[t].cmd = "update" /\ Seen(t) # "lost"
                               THEN "new" ELSE Seen(t)]
  /\ UNCHANGED <<gauge, bus, chg, board, drained, strayed>>

\* A page is written from the cache to the subclass that is selected.
WriteEffect(t) ==
  /\ At(t, "write")
  /\ LET home == gauge.selected = Part(t) /\ cache.of = Part(t)
     IN gauge' = [gauge EXCEPT !.flash[gauge.selected] =
                    IF home THEN cache.val ELSE "lost"]
  /\ UNCHANGED <<cache, bus, chg, board, drained, strayed>>

Write(t) == WriteEffect(t) /\ NextAccess(t, "none")

FailsWithEffect(t) == Fails(t) /\ (SelectEffect(t) \/ WriteEffect(t))

FailsWithoutEffect(t) ==
  /\ Fails(t)
  /\ Cleared(t)
  /\ UNCHANGED <<gauge, bus, chg, board, drained, strayed>>

-----------------------------------------------------------------------------
(* The main thread in ggInit, and the shell after it.                      *)

\* The version decides what is left to do; what a wrong subclass contained
\* in its place may be any number.
VersionDone ==
  LET r == th["main"] IN
  /\ At("main", "done") /\ r.cmd = "version"
  /\ \/ /\ ~r.ok \/ r.got # "old"
        /\ Goto("main", "release")
     \/ /\ r.ok /\ r.got # "new"
        /\ th' = [th EXCEPT !["main"].cmd = "update",
                            !["main"].got = "none",
                            !["main"].job = Update,
                            !["main"].pc = "select"]
  /\ UNCHANGED <<gauge, cache, bus, chg, board, drained, strayed>>

GgInit ==
  /\ At("main", "start")
  /\ Acquire("main", "version")
  /\ UNCHANGED <<gauge, cache, chg, board>>

\* Of the commands, only stats and the summary of chg acquire the bus; all
\* but gg release it.  As a bound of the model, no command but stats
\* follows one that has strayed.
CmdStats ==
  /\ At("main", "prompt")
  /\ Acquire("main", "stats")
  /\ UNCHANGED <<gauge, cache, chg, board>>

CmdGg(part) ==
  /\ At("main", "prompt") /\ ~strayed
  /\ th' = [th EXCEPT !["main"].cmd = "gg", !["main"].pc = "select",
                      !["main"].job = <<Set(part)>>]
  /\ strayed' = (strayed \/ Inside("charger"))
  /\ UNCHANGED <<gauge, cache, bus, chg, board, drained>>

\* chg set, input, pause and resume, with their release of the bus.
CmdChg(paused) ==
  /\ At("main", "prompt") /\ ~strayed
  /\ th' = [th EXCEPT !["main"].cmd = "chg", !["main"].pc = "release"]
  /\ chg' = [chg EXCEPT !.paused = paused]
  /\ UNCHANGED <<gauge, cache, bus, board, drained, strayed>>

-----------------------------------------------------------------------------
(* chg_thread.                                                             *)
ChgStart ==
  /\ At("charger", "start")
  /\ Acquire("charger", "broadcast")
  /\ UNCHANGED <<gauge, cache, chg, board>>

Wake ==
  /\ At("charger", "asleep")
  /\ Acquire("charger", "round")
  /\ UNCHANGED <<gauge, cache, chg, board>>

(* Mutant: the release is at the end of the loop, which continue skips     *)
(* while the thread is paused.                                             *)
ContinueUnreleased(label) ==
  /\ At("charger", label)
  /\ Goto("charger", IF chg.paused THEN "asleep" ELSE "release")
  /\ UNCHANGED <<gauge, cache, bus, chg, board, drained, strayed>>

\* continue: the bus is released at the top of the loop.  The thread is
\* paused, a read failed, both FETs are off, or the round is complete.
Continue(label) ==
  /\ At("charger", label)
  /\ Goto("charger", "release")
  /\ UNCHANGED <<gauge, cache, bus, chg, board, drained, strayed>>

\* ggDesignCapacity, with the input current set before.
Capacity ==
  /\ At("charger", "woken") /\ ~chg.paused
  /\ Goto("charger", "state")
  /\ UNCHANGED <<gauge, cache, bus, chg, board, drained, strayed>>

(* Mutant: system_state is not remembered.                                 *)
StateForgets(state) ==
  /\ At("charger", "state")
  /\ Goto("charger", IF state = "wake_up" THEN "release" ELSE "voltage")
  /\ UNCHANGED <<gauge, cache, bus, chg, board, drained, strayed>>

\* ggState, and ImpedanceTrack on the first wake-up.
State(state) ==
  /\ At("charger", "state")
  /\ IF state = "wake_up" /\ ~chg.woken
     THEN Goto("charger", "release") /\ chg' = [chg EXCEPT !.woken = TRUE]
     ELSE Goto("charger", "voltage") /\ UNCHANGED chg
  /\ UNCHANGED <<gauge, cache, bus, board, drained, strayed>>

ReadTermVoltage ==
  th' = [th EXCEPT !["charger"].cmd = "term", !["charger"].pc = "select",
                   !["charger"].job = TermVoltage]

Voltage ==
  /\ At("charger", "voltage")
  /\ ReadTermVoltage
  /\ chg' = [chg EXCEPT !.low = board.empty]
  /\ UNCHANGED <<gauge, cache, bus, board, drained, strayed>>

TermTested(low) ==
  /\ th' = [th EXCEPT !["charger"] = [Thread EXCEPT !.pc = "test",
                                                   !.cmd = "round"]]
  /\ chg' = [chg EXCEPT !.low = low]

(* Mutant: the result of ggTermVoltage is ignored; after a failure the     *)
(* word comes from a buffer that was never filled.                         *)
TermDoneIgnored ==
  /\ At("charger", "done") /\ th["charger"].cmd = "term"
  /\ \E low \in IF th["charger"].got = "lost" \/ ~th["charger"].ok
              THEN BOOLEAN ELSE {chg.low} : TermTested(low)
  /\ UNCHANGED <<gauge, cache, bus, board, drained, strayed>>

\* ggTermVoltage returned; a word of a wrong subclass may be above or below
\* the voltage.
TermDone ==
  LET r == th["charger"] IN
  /\ At("charger", "done") /\ r.cmd = "term"
  /\ IF r.ok
     THEN \E low \in IF r.got = "lost" THEN BOOLEAN ELSE {chg.low} :
            TermTested(low)
     ELSE Goto("charger", "release") /\ UNCHANGED chg
  /\ UNCHANGED <<gauge, cache, bus, board, drained, strayed>>

\* The test of the voltages, powerIsOn and acRemoved.  The voltages are
\* read again before the next test.
TestLow ==
  /\ At("charger", "test")
  /\ Goto("charger", IF chg.low /\ board.feeding THEN "cut" ELSE "rates")
  /\ chg' = [chg EXCEPT !.low = FALSE]
  /\ UNCHANGED <<gauge, cache, bus, board, drained, strayed>>

\* powerOff
Cut ==
  /\ At("charger", "cut")
  /\ board' = [board EXCEPT !.feeding = FALSE]
  /\ Goto("charger", "rates")
  /\ UNCHANGED <<gauge, cache, bus, chg, drained, strayed>>

-----------------------------------------------------------------------------
(* What happens around them.                                               *)
BoardChanges(x) ==
  /\ board' = [board EXCEPT ![x] = ~@]
  /\ drained' = (drained \/ (th["charger"].pc \notin {"start", "asleep"}
                           /\ board'.empty))
  /\ UNCHANGED <<gauge, cache, bus, th, chg, strayed>>

\* A reset of the microcontroller: the gauge keeps its state.  As a bound
\* of the model, none comes after a stray command.
Reset ==
  /\ ~strayed
  /\ cache' = Nothing
  /\ bus' = TRUE
  /\ th' = [t \in Threads |-> Thread]
  /\ chg' = Statics
  /\ drained' = FALSE
  /\ gauge' = [gauge EXCEPT !.selected = "none"]
  /\ UNCHANGED <<board, strayed>>

-----------------------------------------------------------------------------
Transact(t) ==
  \/ Select(t)
  \/ Read(t)
  \/ Write(t)
  \/ FailsWithEffect(t)
  \/ FailsWithoutEffect(t)
  \/ Release(t)

ChargerStep ==
  \/ Transact("charger")
  \/ ChgStart
  \/ Wake
  \/ \E label \in {"woken", "state", "voltage", "rates"} : Continue(label)
  \/ Capacity
  \/ \E state \in {"normal", "wake_up"} : State(state)
  \/ Voltage
  \/ TermDone
  \/ TestLow
  \/ Cut

MainStep ==
  \/ Transact("main")
  \/ GgInit
  \/ VersionDone

Command ==
  \/ CmdStats
  \/ CmdGg("limits")
  \/ \E paused \in BOOLEAN : CmdChg(paused)

Next ==
  \/ ChargerStep
  \/ MainStep
  \/ Command
  \/ \E x \in {"feeding", "empty"} : BoardChanges(x)
  \/ Reset

(* The gauge answers again and again.                                      *)
GaugeAnswers ==
  /\ SF_vars(Capacity)
  /\ SF_vars(\E state \in {"normal", "wake_up"} : State(state))
  /\ SF_vars(Voltage)
  /\ SF_vars(At("charger", "select") /\ Select("charger"))
  /\ SF_vars(Read("charger"))

Spec == /\ Init /\ [][Next]_vars
        /\ WF_vars(ChargerStep) /\ WF_vars(MainStep)
        /\ GaugeAnswers

-----------------------------------------------------------------------------
Contents == {"old", "new", "lost"}

(* The variables keep their types, and ggInit tries no more than MaxTries. *)
GgTypeOK ==
  /\ gauge \in [flash : [Parts -> Contents], selected : Parts \union {"none"}]
  /\ cache \in [of : Parts \union {"none"}, val : Contents \union {"none"}]
  /\ bus \in BOOLEAN
  /\ \A t \in Threads :
       /\ th[t].pc \in Transactions => th[t].job # <<>>
       /\ th[t].got \in Contents \union {"none"}
       /\ th[t].try \in 0 .. MaxTries - 1
  /\ chg \in [paused : BOOLEAN, woken : BOOLEAN, low : BOOLEAN]
  /\ board \in [feeding : BOOLEAN, empty : BOOLEAN]
  /\ {drained, strayed} \subseteq BOOLEAN

(* Every page goes to the subclass it was read from: the update of the     *)
(* configuration and the charger thread's ggSetBroadcast, which starts     *)
(* while the update may be running, do not disturb each other's selection  *)
(* nor the cache they share, wherever transactions fail or a reset comes.  *)
WritesGoHome ==
  ~strayed => \A p \in Parts : gauge.flash[p] # "lost"

(* The version in the flash, which makes every later boot skip the update, *)
(* is only there when all of what it vouches for is.                       *)
VersionImpliesConfigured ==
  ~strayed /\ gauge.flash["version"] = "new" =>
    \A p \in Parts : gauge.flash[p] = "new"

(* The charger thread switches the board off only if the pack was empty at *)
(* some moment of the same round: not for a voltage of an earlier round,   *)
(* nor for a limit that is not one, read from a wrong subclass or not read *)
(* at all.                                                                 *)
CutsOnlyWhenLow ==
  [][Cut /\ ~strayed => drained]_vars

(* Every path of the charger thread and of the commands gives the bus back *)
(* to a thread that waits for it, and again and again nobody waits.        *)
BusComesBack ==
  []<>(\A t \in Threads : ~At(t, "waiting"))

(* An empty pack does not feed the mainboard for ever, if the gauge answers *)
(* again and again and the resets end, unless the charger thread is paused *)
(* or a command has strayed.                                               *)
EmptyIsCut ==
  <>[](board.empty /\ ~chg.paused /\ ~strayed) /\ <>[][~Reset]_vars
    => []<>~board.feeding

(* i2c_bus_sem gives exclusive access: no two threads are between their    *)
(* acquisition and their release.                                          *)
BusIsExclusive ==
  ~ \A t \in Threads : Inside(t)
=============================================================================
