------------------------------- MODULE I2cBus -------------------------------
(***************************************************************************)
(* src/senoko/senoko-i2c.c over the ChibiOS driver (i2c.c, I2Cv1/i2c_lld.c *)
(* with its slave mode) and the kernel's binary semaphores and thread      *)
(* references: one I2C port that is the slave of the mainboard while the   *)
(* mainboard is on, and that a thread turns into a master for each of its  *)
(* transactions with the battery chips.                                    *)
(*                                                                         *)
(* master_slave_sem is meant to keep the two roles apart: the interrupt of *)
(* a host transaction takes it and gives it back at the end, and a master  *)
(* waits for it.  Neither the return to slave mode nor the thread that     *)
(* unsticks the bus takes it.                                              *)
(*                                                                         *)
(* A step of a thread is one locked section or one test outside of any.    *)
(* A thread runs only while those of higher priority block; interrupts     *)
(* come at any time.  A failed assertion halts the system, which the       *)
(* independent watchdog then resets.                                       *)
(***************************************************************************)
EXTENDS Naturals, Sequences, FiniteSets

CONSTANTS
  Masters,   \* the threads that run transactions
  MaxTries   \* I2C_MAX_TRIES

ASSUME MastersAssumption == Masters \subseteq {"charger", "main", "shell"}

ASSUME TriesAssumption == MaxTries \in Nat \ {0}

VARIABLES
  on,      \* the mainboard is powered (powerIsOn)
  i2cp,    \* the driver: state, slave_mode, thread
  hw,      \* the port: what it is set up as, its DMA streams, the transfer
  slave,   \* the host transaction in progress
  cut,     \* the semaphore was taken for a host transaction that will
           \* never give it back (history)
  hosted,  \* the slave interrupt has run since a master entered its
           \* section while no other was inside (history)
  sem,     \* master_slave_sem
  th,      \* each thread: its point, try, last result, and the role that
           \* its calls of i2cStop and i2cStart prepare
  halted   \* the assertion that failed, or "none"

vars == <<on, i2cp, hw, slave, cut, hosted, sem, th, halted>>

Threads == Masters \union {"unstick"}

Nobody == "nobody"

Priority == [charger |-> 4, unstick |-> 3, main |-> 2, shell |-> 1]

Blocked == {"idle", "queued", "suspended"}

\* Points where a thread holds master_slave_sem, if it is a master.
Driving == {"stop_check", "stop", "start_check", "start", "ready_check",
            "begin", "busy_wait", "suspended", "finish", "signal"}

Returning == {"check_power", "s_begin", "s_busy"}

InSection(t) == /\ th[t].pc \in Driving
                /\ th[t].aim = "master"

InDriver(t) == th[t].pc \in Driving \union {"s_begin", "s_busy"}

AtMostOneMaster ==
  \A t, u \in Masters : InSection(t) /\ InSection(u) => t = u

CanRun(t) ==
  /\ halted = "none"
  /\ \A u \in Threads : Priority[u] > Priority[t] => th[u].pc \in Blocked

At(t, label) == th[t].pc = label /\ CanRun(t)

Goto(t, label) == th' = [th EXCEPT ![t].pc = label]

Halt(why) == halted' = why

-----------------------------------------------------------------------------
(* senokoI2cInit: the driver starts, and slave mode is entered when the    *)
(* mainboard is on and the bus idle within 50 ms.                          *)
BootDriver(listens) ==
  [state |-> IF on /\ ~listens THEN "locked" ELSE "ready",
   slave_mode |-> listens, thread |-> Nobody]

BootPort(listens) ==
  [port |-> IF listens THEN "slave" ELSE "master", dma |-> TRUE,
   xfer |-> Nobody]

Idle == [pc |-> "idle", try |-> 0, msg |-> "ok", aim |-> "slave"]

Rest(t) == th' = [th EXCEPT ![t] = Idle]

Init ==
  /\ on \in BOOLEAN
  /\ \E listens \in {FALSE, on} :
       i2cp = BootDriver(listens) /\ hw = BootPort(listens)
  /\ slave = "none"
  /\ cut = FALSE
  /\ hosted = FALSE
  /\ sem = [free |-> TRUE, queue |-> <<>>]
  /\ th = [t \in Threads |-> Idle]
  /\ halted = "none"

Restart ==
  /\ halted # "none"
  /\ \E listens \in {FALSE, on} :
       i2cp' = BootDriver(listens) /\ hw' = BootPort(listens)
  /\ slave' = "none"
  /\ cut' = FALSE
  /\ sem' = [free |-> TRUE, queue |-> <<>>]
  /\ th' = [t \in Threads |-> Idle]
  /\ halted' = "none"
  /\ UNCHANGED on

PowerChanges ==
  /\ halted = "none"
  /\ on' = ~on
  /\ UNCHANGED <<i2cp, hw, slave, cut, sem, th, halted>>

-----------------------------------------------------------------------------
(* chbsem.h and chsem.c.                                                   *)

\* The point where a master goes on once it has the semaphore.
Resumed(r) == [r EXCEPT !.pc = "stop_check", !.aim = "master"]

(* Mutant: the semaphore becomes free although the next owner has it.      *)
SemSignalTwice ==
  /\ cut' = FALSE
  /\ sem' = [free |-> TRUE,
             queue |-> IF sem.queue = <<>> THEN <<>> ELSE Tail(sem.queue)]

\* chBSemSignalI: the semaphore goes to the first in the queue.
SemSignal ==
  /\ cut' = FALSE
  /\ sem' = IF sem.queue = <<>> THEN [sem EXCEPT !.free = TRUE]
                                ELSE [sem EXCEPT !.queue = Tail(@)]

(* Mutant: the next owner is taken from the queue but not made ready.      *)
SignalledNobody(threads) == threads

\* The threads after it.
Signalled(threads) ==
  [t \in Threads |-> IF sem.queue # <<>> /\ t = Head(sem.queue)
                     THEN Resumed(threads[t]) ELSE threads[t]]

\* chBSemResetI(, taken): every thread in the queue goes on with MSG_RESET,
\* a result that senokoI2cMasterTransmitTimeout does not look at.
SemResetTaken ==
  /\ sem' = [free |-> FALSE, queue |-> <<>>]
  /\ cut' = FALSE
  /\ th' = [t \in Threads |->
              IF th[t].pc = "queued" THEN Resumed(th[t]) ELSE th[t]]

-----------------------------------------------------------------------------
(* chThdResumeI and chThdResumeS on the reference kept in the driver.      *)
Resume(msg, threads) ==
  LET tp == i2cp.thread IN
  IF tp = Nobody
  THEN th' = threads /\ UNCHANGED <<i2cp, halted>>
  ELSE IF th[tp].pc # "suspended"
  THEN Halt("resume") /\ th' = threads /\ UNCHANGED i2cp
  ELSE /\ i2cp' = [i2cp EXCEPT !.thread = Nobody]
       /\ th' = [threads EXCEPT ![tp].pc = "finish", ![tp].msg = msg]
       /\ UNCHANGED halted

-----------------------------------------------------------------------------
(* senokoI2cMasterTransmitTimeout.                                         *)

Call(t) ==
  /\ At(t, "idle")
  /\ t \in Masters
  /\ th' = [th EXCEPT ![t].pc = "wait", ![t].try = 1]
  /\ UNCHANGED <<on, i2cp, hw, slave, cut, sem, halted>>

Wait(t) ==
  /\ At(t, "wait")
  /\ IF sem.free
     THEN /\ sem' = [sem EXCEPT !.free = FALSE]
          /\ th' = [th EXCEPT ![t] = Resumed(@)]
     ELSE /\ sem' = [sem EXCEPT !.queue = Append(@, t)]
          /\ Goto(t, "queued")
  /\ UNCHANGED <<on, i2cp, hw, slave, cut, halted>>

Stoppable == i2cp.state \in {"stop", "ready", "locked"}

\* The assertions of i2cStop and i2cStart, made before they lock.
Check(t, from, to) ==
  /\ At(t, from)
  /\ IF Stoppable
     THEN Goto(t, to) /\ UNCHANGED halted
     ELSE Halt("state") /\ UNCHANGED th
  /\ UNCHANGED <<on, i2cp, hw, slave, cut, sem>>

\* A reset of the port ends a host transaction without any callback.
PortReset ==
  /\ cut' = (cut \/ slave # "none")
  /\ slave' = "none"

\* The locked section of i2cStop.  Releasing a stream that is not
\* allocated fails an assertion of the DMA driver.
Stop(t) ==
  /\ At(t, "stop")
  /\ IF i2cp.state # "stop" /\ ~hw.dma
     THEN Halt("dma") /\ UNCHANGED <<i2cp, hw, slave, cut, th>>
     ELSE /\ i2cp' = [i2cp EXCEPT !.state = "stop"]
          /\ IF i2cp.state = "stop"
             THEN UNCHANGED <<hw, slave, cut>>
             ELSE /\ hw' = [port |-> "off", dma |-> FALSE, xfer |-> Nobody]
                  /\ PortReset
          /\ Goto(t, "start_check")
          /\ UNCHANGED halted
  /\ UNCHANGED <<on, sem>>

\* The locked section of i2cStart.  Only a stopped port gets its clock and
\* its streams; what is written to a port without a clock is lost.
Start(t) ==
  /\ At(t, "start")
  /\ LET stopped == i2cp.state = "stop" IN
     hw' = [port |-> IF stopped \/ hw.port # "off" THEN "master" ELSE "off",
            dma |-> stopped \/ hw.dma, xfer |-> Nobody]
  /\ i2cp' = [i2cp EXCEPT !.state = "ready", !.slave_mode = FALSE]
  /\ PortReset
  /\ Goto(t, IF th[t].aim = "master" THEN "ready_check" ELSE "s_begin")
  /\ UNCHANGED <<on, sem, halted>>

ReadyCheck(t) ==
  /\ At(t, "ready_check")
  /\ IF i2cp.state = "ready"
     THEN Goto(t, "begin") /\ UNCHANGED halted
     ELSE Halt("state") /\ UNCHANGED th
  /\ UNCHANGED <<on, i2cp, hw, slave, cut, sem>>

Begin(t) ==
  /\ At(t, "begin")
  /\ i2cp' = [i2cp EXCEPT !.state = "active"]
  /\ Goto(t, "busy_wait")
  /\ UNCHANGED <<on, hw, slave, cut, sem, halted>>

\* The bus stays busy for 50 ms.
StaysBusy(t) ==
  /\ At(t, "busy_wait")
  /\ i2cp' = [i2cp EXCEPT !.state = "locked"]
  /\ th' = [th EXCEPT ![t].pc = "signal", ![t].msg = "timeout"]
  /\ UNCHANGED <<on, hw, slave, cut, sem, halted>>

(* Mutant: a reference left by an earlier timeout is kept.                 *)
LaunchKeepsReference(t) ==
  /\ At(t, "busy_wait")
  /\ hw.xfer = Nobody
  /\ hw' = [hw EXCEPT !.xfer = IF hw.port = "off" THEN Nobody ELSE t]
  /\ i2cp' = [i2cp EXCEPT !.slave_mode = FALSE,
                          !.thread = IF @ = Nobody THEN t ELSE @]
  /\ Goto(t, "suspended")
  /\ UNCHANGED <<on, slave, cut, sem, halted>>

\* The bus is idle: the transfer starts and the thread suspends.  A port
\* without a clock starts nothing.
Launch(t) ==
  /\ At(t, "busy_wait")
  /\ hw.xfer = Nobody
  /\ hw' = [hw EXCEPT !.xfer = IF hw.port = "off" THEN Nobody ELSE t]
  /\ i2cp' = [i2cp EXCEPT !.slave_mode = FALSE, !.thread = t]
  /\ Goto(t, "suspended")
  /\ UNCHANGED <<on, slave, cut, sem, halted>>

\* 25 ms have passed.  The kernel means to clear the reference, but clears
\* the argument of chThdSuspendTimeoutS that pointed to it.
TimesOut(t) ==
  /\ halted = "none"
  /\ th[t].pc = "suspended"
  /\ th' = [th EXCEPT ![t].pc = "finish", ![t].msg = "timeout"]
  /\ UNCHANGED <<on, i2cp, hw, slave, cut, sem, halted>>

Finish(t) ==
  /\ At(t, "finish")
  /\ i2cp' = [i2cp EXCEPT !.state =
                IF th[t].msg = "timeout" THEN "locked" ELSE "ready"]
  /\ Goto(t, "signal")
  /\ UNCHANGED <<on, hw, slave, cut, sem, halted>>

\* Where a try leads: to the next one, or out of the loop.
Tried(t, again) ==
  [th EXCEPT ![t] =
     IF again THEN [Idle EXCEPT !.pc = "wait", !.try = th[t].try + 1]
              ELSE [Idle EXCEPT !.pc = "check_power"]]

(* Mutant: a failed try keeps the semaphore.                               *)
SignalOnSuccess(t) ==
  /\ At(t, "signal")
  /\ IF th[t].msg = "ok"
     THEN SemSignal /\ th' = Signalled(Tried(t, FALSE))
     ELSE th' = Tried(t, th[t].try < MaxTries) /\ UNCHANGED <<sem, cut>>
  /\ UNCHANGED <<on, i2cp, hw, slave, halted>>

(* Mutant: one try too many.                                               *)
SignalOneMore(t) ==
  /\ At(t, "signal")
  /\ SemSignal
  /\ th' = Signalled(Tried(t, th[t].msg # "ok" /\ th[t].try <= MaxTries))
  /\ UNCHANGED <<on, i2cp, hw, slave, halted>>

Signal(t) ==
  /\ At(t, "signal")
  /\ SemSignal
  /\ th' = Signalled(Tried(t, th[t].msg # "ok" /\ th[t].try < MaxTries))
  /\ UNCHANGED <<on, i2cp, hw, slave, halted>>

-----------------------------------------------------------------------------
(* senoko_i2c_mode_slave.                                                  *)

CheckPower(t) ==
  /\ At(t, "check_power")
  /\ IF on THEN th' = [th EXCEPT ![t] = [Idle EXCEPT !.pc = "stop_check"]]
           ELSE Rest(t)
  /\ UNCHANGED <<on, i2cp, hw, slave, cut, sem, halted>>

\* i2cSlaveIoTimeout gives the driver state 0 while it waits for the bus.
SlaveBegin(t) ==
  /\ At(t, "s_begin")
  /\ i2cp' = [i2cp EXCEPT !.state = "uninit"]
  /\ Goto(t, "s_busy")
  /\ UNCHANGED <<on, hw, slave, cut, sem, halted>>

(* Mutant: the return with MSG_TIMEOUT skips the final state.              *)
SlaveGivesUp(t) ==
  /\ At(t, "s_busy")
  /\ Rest(t)
  /\ UNCHANGED <<on, i2cp, hw, slave, cut, sem, halted>>

SlaveStaysBusy(t) ==
  /\ At(t, "s_busy")
  /\ i2cp' = [i2cp EXCEPT !.state = "locked"]
  /\ Rest(t)
  /\ UNCHANGED <<on, hw, slave, cut, sem, halted>>

\* The port is reset, and set up unless slave_mode says that it already is.
SlaveReady(t) ==
  /\ At(t, "s_busy")
  /\ hw.xfer = Nobody
  /\ i2cp' = [i2cp EXCEPT !.state = "ready", !.slave_mode = TRUE]
  /\ hw' = [hw EXCEPT !.port = IF i2cp.slave_mode THEN "dead" ELSE "slave"]
  /\ PortReset
  /\ Rest(t)
  /\ UNCHANGED <<on, sem, halted>>

-----------------------------------------------------------------------------
(* i2c_unstick_thread: five polls in a row have found the bus busy.        *)

UnstickPolls ==
  /\ At("unstick", "idle")
  /\ hw.port # "off"
  /\ Goto("unstick", IF i2cp.state = "active" THEN "resume"
                                              ELSE "check_power")
  /\ UNCHANGED <<on, i2cp, hw, slave, cut, sem, halted>>

UnstickResumes ==
  /\ At("unstick", "resume")
  /\ Resume("reset", [th EXCEPT !["unstick"].pc = "idle"])
  /\ UNCHANGED <<on, hw, slave, cut, sem>>

-----------------------------------------------------------------------------
(* Interrupts of the port as a master.                                     *)

\* The last byte: the end of the DMA transfer, or of the transmission.
TransferDone ==
  /\ halted = "none"
  /\ hw.xfer # Nobody
  /\ hw.port = "master"
  /\ hw.dma
  /\ ~i2cp.slave_mode
  /\ hw' = [hw EXCEPT !.xfer = Nobody]
  /\ Resume("ok", th)
  /\ UNCHANGED <<on, slave, cut, sem>>

\* No acknowledge, arbitration lost or a bus error.
TransferError ==
  /\ halted = "none"
  /\ hw.xfer # Nobody
  /\ hw.port \in {"master", "slave"}
  /\ hw' = [hw EXCEPT !.xfer = Nobody]
  /\ Resume("reset", th)
  /\ UNCHANGED <<on, slave, cut, sem>>

-----------------------------------------------------------------------------
(* Interrupts of the port as a slave.                                      *)

Listening ==
  /\ halted = "none"
  /\ on
  /\ hw.port = "slave"
  /\ i2cp.slave_mode

\* ADDR.  A restart finishes the transaction in progress, whose signal the
\* start callback undoes: the outcome is that of the reset.
HostAddresses ==
  /\ Listening
  /\ slave' = "addressed"
  /\ SemResetTaken
  /\ UNCHANGED <<on, i2cp, hw, halted>>

\* RXNE or TXE, for the first byte; later bytes change nothing here.
HostData ==
  /\ Listening
  /\ slave = "addressed"
  /\ slave' = "data"
  /\ UNCHANGED <<on, i2cp, hw, cut, sem, th, halted>>

\* STOPF after a write, AF after a read: i2c_rx_finished with at least one
\* byte, i2c_tx_finished.
HostFinishes ==
  /\ Listening
  /\ slave = "data"
  /\ slave' = "none"
  /\ SemSignal
  /\ th' = Signalled(th)
  /\ UNCHANGED <<on, i2cp, hw, halted>>

\* STOPF after a write of no byte: i2c_rx_finished returns at once.
HostFinishesEmpty ==
  /\ Listening
  /\ slave = "addressed"
  /\ slave' = "none"
  /\ cut' = TRUE
  /\ UNCHANGED <<on, i2cp, hw, sem, th, halted>>

\* BERR or ARLO: i2c_tx_finished, then whoever the reference names is
\* resumed with an error.
HostError ==
  /\ Listening
  /\ slave' = "none"
  /\ SemSignal
  /\ Resume("reset", Signalled(th))
  /\ UNCHANGED <<on, hw>>

-----------------------------------------------------------------------------
ThreadStep(t) ==
  \/ Wait(t)
  \/ Check(t, "stop_check", "stop")
  \/ Stop(t)
  \/ Check(t, "start_check", "start")
  \/ Start(t)
  \/ ReadyCheck(t)
  \/ Begin(t)
  \/ Launch(t)
  \/ Finish(t)
  \/ Signal(t)
  \/ CheckPower(t)
  \/ SlaveBegin(t)
  \/ SlaveReady(t)

BusyStep(t) == StaysBusy(t) \/ SlaveStaysBusy(t)

HostStep ==
  \/ HostAddresses
  \/ HostData
  \/ HostFinishes
  \/ HostFinishesEmpty
  \/ HostError

OwnStep ==
  \/ \E t \in Threads : ThreadStep(t) \/ BusyStep(t) \/ TimesOut(t)
  \/ \E t \in Masters : Call(t)
  \/ UnstickPolls
  \/ UnstickResumes
  \/ TransferDone
  \/ TransferError
  \/ PowerChanges
  \/ Restart

Next ==
  \/ HostStep /\ hosted' = TRUE
  \/ OwnStep /\ hosted' = (hosted /\ \E t \in Masters : InSection(t)')

(* A thread that can run does, a timeout comes, and the independent        *)
(* watchdog resets a halted system.  The host and the bus owe nothing.  A  *)
(* thread of low priority runs in the pauses of the others, hence SF.      *)
progress == <<th, halted>>

Fairness ==
  /\ \A t \in Threads :
       /\ SF_progress(ThreadStep(t) \/ BusyStep(t))
       /\ WF_progress(TimesOut(t))
  /\ SF_progress(UnstickResumes)
  /\ WF_progress(Restart)

Spec == Init /\ [][Next]_vars /\ Fairness

-----------------------------------------------------------------------------
(* The variables stay within the types of the driver and the kernel.       *)
TypeOK ==
  /\ on \in BOOLEAN
  /\ i2cp \in [state : {"stop", "ready", "active", "locked", "uninit"},
               slave_mode : BOOLEAN, thread : Masters \union {Nobody}]
  /\ hw \in [port : {"off", "master", "slave", "dead"}, dma : BOOLEAN,
             xfer : Masters \union {Nobody}]
  /\ slave \in {"none", "addressed", "data"}
  /\ cut \in BOOLEAN
  /\ hosted \in BOOLEAN
  /\ sem.free \in BOOLEAN
  /\ sem.queue \in Seq(Masters)
  /\ th \in [Threads ->
       [pc : Blocked \union Driving \union Returning \union {"wait", "resume"},
        try : 0 .. MaxTries, msg : {"ok", "reset", "timeout"},
        aim : {"master", "slave"}]]
  /\ halted \in {"none", "state", "dma", "resume"}

(* master_slave_sem is taken only for a reason: a master between its wait  *)
(* and its signal, a host transaction in progress, or one that ended       *)
(* without its callback (`cut`).  Threads queue only while it is taken, so *)
(* with none of the three nobody waits for a signal that no code will      *)
(* send.                                                                   *)
SemaphoreHasAnOwner ==
  /\ ~sem.free => \/ \E t \in Masters : InSection(t)
                  \/ slave # "none"
                  \/ cut
  /\ sem.queue # <<>> => ~sem.free

(* A transfer that the port carries out ends in the thread that started    *)
(* it: the reference that the interrupt resumes names that thread or       *)
(* nobody, although a timeout leaves a stale reference, another thread may *)
(* have stopped and started the driver since, and masters overlap after a  *)
(* host transaction.                                                       *)
TransferWakesItsOwner ==
  hw.xfer # Nobody => i2cp.thread \in {hw.xfer, Nobody}

(* Whatever the interleaving, the threads leave the driver in a state from *)
(* which i2cStop and i2cStart accept to go on: their assertions can fail   *)
(* only because another thread is inside at the same time, or was while    *)
(* the one that fails was.                                                 *)
NobodyInsideMeansStoppable ==
  (\A t \in Threads : ~InDriver(t)) => Stoppable

(* As long as the slave interrupt stays out, master_slave_sem admits one   *)
(* master at a time: its hand-over to a queued thread, its release by a    *)
(* failed try, and the return to slave mode open no gap.  (After a host    *)
(* transaction it does not: the start callback wakes every waiting master, *)
(* and the signal at the end frees a semaphore that a master may hold.)    *)
OneMasterWithoutHost == ~hosted => AtMostOneMaster

(* senokoI2cMasterTransmitTimeout returns, by success, by its timeouts and *)
(* tries, or by the reset after a failed assertion, provided that again    *)
(* and again no host transaction is open and none was cut.                 *)
CallReturns ==
  []<>(slave = "none" /\ ~cut) =>
    \A t \in Masters : th[t].pc = "wait" ~> th[t].pc = "idle"

(* The assertions of i2cStop, i2cStart and i2cMasterTransmitTimeout on the *)
(* state of the driver hold whenever they are reached.                     *)
StopFindsItIdle == halted # "state"
=============================================================================
