--------------------------- MODULE I2cBus_proofs ---------------------------
(***************************************************************************)
(* Proofs about I2cBus, for every set of masters and every number of       *)
(* tries.                                                                  *)
(*                                                                         *)
(* BusInv adds to the invariants of the run what makes them inductive:     *)
(* whoever is in the queue of the semaphore waits there, once; the thread  *)
(* that unsticks the bus never goes the way of a master; while no slave    *)
(* interrupt has run, a master that is inside has taken the semaphore; and *)
(* a driver state that i2cStop does not accept belongs to a thread that is *)
(* about to replace it (Holding).                                          *)
(*                                                                         *)
(* OffInv says how much more is true while the mainboard is off, when no   *)
(* host speaks and no thread returns to slave mode.                        *)
(***************************************************************************)
EXTENDS I2cBus, SequenceTheorems, TLAPS

-----------------------------------------------------------------------------
Points ==
  Blocked \union Driving \union Returning \union {"wait", "resume"}

ThreadStates ==
  [pc : Points, try : 0 .. MaxTries, msg : {"ok", "reset", "timeout"},
   aim : {"master", "slave"}]

DriverStates ==
  [state : {"stop", "ready", "active", "locked", "uninit"},
   slave_mode : BOOLEAN, thread : Masters \union {Nobody}]

PortStates ==
  [port : {"off", "master", "slave", "dead"}, dma : BOOLEAN,
   xfer : Masters \union {Nobody}]

Assertions == {"none", "state", "dma", "resume"}

UnstickPoints ==
  {"idle", "resume", "check_power", "stop_check", "stop", "start_check",
   "start", "s_begin", "s_busy"}

UnstickAway ==
  th["unstick"].aim = "slave" /\ th["unstick"].pc \in UnstickPoints

(* Points that only the way of a master leads to.                          *)
MasterPoints ==
  {"ready_check", "begin", "busy_wait", "suspended", "finish", "signal"}

MastersAim ==
  \A t \in Threads : th[t].pc \in MasterPoints => th[t].aim = "master"

(* The queue holds threads that wait in it, each once.                     *)
QueueWaits ==
  /\ \A i \in 1 .. Len(sem.queue) : th[sem.queue[i]].pc = "queued"
  /\ \A i, j \in 1 .. Len(sem.queue) :
       sem.queue[i] = sem.queue[j] => i = j

(* Points that are left only by giving the driver a state to stop from.    *)
Holding == {"busy_wait", "suspended", "finish", "s_busy"}

StateIsHeld ==
  i2cp.state \in {"active", "uninit"} =>
    \E t \in Threads : th[t].pc \in Holding

SomeMaster == \E t \in Masters : InSection(t)

MasterHasIt ==
  ~hosted => AtMostOneMaster /\ (SomeMaster => ~sem.free)

BusInv ==
  /\ TypeOK
  /\ sem \in [free : BOOLEAN, queue : Seq(Masters)]
  /\ UnstickAway
  /\ MastersAim
  /\ QueueWaits
  /\ SemaphoreHasAnOwner
  /\ TransferWakesItsOwner
  /\ StateIsHeld
  /\ MasterHasIt

-----------------------------------------------------------------------------
(* The types, by name.                                                     *)
LEMMA TypesByName ==
  TypeOK <=> /\ on \in BOOLEAN
             /\ i2cp \in DriverStates
             /\ hw \in PortStates
             /\ slave \in {"none", "addressed", "data"}
             /\ cut \in BOOLEAN
             /\ hosted \in BOOLEAN
             /\ sem.free \in BOOLEAN
             /\ sem.queue \in Seq(Masters)
             /\ th \in [Threads -> ThreadStates]
             /\ halted \in Assertions
BY DEF TypeOK, DriverStates, PortStates, ThreadStates, Points, Assertions

(* The masters and the thread that unsticks the bus.                       *)
LEMMA WhoIsWho ==
  /\ Masters \subseteq Threads /\ "unstick" \in Threads
  /\ "unstick" \notin Masters /\ Nobody \notin Threads
  /\ \A t \in Threads : t \in Masters \/ t = "unstick"
BY MastersAssumption DEF Threads, Nobody

(* A thread at rest.                                                       *)
LEMMA RestIsTyped ==
  /\ Idle \in ThreadStates
  /\ Idle.pc = "idle" /\ Idle.aim = "slave" /\ Idle.try = 0
  /\ Idle.msg = "ok"
BY TriesAssumption DEF Idle, ThreadStates, Points, Blocked

(* A master with the semaphore.                                            *)
LEMMA ResumedIsTyped ==
  ASSUME NEW r \in ThreadStates
  PROVE  /\ Resumed(r) \in ThreadStates
         /\ Resumed(r).pc = "stop_check" /\ Resumed(r).aim = "master"
BY DEF Resumed, ThreadStates, Points, Driving

(* One thread moves and the semaphore is left alone: a step that neither   *)
(* enters nor leaves the section of a master.                              *)
LEMMA Moved ==
  ASSUME BusInv, NEW t \in Threads, NEW r \in ThreadStates,
         th' = [th EXCEPT ![t] = r],
         hosted' = (hosted /\ SomeMaster'), UNCHANGED <<on, sem>>,
         i2cp' \in DriverStates, hw' \in PortStates,
         slave' \in {"none", "addressed", "data"}, cut' \in BOOLEAN,
         halted' \in Assertions,
         slave # "none" \/ cut => slave' # "none" \/ cut',
         InSection(t) <=> r.pc \in Driving /\ r.aim = "master",
         th[t].pc # "queued",
         t = "unstick" => r.aim = "slave" /\ r.pc \in UnstickPoints,
         r.pc \in MasterPoints => r.aim = "master",
         hw'.xfer # Nobody => i2cp'.thread \in {hw'.xfer, Nobody},
         i2cp'.state \in {"active", "uninit"} =>
           \/ r.pc \in Holding
           \/ i2cp'.state = i2cp.state /\ th[t].pc \notin Holding
  PROVE  BusInv'
<1>1. /\ th \in [Threads -> ThreadStates] /\ th'[t] = r
      /\ th' \in [Threads -> ThreadStates]
      /\ \A u \in Threads \ {t} : th'[u] = th[u]
  BY TypesByName DEF BusInv
<1>2. \A u \in Threads : InSection(u)' <=> InSection(u)
  BY <1>1 DEF InSection
<1>3. TypeOK' /\ (sem \in [free : BOOLEAN, queue : Seq(Masters)])'
  <2>1. hosted' \in BOOLEAN
    BY DEF SomeMaster, BusInv, TypeOK
  <2> QED
    BY <1>1, <2>1
    DEF BusInv, TypeOK, DriverStates, PortStates, ThreadStates, Points,
        Assertions
<1>4. UnstickAway'
  BY <1>1, WhoIsWho DEF BusInv, UnstickAway
<1>5. QueueWaits'
  <2>1. \A i \in 1 .. Len(sem.queue) : sem.queue[i] \in Threads
    BY WhoIsWho DEF BusInv
  <2> QED
    BY <1>1, <2>1 DEF BusInv, QueueWaits
<1>6. SomeMaster' <=> SomeMaster
  BY <1>2, WhoIsWho DEF SomeMaster
<1>7. SemaphoreHasAnOwner'
  BY <1>6 DEF BusInv, SemaphoreHasAnOwner, SomeMaster
<1>8. TransferWakesItsOwner'
  BY DEF TransferWakesItsOwner
<1>9. StateIsHeld'
  <2> SUFFICES ASSUME i2cp'.state \in {"active", "uninit"}
               PROVE  \E u \in Threads : th'[u].pc \in Holding
    BY DEF StateIsHeld
  <2>1. CASE r.pc \in Holding
    BY <1>1, <2>1
  <2>2. CASE i2cp'.state = i2cp.state /\ th[t].pc \notin Holding
    <3>1. PICK u \in Threads : th[u].pc \in Holding
      BY <2>2 DEF BusInv, StateIsHeld
    <3> QED
      BY <1>1, <2>2, <3>1
  <2> QED
    BY <2>1, <2>2
<1>10. MasterHasIt'
  <2>1. AtMostOneMaster => AtMostOneMaster'
    BY <1>2, WhoIsWho DEF AtMostOneMaster
  <2>2. ~SomeMaster => AtMostOneMaster'
    BY <1>2, WhoIsWho DEF AtMostOneMaster, SomeMaster
  <2> QED
    BY <1>6, <2>1, <2>2 DEF BusInv, MasterHasIt
<1>11. MastersAim'
  BY <1>1 DEF BusInv, MastersAim
<1> QED
  BY <1>3, <1>4, <1>5, <1>7, <1>8, <1>9, <1>10, <1>11 DEF BusInv

-----------------------------------------------------------------------------
(* The steps that lead a thread to its section and through the driver.     *)

(* A thread that goes to another point of the same part of its way.        *)
LEMMA GoneTo ==
  ASSUME BusInv, NEW t \in Threads, NEW label \in Points, Goto(t, label)
  PROVE  \E r \in ThreadStates :
           /\ th' = [th EXCEPT ![t] = r]
           /\ r.pc = label /\ r.aim = th[t].aim
           /\ r.try = th[t].try /\ r.msg = th[t].msg
<1> DEFINE r == [th[t] EXCEPT !.pc = label]
<1>1. th[t] \in ThreadStates
  BY TypesByName DEF BusInv
<1>2. /\ r \in ThreadStates /\ r.pc = label /\ r.aim = th[t].aim
      /\ r.try = th[t].try /\ r.msg = th[t].msg
  BY <1>1 DEF ThreadStates
<1>3. th' = [th EXCEPT ![t] = r]
  BY DEF Goto
<1> QED
  BY <1>2, <1>3

(* The assertions of i2cStop and i2cStart change nothing when they hold,   *)
(* and halt the system when they fail.                                     *)
LEMMA HaltKeeps ==
  ASSUME BusInv, hosted' = (hosted /\ SomeMaster'),
         halted' \in Assertions,
         UNCHANGED <<on, i2cp, hw, slave, cut, sem, th>>
  PROVE  BusInv'
<1>1. SomeMaster' <=> SomeMaster
  BY DEF SomeMaster, InSection
<1>2. TypeOK'
  BY DEF BusInv, TypeOK, Assertions, SomeMaster
<1>3. MasterHasIt'
  <2>1. AtMostOneMaster' <=> AtMostOneMaster
    BY DEF AtMostOneMaster, InSection
  <2>2. ~SomeMaster => AtMostOneMaster
    BY DEF AtMostOneMaster, SomeMaster
  <2> QED
    BY <1>1, <2>1, <2>2 DEF BusInv, MasterHasIt
<1>4. SemaphoreHasAnOwner'
  BY <1>1 DEF BusInv, SemaphoreHasAnOwner, SomeMaster
<1> QED
  BY <1>2, <1>3, <1>4
  DEF BusInv, UnstickAway, MastersAim, QueueWaits, TransferWakesItsOwner,
      StateIsHeld

(* The checks of the driver's state before its locked sections.            *)
LEMMA CheckKeeps ==
  ASSUME BusInv, NEW t \in Threads, hosted' = (hosted /\ SomeMaster'),
         \/ Check(t, "stop_check", "stop")
         \/ Check(t, "start_check", "start")
         \/ ReadyCheck(t)
  PROVE  BusInv'
<1>1. PICK from \in {"stop_check", "start_check", "ready_check"},
           to \in {"stop", "start", "begin"} :
        /\ th[t].pc = from
        /\ \/ Goto(t, to) /\ UNCHANGED halted
           \/ halted' = "state" /\ UNCHANGED th
        /\ (from = "ready_check") <=> (to = "begin")
        /\ UNCHANGED <<on, i2cp, hw, slave, cut, sem>>
  BY DEF Check, ReadyCheck, At, Halt
<1>2. CASE halted' = "state" /\ UNCHANGED th
  BY <1>1, <1>2, HaltKeeps DEF Assertions
<1>3. CASE Goto(t, to) /\ UNCHANGED halted
  <2>1. to \in Points /\ to \in Driving
        /\ from \in Driving /\ from \notin Holding /\ from # "queued"
    BY <1>1 DEF Points, Driving, Holding
  <2>2. PICK r \in ThreadStates : /\ th' = [th EXCEPT ![t] = r]
                                  /\ r.pc = to /\ r.aim = th[t].aim
    BY <1>3, <2>1, GoneTo
  <2>3. InSection(t) <=> r.pc \in Driving /\ r.aim = "master"
    BY <1>1, <2>1, <2>2 DEF InSection
  <2>4. t = "unstick" => r.aim = "slave" /\ r.pc \in UnstickPoints
    BY <1>1, <2>2 DEF BusInv, UnstickAway, UnstickPoints
  <2>5. r.pc \in MasterPoints => r.aim = "master"
    BY <1>1, <2>2 DEF BusInv, MastersAim, MasterPoints
  <2> QED
    BY <1>1, <1>3, <2>1, <2>2, <2>3, <2>4, <2>5, Moved, TypesByName
    DEF BusInv, TransferWakesItsOwner
<1> QED
  BY <1>1, <1>2, <1>3

(* The locked sections of i2cStop and i2cStart.                            *)
LEMMA StopKeeps ==
  ASSUME BusInv, NEW t \in Threads, hosted' = (hosted /\ SomeMaster'), Stop(t)
  PROVE  BusInv'
<1>1. CASE halted' = "dma" /\ UNCHANGED <<on, i2cp, hw, slave, cut, th, sem>>
  BY <1>1, HaltKeeps DEF Assertions
<1>2. CASE ~(halted' = "dma" /\ UNCHANGED <<on, i2cp, hw, slave, cut, th, sem>>)
  <2>1. /\ th[t].pc = "stop" /\ Goto(t, "start_check")
        /\ i2cp' = [i2cp EXCEPT !.state = "stop"]
        /\ \/ UNCHANGED <<hw, slave, cut>> /\ i2cp.state = "stop"
           \/ /\ hw' = [port |-> "off", dma |-> FALSE, xfer |-> Nobody]
              /\ PortReset
        /\ UNCHANGED <<on, sem, halted>>
    BY <1>2 DEF Stop, At, Halt
  <2>2. "start_check" \in Points
    BY DEF Points, Driving
  <2>3. PICK r \in ThreadStates :
          /\ th' = [th EXCEPT ![t] = r]
          /\ r.pc = "start_check" /\ r.aim = th[t].aim
    BY <2>1, <2>2, GoneTo
  <2>4. /\ i2cp' \in DriverStates /\ i2cp'.state = "stop"
        /\ i2cp'.thread = i2cp.thread
    BY <2>1, TypesByName DEF BusInv, DriverStates
  <2>5. /\ hw' \in PortStates
        /\ hw'.xfer # Nobody => hw'.xfer = hw.xfer
        /\ slave' \in {"none", "addressed", "data"} /\ cut' \in BOOLEAN
        /\ slave # "none" \/ cut => slave' # "none" \/ cut'
    <3>1. CASE UNCHANGED <<hw, slave, cut>>
      BY <3>1, TypesByName DEF BusInv
    <3>2. CASE /\ hw' = [port |-> "off", dma |-> FALSE, xfer |-> Nobody]
               /\ PortReset
      <4>1. hw' \in PortStates /\ hw'.xfer = Nobody
        BY <3>2 DEF PortStates
      <4> QED
        BY <3>2, <4>1, TypesByName DEF BusInv, PortReset
    <3> QED
      BY <2>1, <3>1, <3>2
  <2>6. /\ InSection(t) <=> r.pc \in Driving /\ r.aim = "master"
        /\ t = "unstick" => r.aim = "slave" /\ r.pc \in UnstickPoints
        /\ r.pc \notin MasterPoints
    BY <2>1, <2>3 DEF InSection, Driving, BusInv, UnstickAway, UnstickPoints,
                      MasterPoints
  <2>7. hw'.xfer # Nobody => i2cp'.thread \in {hw'.xfer, Nobody}
    BY <2>4, <2>5 DEF BusInv, TransferWakesItsOwner
  <2>8. halted' \in Assertions
    BY <2>1, TypesByName DEF BusInv
  <2> QED
    BY <2>1, <2>3, <2>4, <2>5, <2>6, <2>7, <2>8, Moved
<1> QED
  BY <1>1, <1>2

(* A start leaves the driver ready, whoever starts it.                     *)
LEMMA StartKeeps ==
  ASSUME BusInv, NEW t \in Threads, hosted' = (hosted /\ SomeMaster'), Start(t)
  PROVE  BusInv'
<1> DEFINE next == IF th[t].aim = "master" THEN "ready_check" ELSE "s_begin"
<1>1. /\ th[t].pc = "start" /\ Goto(t, next)
      /\ i2cp' = [i2cp EXCEPT !.state = "ready", !.slave_mode = FALSE]
      /\ hw'.xfer = Nobody /\ hw' \in PortStates
      /\ PortReset
      /\ UNCHANGED <<on, sem, halted>>
  <2>1. hw \in PortStates
    BY TypesByName DEF BusInv
  <2> QED
    BY <2>1 DEF Start, At, PortStates
<1>2. next \in Points
  BY DEF Points, Driving, Returning
<1>3. PICK r \in ThreadStates :
        /\ th' = [th EXCEPT ![t] = r]
        /\ r.pc = next /\ r.aim = th[t].aim
  <2> HIDE DEF next
  <2> QED
    BY <1>1, <1>2, GoneTo
<1>4. i2cp' \in DriverStates /\ i2cp'.state = "ready"
  BY <1>1, TypesByName DEF BusInv, DriverStates
<1>5. /\ slave' \in {"none", "addressed", "data"} /\ cut' \in BOOLEAN
      /\ slave # "none" \/ cut => slave' # "none" \/ cut'
  BY <1>1, TypesByName DEF BusInv, PortReset
<1>6. /\ InSection(t) <=> r.pc \in Driving /\ r.aim = "master"
      /\ t = "unstick" => r.aim = "slave" /\ r.pc \in UnstickPoints
      /\ r.pc # "queued"
      /\ r.pc \in MasterPoints => r.aim = "master"
  BY <1>1, <1>3 DEF InSection, Driving, BusInv, UnstickAway, UnstickPoints,
                    MasterPoints
<1>7. halted' \in Assertions
  BY <1>1, TypesByName DEF BusInv
<1> HIDE DEF next
<1> QED
  BY <1>1, <1>3, <1>4, <1>5, <1>6, <1>7, Moved

(* i2cMasterTransmitTimeout, up to the suspension and after it.            *)
LEMMA DriveKeeps ==
  ASSUME BusInv, NEW t \in Threads, hosted' = (hosted /\ SomeMaster'),
         Begin(t) \/ StaysBusy(t) \/ Launch(t) \/ TimesOut(t) \/ Finish(t)
  PROVE  BusInv'
<1>1. /\ th[t].pc \in {"begin", "busy_wait", "suspended", "finish"}
      /\ UNCHANGED <<on, slave, cut, sem, halted>>
  BY DEF Begin, StaysBusy, Launch, TimesOut, Finish, At
<1>2. t \in Masters
  BY <1>1, WhoIsWho DEF BusInv, UnstickAway, UnstickPoints
<1>3. /\ th[t] \in ThreadStates /\ i2cp \in DriverStates /\ hw \in PortStates
      /\ slave \in {"none", "addressed", "data"} /\ cut \in BOOLEAN
      /\ halted \in Assertions
  BY TypesByName DEF BusInv
<1>4. PICK r \in ThreadStates :
        /\ th' = [th EXCEPT ![t] = r]
        /\ r.pc \in {"busy_wait", "suspended", "finish", "signal"}
        /\ r.aim = th[t].aim
        /\ r.pc = "signal" =>
             i2cp'.state \in {"ready", "locked"}
  <2>1. CASE StaysBusy(t)
    <3> DEFINE r == [th[t] EXCEPT !.pc = "signal", !.msg = "timeout"]
    <3>1. r \in ThreadStates /\ r.pc = "signal" /\ r.aim = th[t].aim
      BY <1>3 DEF ThreadStates, Points, Driving
    <3>2. th' = [th EXCEPT ![t] = r] /\ i2cp'.state = "locked"
      BY <1>3, <2>1 DEF StaysBusy, DriverStates
    <3> QED
      BY <3>1, <3>2
  <2>2. CASE TimesOut(t)
    <3> DEFINE r == [th[t] EXCEPT !.pc = "finish", !.msg = "timeout"]
    <3>1. r \in ThreadStates /\ r.pc = "finish" /\ r.aim = th[t].aim
      BY <1>3 DEF ThreadStates, Points, Driving
    <3>2. th' = [th EXCEPT ![t] = r]
      BY <2>2 DEF TimesOut
    <3> QED
      BY <3>1, <3>2
  <2>3. CASE Begin(t) \/ Launch(t) \/ Finish(t)
    <3>1. PICK label \in {"busy_wait", "suspended", "signal"} :
            /\ Goto(t, label)
            /\ label = "signal" => Finish(t)
      BY <2>3 DEF Begin, Launch, Finish
    <3>2. label \in Points
      BY <3>1 DEF Points, Driving
    <3>3. Finish(t) => i2cp'.state \in {"ready", "locked"}
      BY <1>3 DEF Finish, DriverStates
    <3> QED
      BY <3>1, <3>2, <3>3, GoneTo
  <2> QED
    BY <2>1, <2>2, <2>3
<1>5. /\ i2cp' \in DriverStates /\ hw' \in PortStates
      /\ hw'.xfer # Nobody => i2cp'.thread \in {hw'.xfer, Nobody}
  <2>1. CASE Launch(t)
    BY <1>2, <1>3, <2>1 DEF Launch, DriverStates, PortStates
  <2>2. CASE Begin(t) \/ StaysBusy(t) \/ TimesOut(t) \/ Finish(t)
    <3>1. i2cp' \in DriverStates /\ i2cp'.thread = i2cp.thread
          /\ UNCHANGED hw
      BY <1>3, <2>2
      DEF Begin, StaysBusy, TimesOut, Finish, DriverStates
    <3> QED
      BY <1>3, <3>1 DEF BusInv, TransferWakesItsOwner
  <2> QED
    BY <2>1, <2>2
<1>6. /\ InSection(t) <=> r.pc \in Driving /\ r.aim = "master"
      /\ r.pc \in MasterPoints => r.aim = "master"
  BY <1>1, <1>4 DEF InSection, Driving, BusInv, MastersAim, MasterPoints
<1>7. r.pc # "signal" => r.pc \in Holding
  BY <1>4 DEF Holding
<1>8. i2cp'.state \in {"active", "uninit"} => r.pc \in Holding
  BY <1>4, <1>7
<1> QED
  BY <1>1, <1>2, <1>3, <1>4, <1>5, <1>6, <1>8, Moved, WhoIsWho

-----------------------------------------------------------------------------
(* The calls, the return to slave mode and the polls.                      *)
LEMMA OutsideKeeps ==
  ASSUME BusInv, NEW t \in Threads, hosted' = (hosted /\ SomeMaster'),
         \/ t \in Masters /\ Call(t)
         \/ CheckPower(t) \/ SlaveBegin(t) \/ SlaveReady(t)
         \/ SlaveStaysBusy(t)
         \/ t = "unstick" /\ UnstickPolls
  PROVE  BusInv'
<1>1. /\ th[t] \in ThreadStates /\ i2cp \in DriverStates /\ hw \in PortStates
      /\ slave \in {"none", "addressed", "data"} /\ cut \in BOOLEAN
      /\ halted \in Assertions
  BY TypesByName DEF BusInv
<1>2. /\ th[t].pc \in {"idle", "check_power", "s_begin", "s_busy"}
      /\ UNCHANGED <<on, sem, halted>>
  BY DEF Call, CheckPower, SlaveBegin, SlaveReady, SlaveStaysBusy,
         UnstickPolls, At
<1>3. ~InSection(t)
  BY <1>2 DEF InSection, Driving
<1>4. CASE t \in Masters /\ Call(t)
  <2> DEFINE r == [th[t] EXCEPT !.pc = "wait", !.try = 1]
  <2>1. r \in ThreadStates /\ r.pc = "wait"
    <3>1. 1 \in 0 .. MaxTries
      BY TriesAssumption
    <3> QED
      BY <1>1, <3>1 DEF ThreadStates, Points
  <2>2. th' = [th EXCEPT ![t] = r] /\ UNCHANGED <<i2cp, hw, slave, cut>>
        /\ th[t].pc = "idle"
    BY <1>4 DEF Call, At
  <2>3. r.pc \notin Driving /\ th[t].pc \notin Holding
        /\ r.pc \notin MasterPoints
    BY <2>1, <2>2 DEF Driving, Holding, MasterPoints
  <2> HIDE DEF r
  <2> QED
    BY <1>1, <1>2, <1>3, <1>4, <2>1, <2>2, <2>3, Moved, WhoIsWho
    DEF BusInv, TransferWakesItsOwner
<1>5. CASE CheckPower(t)
  <2> DEFINE r == IF on THEN [Idle EXCEPT !.pc = "stop_check"] ELSE Idle
  <2>1. r \in ThreadStates /\ r.pc \in {"stop_check", "idle"}
        /\ r.aim = "slave"
    BY RestIsTyped DEF ThreadStates, Points, Driving
  <2>2. th' = [th EXCEPT ![t] = r] /\ UNCHANGED <<i2cp, hw, slave, cut>>
        /\ th[t].pc = "check_power"
    BY <1>5 DEF CheckPower, At, Rest
  <2>3. th[t].pc \notin Holding /\ r.pc \in UnstickPoints /\ r.pc # "queued"
        /\ r.pc \notin MasterPoints
    BY <2>1, <2>2 DEF Holding, UnstickPoints, MasterPoints
  <2> HIDE DEF r
  <2> QED
    BY <1>1, <1>2, <1>3, <2>1, <2>2, <2>3, Moved
    DEF BusInv, TransferWakesItsOwner
<1>6. CASE SlaveBegin(t)
  <2>1. "s_busy" \in Points /\ "s_busy" \notin Driving
        /\ "s_busy" \in UnstickPoints /\ "s_busy" \in Holding
        /\ "s_busy" \notin MasterPoints
    BY DEF Points, Returning, Driving, UnstickPoints, Holding, MasterPoints
  <2>2. PICK r \in ThreadStates : /\ th' = [th EXCEPT ![t] = r]
                                  /\ r.pc = "s_busy" /\ r.aim = th[t].aim
    BY <1>6, <2>1, GoneTo DEF SlaveBegin
  <2>3. i2cp' \in DriverStates /\ i2cp'.thread = i2cp.thread
        /\ UNCHANGED <<hw, slave, cut>>
    BY <1>1, <1>6 DEF SlaveBegin, DriverStates
  <2> QED
    BY <1>1, <1>2, <1>3, <2>1, <2>2, <2>3, Moved
    DEF BusInv, TransferWakesItsOwner, UnstickAway
<1>7. CASE SlaveReady(t) \/ SlaveStaysBusy(t)
  <2>1. th' = [th EXCEPT ![t] = Idle]
    BY <1>7 DEF SlaveReady, SlaveStaysBusy, Rest
  <2>2. /\ i2cp' \in DriverStates /\ i2cp'.thread = i2cp.thread
        /\ i2cp'.state \in {"ready", "locked"}
    BY <1>1, <1>7 DEF SlaveReady, SlaveStaysBusy, DriverStates
  <2>3. hw' \in PortStates /\ hw'.xfer = hw.xfer
    BY <1>1, <1>7 DEF SlaveReady, SlaveStaysBusy, PortStates
  <2>4. /\ slave' \in {"none", "addressed", "data"} /\ cut' \in BOOLEAN
        /\ slave # "none" \/ cut => slave' # "none" \/ cut'
    <3>1. PortReset \/ UNCHANGED <<slave, cut>>
      BY <1>7 DEF SlaveReady, SlaveStaysBusy
    <3> QED
      BY <1>1, <3>1 DEF PortReset
  <2>5. Idle.pc \notin Driving /\ Idle.pc \in UnstickPoints
        /\ Idle.pc # "queued" /\ Idle.pc \notin MasterPoints
    BY RestIsTyped DEF Driving, UnstickPoints, MasterPoints
  <2> QED
    BY <1>1, <1>2, <1>3, <2>1, <2>2, <2>3, <2>4, <2>5, RestIsTyped, Moved
    DEF BusInv, TransferWakesItsOwner
<1>8. CASE t = "unstick" /\ UnstickPolls
  <2>1. PICK label \in {"resume", "check_power"} : Goto(t, label)
    BY <1>8 DEF UnstickPolls
  <2>2. label \in Points /\ label \notin Driving /\ label \in UnstickPoints
        /\ label # "queued" /\ label \notin MasterPoints
    BY <2>1 DEF Points, Returning, Driving, UnstickPoints, MasterPoints
  <2>3. PICK r \in ThreadStates : /\ th' = [th EXCEPT ![t] = r]
                                  /\ r.pc = label /\ r.aim = th[t].aim
    BY <2>1, <2>2, GoneTo
  <2>4. th[t].pc = "idle" /\ UNCHANGED <<i2cp, hw, slave, cut>>
    BY <1>8 DEF UnstickPolls, At
  <2>5. th[t].pc \notin Holding
    BY <2>4 DEF Holding
  <2> QED
    BY <1>1, <1>2, <1>3, <1>8, <2>2, <2>3, <2>4, <2>5, Moved
    DEF BusInv, TransferWakesItsOwner, UnstickAway
<1> QED
  BY <1>2, <1>4, <1>5, <1>6, <1>7, <1>8

-----------------------------------------------------------------------------
(* The semaphore.                                                          *)

(* Without its head the queue still holds waiting threads, each once.      *)
LEMMA RestOfQueue ==
  ASSUME BusInv, sem.queue # <<>>
  PROVE  /\ Head(sem.queue) \in Masters
         /\ th[Head(sem.queue)].pc = "queued"
         /\ Tail(sem.queue) \in Seq(Masters)
         /\ \A i \in 1 .. Len(Tail(sem.queue)) :
              /\ Tail(sem.queue)[i] \in Masters
              /\ Tail(sem.queue)[i] # Head(sem.queue)
              /\ th[Tail(sem.queue)[i]].pc = "queued"
         /\ \A i, j \in 1 .. Len(Tail(sem.queue)) :
              Tail(sem.queue)[i] = Tail(sem.queue)[j] => i = j
<1> DEFINE q == sem.queue
<1>1. q \in Seq(Masters) /\ q # <<>>
  BY DEF BusInv
<1>2. /\ \A i \in 1 .. Len(q) : q[i] \in Masters /\ th[q[i]].pc = "queued"
      /\ \A i, j \in 1 .. Len(q) : q[i] = q[j] => i = j
  BY <1>1 DEF BusInv, QueueWaits
<1> HIDE DEF q
<1>3. /\ Len(q) \in Nat /\ Len(q) >= 1 /\ Head(q) = q[1]
      /\ Tail(q) \in Seq(Masters) /\ Len(Tail(q)) = Len(q) - 1
      /\ \A i \in 1 .. Len(Tail(q)) : Tail(q)[i] = q[i + 1]
  BY <1>1, HeadTailProperties, EmptySeq
<1>4. Head(q) \in Masters /\ th[Head(q)].pc = "queued"
  BY <1>2, <1>3
<1>5. ASSUME NEW i \in 1 .. Len(Tail(q))
      PROVE  /\ Tail(q)[i] \in Masters
             /\ Tail(q)[i] # Head(q)
             /\ th[Tail(q)[i]].pc = "queued"
  <2>1. i + 1 \in 1 .. Len(q) /\ 1 \in 1 .. Len(q) /\ i + 1 # 1
    BY <1>3
  <2> QED
    BY <1>2, <1>3, <2>1
<1>6. ASSUME NEW i \in 1 .. Len(Tail(q)), NEW j \in 1 .. Len(Tail(q)),
             Tail(q)[i] = Tail(q)[j]
      PROVE  i = j
  <2>1. i + 1 \in 1 .. Len(q) /\ j + 1 \in 1 .. Len(q)
    BY <1>3
  <2>2. i + 1 = j + 1
    BY <1>2, <1>3, <1>6, <2>1
  <2> QED
    BY <2>2
<1> QED
  BY <1>3, <1>4, <1>5, <1>6 DEF q

(* The threads after a try, before its signal.                             *)
LEMMA TriedFacts ==
  ASSUME BusInv, NEW t \in Threads, th[t].pc = "signal",
         NEW again \in BOOLEAN, again => th[t].try < MaxTries
  PROVE  /\ Tried(t, again) \in [Threads -> ThreadStates]
         /\ Tried(t, again)[t].pc \in {"wait", "check_power"}
         /\ \A u \in Threads \ {t} : Tried(t, again)[u] = th[u]
         /\ \A u \in Threads :
              th[u].pc = "queued" => Tried(t, again)[u] = th[u]
<1> DEFINE r == IF again THEN [Idle EXCEPT !.pc = "wait",
                                           !.try = th[t].try + 1]
                         ELSE [Idle EXCEPT !.pc = "check_power"]
<1>1. th \in [Threads -> ThreadStates]
  BY TypesByName DEF BusInv
<1>2. Tried(t, again) = [th EXCEPT ![t] = r]
  BY DEF Tried
<1>3. r \in ThreadStates /\ r.pc \in {"wait", "check_power"}
  <2>1. th[t].try \in 0 .. MaxTries
    BY <1>1 DEF ThreadStates
  <2>2. again => th[t].try + 1 \in 0 .. MaxTries
    BY <2>1, TriesAssumption
  <2>3. {"wait", "check_power"} \subseteq Points
    BY DEF Points, Returning
  <2> QED
    BY <2>2, <2>3, RestIsTyped DEF ThreadStates
<1> HIDE DEF r
<1> QED
  BY <1>1, <1>2, <1>3

(* A signal frees the semaphore if nobody waits, and hands it to exactly   *)
(* one master otherwise.                                                   *)
Handed(threads, u) ==
  /\ u \in Masters /\ th[u].pc = "queued"
  /\ sem.queue # <<>> /\ u = Head(sem.queue)
  /\ Signalled(threads)[u].pc = "stop_check"
  /\ Signalled(threads)[u].aim = "master"

(* What a signal does to the threads and to the queue.                     *)
LEMMA SignalFacts ==
  ASSUME BusInv, SemSignal, NEW threads \in [Threads -> ThreadStates],
         \A u \in Threads : th[u].pc = "queued" => threads[u] = th[u]
  PROVE  /\ Signalled(threads) \in [Threads -> ThreadStates]
         /\ cut' = FALSE
         /\ sem' \in [free : BOOLEAN, queue : Seq(Masters)]
         /\ \A u \in Threads : \/ Signalled(threads)[u] = threads[u]
                               \/ Handed(threads, u)
         /\ sem'.free \/ \E u \in Masters : Handed(threads, u)
         /\ sem.queue # <<>> => ~sem'.free
         /\ sem'.queue # <<>> => ~sem'.free
         /\ \A i \in 1 .. Len(sem'.queue) :
              Signalled(threads)[sem'.queue[i]].pc = "queued"
         /\ \A i, j \in 1 .. Len(sem'.queue) :
              sem'.queue[i] = sem'.queue[j] => i = j
<1>0. sem \in [free : BOOLEAN, queue : Seq(Masters)]
  BY DEF BusInv
<1>1. CASE sem.queue = <<>>
  <2>1. sem' = [sem EXCEPT !.free = TRUE] /\ cut' = FALSE
    BY <1>1 DEF SemSignal
  <2>2. Signalled(threads) = threads
    BY <1>1 DEF Signalled
  <2>3. sem'.free = TRUE /\ sem'.queue = <<>>
        /\ sem' \in [free : BOOLEAN, queue : Seq(Masters)]
    BY <1>0, <1>1, <2>1
  <2>4. 1 .. Len(sem'.queue) = {}
    BY <2>3
  <2> QED
    BY <1>1, <2>1, <2>2, <2>3, <2>4
<1>2. CASE sem.queue # <<>>
  <2>1. sem' = [sem EXCEPT !.queue = Tail(@)] /\ cut' = FALSE
    BY <1>2 DEF SemSignal
  <2>2. sem'.queue = Tail(sem.queue) /\ sem'.free = sem.free
        /\ sem' \in [free : BOOLEAN, queue : Seq(Masters)]
    BY <1>0, <1>2, <2>1, RestOfQueue
  <2>3. ~sem.free
    BY <1>2 DEF BusInv, SemaphoreHasAnOwner
  <2>4. /\ Head(sem.queue) \in Masters /\ Head(sem.queue) \in Threads
        /\ th[Head(sem.queue)].pc = "queued"
    BY <1>2, RestOfQueue, WhoIsWho
  <2>5. \A u \in Threads :
          Signalled(threads)[u] = IF u = Head(sem.queue)
                                  THEN Resumed(threads[u]) ELSE threads[u]
    BY <1>2 DEF Signalled
  <2>6. \A u \in Threads : /\ Signalled(threads)[u] \in ThreadStates
                           /\ u = Head(sem.queue) => Handed(threads, u)
    BY <1>2, <2>4, <2>5, ResumedIsTyped DEF Handed
  <2>7. Signalled(threads) \in [Threads -> ThreadStates]
    BY <2>6 DEF Signalled
  <2>8. \A i \in 1 .. Len(sem'.queue) :
          Signalled(threads)[sem'.queue[i]].pc = "queued"
    BY <1>2, <2>2, <2>5, RestOfQueue, WhoIsWho
  <2>9. \A i, j \in 1 .. Len(sem'.queue) :
          sem'.queue[i] = sem'.queue[j] => i = j
    BY <1>2, <2>2, RestOfQueue
  <2> QED
    BY <2>1, <2>2, <2>3, <2>4, <2>5, <2>6, <2>7, <2>8, <2>9
<1> QED
  BY <1>1, <1>2

(* A thread that is resumed goes on from its suspension.                   *)
LEMMA ResumeFacts ==
  ASSUME BusInv, NEW msg \in {"ok", "reset", "timeout"},
         NEW threads \in [Threads -> ThreadStates],
         \A u \in Threads : th[u].pc = "suspended" => threads[u] = th[u],
         Resume(msg, threads)
  PROVE  /\ th' \in [Threads -> ThreadStates]
         /\ i2cp' \in DriverStates /\ i2cp'.state = i2cp.state
         /\ i2cp'.thread \in {i2cp.thread, Nobody}
         /\ halted' \in Assertions
         /\ \A u \in Threads :
              \/ th'[u] = threads[u]
              \/ /\ th[u].pc = "suspended" /\ th'[u].pc = "finish"
                 /\ th'[u].aim = th[u].aim
<1> DEFINE tp == i2cp.thread
<1>0. i2cp \in DriverStates /\ halted \in Assertions
  BY TypesByName DEF BusInv
<1>1. CASE th' = threads /\ UNCHANGED i2cp
  BY <1>0, <1>1 DEF Resume, Halt, Assertions
<1>2. CASE ~(th' = threads /\ UNCHANGED i2cp)
  <2>1. /\ tp # Nobody /\ th[tp].pc = "suspended"
        /\ i2cp' = [i2cp EXCEPT !.thread = Nobody]
        /\ th' = [threads EXCEPT ![tp].pc = "finish", ![tp].msg = msg]
        /\ UNCHANGED halted
    BY <1>2 DEF Resume
  <2>2. tp \in Threads
    BY <1>0, <2>1, WhoIsWho DEF DriverStates
  <2> HIDE DEF tp
  <2> DEFINE r == [threads[tp] EXCEPT !.pc = "finish", !.msg = msg]
  <2>3. threads[tp] = th[tp] /\ threads[tp] \in ThreadStates
    BY <2>1, <2>2
  <2>4. r \in ThreadStates /\ r.pc = "finish" /\ r.aim = th[tp].aim
    BY <2>3 DEF ThreadStates, Points, Driving
  <2>5. th' = [threads EXCEPT ![tp] = r]
    BY <2>1
  <2> HIDE DEF r
  <2>6. /\ th' \in [Threads -> ThreadStates] /\ th'[tp] = r
        /\ \A u \in Threads \ {tp} : th'[u] = threads[u]
    BY <2>2, <2>4, <2>5
  <2>7. /\ i2cp' \in DriverStates /\ i2cp'.state = i2cp.state
        /\ i2cp'.thread = Nobody
    BY <1>0, <2>1 DEF DriverStates
  <2> QED
    BY <1>0, <2>1, <2>4, <2>6, <2>7
<1> QED
  BY <1>1, <1>2

-----------------------------------------------------------------------------
(* What a thread does in a step that touches the semaphore or the          *)
(* reference in the driver.                                                *)
Goes(u) ==
  \/ th'[u] = th[u]
  \/ /\ u \in Masters /\ th[u].pc \in {"wait", "queued"}
     /\ th'[u].pc = "stop_check" /\ th'[u].aim = "master"
  \/ /\ th[u].pc = "suspended" /\ th'[u].pc = "finish"
     /\ th'[u].aim = th[u].aim
  \/ /\ th[u].pc = "signal" /\ th'[u].pc \in {"wait", "check_power"}
  \/ /\ th[u].pc = "wait" /\ th'[u].pc = "queued"
  \/ /\ u = "unstick" /\ th[u].pc = "resume"
     /\ th'[u].pc = "idle" /\ th'[u].aim = th[u].aim

(* Such a step keeps the invariant if it keeps what is said of the         *)
(* semaphore.                                                              *)
LEMMA Assembled ==
  ASSUME BusInv, on' \in BOOLEAN, i2cp' \in DriverStates,
         i2cp'.state = i2cp.state, i2cp'.thread \in {i2cp.thread, Nobody},
         hw' \in PortStates, hw'.xfer \in {hw.xfer, Nobody},
         slave' \in {"none", "addressed", "data"}, cut' \in BOOLEAN,
         hosted' \in BOOLEAN, halted' \in Assertions,
         sem' \in [free : BOOLEAN, queue : Seq(Masters)],
         th' \in [Threads -> ThreadStates], \A u \in Threads : Goes(u),
         QueueWaits', SemaphoreHasAnOwner', MasterHasIt'
  PROVE  BusInv'
<1>1. TypeOK'
  BY DEF TypeOK, DriverStates, PortStates, ThreadStates, Points, Assertions
<1>2. UnstickAway'
  <2>1. /\ th["unstick"].aim = "slave" /\ th["unstick"].pc \in UnstickPoints
        /\ Goes("unstick")
    BY WhoIsWho DEF BusInv, UnstickAway
  <2> QED
    BY <2>1, WhoIsWho DEF Goes, UnstickAway, UnstickPoints
<1>3. MastersAim'
  <2> SUFFICES ASSUME NEW u \in Threads, th'[u].pc \in MasterPoints
               PROVE  th'[u].aim = "master"
    BY DEF MastersAim
  <2> QED
    BY DEF Goes, BusInv, MastersAim, MasterPoints
<1>4. TransferWakesItsOwner'
  BY DEF BusInv, TransferWakesItsOwner
<1>5. StateIsHeld'
  <2> SUFFICES ASSUME i2cp'.state \in {"active", "uninit"}
               PROVE  \E u \in Threads : th'[u].pc \in Holding
    BY DEF StateIsHeld
  <2>1. PICK u \in Threads : th[u].pc \in Holding
    BY DEF BusInv, StateIsHeld
  <2>2. Goes(u)
    OBVIOUS
  <2> QED
    BY <2>1, <2>2 DEF Goes, Holding
<1> QED
  BY <1>1, <1>2, <1>3, <1>4, <1>5 DEF BusInv

(* The threads in the queue are masters that wait there.                   *)
LEMMA InTheQueue ==
  ASSUME BusInv
  PROVE  \A i \in 1 .. Len(sem.queue) :
           /\ sem.queue[i] \in Masters /\ sem.queue[i] \in Threads
           /\ th[sem.queue[i]].pc = "queued"
BY WhoIsWho DEF BusInv, QueueWaits

(* A step that leaves the semaphore alone and lets no master enter or      *)
(* leave its section.                                                      *)
LEMMA SectionsKept ==
  ASSUME BusInv, UNCHANGED sem, hosted' \in {hosted, hosted /\ SomeMaster'},
         \A u \in Masters : InSection(u)' <=> InSection(u),
         slave # "none" \/ cut => slave' # "none" \/ cut',
         \A u \in Threads : th[u].pc = "queued" => th'[u].pc = "queued"
  PROVE  /\ QueueWaits' /\ SemaphoreHasAnOwner' /\ MasterHasIt'
         /\ hosted' \in BOOLEAN
<1>1. QueueWaits'
  BY InTheQueue DEF BusInv, QueueWaits
<1>2. SomeMaster' <=> SomeMaster
  BY DEF SomeMaster
<1>3. SemaphoreHasAnOwner'
  BY <1>2 DEF BusInv, SemaphoreHasAnOwner, SomeMaster
<1>4. MasterHasIt'
  <2>1. AtMostOneMaster => AtMostOneMaster'
    BY DEF AtMostOneMaster
  <2>2. ~SomeMaster => AtMostOneMaster'
    BY DEF AtMostOneMaster, SomeMaster
  <2> QED
    BY <1>2, <2>1, <2>2 DEF BusInv, MasterHasIt
<1>5. hosted' \in BOOLEAN
  BY DEF BusInv, TypeOK, SomeMaster
<1> QED
  BY <1>1, <1>3, <1>4, <1>5

-----------------------------------------------------------------------------
(* chBSemWait finds the semaphore free, and is then the only owner.        *)
LEMMA TakeKeeps ==
  ASSUME BusInv, NEW t \in Threads, hosted' = (hosted /\ SomeMaster'),
         Wait(t), sem.free
  PROVE  BusInv'
<1>1. /\ th[t].pc = "wait" /\ sem' = [sem EXCEPT !.free = FALSE]
      /\ th' = [th EXCEPT ![t] = Resumed(th[t])]
      /\ UNCHANGED <<on, i2cp, hw, slave, cut, halted>>
  BY DEF Wait, At
<1>2. /\ on \in BOOLEAN /\ i2cp \in DriverStates /\ hw \in PortStates
      /\ slave \in {"none", "addressed", "data"} /\ cut \in BOOLEAN
      /\ halted \in Assertions /\ th \in [Threads -> ThreadStates]
      /\ sem \in [free : BOOLEAN, queue : Seq(Masters)]
  BY TypesByName DEF BusInv
<1>3. t \in Masters
  BY <1>1, WhoIsWho DEF BusInv, UnstickAway, UnstickPoints
<1>4. /\ th' \in [Threads -> ThreadStates]
      /\ th'[t].pc = "stop_check" /\ th'[t].aim = "master"
      /\ \A u \in Threads \ {t} : th'[u] = th[u]
  BY <1>1, <1>2, ResumedIsTyped
<1>5. sem'.free = FALSE /\ sem'.queue = sem.queue
      /\ sem' \in [free : BOOLEAN, queue : Seq(Masters)]
  BY <1>1, <1>2
<1>6. \A u \in Threads : Goes(u)
  BY <1>1, <1>3, <1>4 DEF Goes
<1>7. InSection(t)'
  BY <1>4 DEF InSection, Driving
<1>8. SomeMaster'
  BY <1>3, <1>7 DEF SomeMaster
<1>9. QueueWaits'
  BY <1>1, <1>4, <1>5, InTheQueue DEF BusInv, QueueWaits
<1>10. SemaphoreHasAnOwner'
  BY <1>3, <1>5, <1>7 DEF SemaphoreHasAnOwner
<1>11. MasterHasIt'
  <2> SUFFICES ASSUME ~hosted' PROVE AtMostOneMaster' /\ ~sem'.free
    BY DEF MasterHasIt
  <2>1. ~SomeMaster
    BY <1>8 DEF BusInv, MasterHasIt
  <2>2. \A u \in Masters \ {t} : ~InSection(u)'
    BY <1>4, <2>1, WhoIsWho DEF SomeMaster, InSection
  <2> QED
    BY <1>5, <2>2 DEF AtMostOneMaster
<1>12. hosted' \in BOOLEAN
  BY DEF BusInv, TypeOK, SomeMaster
<1> QED
  BY <1>1, <1>2, <1>4, <1>5, <1>6, <1>9, <1>10, <1>11, <1>12, Assembled

(* chBSemWait finds it taken: the master queues, behind those that wait.   *)
LEMMA QueueKeeps ==
  ASSUME BusInv, NEW t \in Threads, hosted' = (hosted /\ SomeMaster'),
         Wait(t), ~sem.free
  PROVE  BusInv'
<1>1. /\ th[t].pc = "wait" /\ Goto(t, "queued")
      /\ sem' = [sem EXCEPT !.queue = Append(sem.queue, t)]
      /\ UNCHANGED <<on, i2cp, hw, slave, cut, halted>>
  BY DEF Wait, At
<1>2. /\ on \in BOOLEAN /\ i2cp \in DriverStates /\ hw \in PortStates
      /\ slave \in {"none", "addressed", "data"} /\ cut \in BOOLEAN
      /\ halted \in Assertions /\ th \in [Threads -> ThreadStates]
      /\ sem \in [free : BOOLEAN, queue : Seq(Masters)]
  BY TypesByName DEF BusInv
<1>3. t \in Masters
  BY <1>1, WhoIsWho DEF BusInv, UnstickAway, UnstickPoints
<1>4. PICK r \in ThreadStates : th' = [th EXCEPT ![t] = r] /\ r.pc = "queued"
  <2>1. "queued" \in Points
    BY DEF Points, Blocked
  <2> QED
    BY <1>1, <2>1, GoneTo
<1>5. /\ th' \in [Threads -> ThreadStates] /\ th'[t].pc = "queued"
      /\ \A u \in Threads \ {t} : th'[u] = th[u]
  BY <1>2, <1>4
<1>6. /\ sem'.free = FALSE /\ sem'.queue = Append(sem.queue, t)
      /\ sem' \in [free : BOOLEAN, queue : Seq(Masters)]
  BY <1>1, <1>2, <1>3
<1>7. \A u \in Threads : Goes(u)
  BY <1>1, <1>5 DEF Goes
<1>8. \A u \in Masters : InSection(u)' <=> InSection(u)
  BY <1>1, <1>5, WhoIsWho DEF InSection, Driving
<1>9. SomeMaster' <=> SomeMaster
  BY <1>8 DEF SomeMaster
<1>10. QueueWaits'
  <2> DEFINE q == sem.queue
             n == Len(sem.queue)
  <2>1. q \in Seq(Masters) /\ n \in Nat
    BY <1>2
  <2>2. /\ \A i \in 1 .. n : q[i] \in Threads /\ th[q[i]].pc = "queued"
        /\ \A i, j \in 1 .. n : q[i] = q[j] => i = j
    BY InTheQueue DEF BusInv, QueueWaits
  <2> HIDE DEF q
  <2>3. /\ Len(Append(q, t)) = n + 1 /\ Append(q, t)[n + 1] = t
        /\ \A i \in 1 .. n : Append(q, t)[i] = q[i]
    BY <1>3, <2>1 DEF q
  <2>4. \A i \in 1 .. n : q[i] # t
    BY <1>1, <2>2
  <2> HIDE DEF n
  <2>5. \A i \in 1 .. n + 1 : i \in 1 .. n \/ i = n + 1
    BY <2>1
  <2>6. \A i \in 1 .. n + 1 : th'[Append(q, t)[i]].pc = "queued"
    BY <1>5, <2>2, <2>3, <2>4, <2>5
  <2>7. \A i, j \in 1 .. n + 1 :
          Append(q, t)[i] = Append(q, t)[j] => i = j
    BY <2>2, <2>3, <2>4, <2>5
  <2> QED
    BY <1>6, <2>3, <2>6, <2>7 DEF QueueWaits, q
<1>11. SemaphoreHasAnOwner'
  <2>1. \/ \E u \in Masters : InSection(u)
        \/ slave # "none" \/ cut
    BY DEF BusInv, SemaphoreHasAnOwner
  <2> QED
    BY <1>1, <1>6, <1>8, <2>1 DEF SemaphoreHasAnOwner
<1>12. MasterHasIt'
  <2>1. AtMostOneMaster => AtMostOneMaster'
    BY <1>8 DEF AtMostOneMaster
  <2>2. ~SomeMaster' => AtMostOneMaster'
    BY DEF AtMostOneMaster, SomeMaster
  <2> QED
    BY <1>6, <2>1, <2>2 DEF BusInv, MasterHasIt
<1>13. hosted' \in BOOLEAN
  BY DEF BusInv, TypeOK, SomeMaster
<1> QED
  BY <1>1, <1>2, <1>5, <1>6, <1>7, <1>10, <1>11, <1>12, <1>13, Assembled

-----------------------------------------------------------------------------
(* The queue after a signal.                                               *)
LEMMA QueueSignalled ==
  ASSUME BusInv, SemSignal, NEW threads \in [Threads -> ThreadStates],
         \A u \in Threads : th[u].pc = "queued" => threads[u] = th[u],
         \A u \in Threads :
           Signalled(threads)[u].pc = "queued" => th'[u].pc = "queued"
  PROVE  QueueWaits'
<1>1. /\ sem' \in [free : BOOLEAN, queue : Seq(Masters)]
      /\ \A i \in 1 .. Len(sem'.queue) :
           Signalled(threads)[sem'.queue[i]].pc = "queued"
      /\ \A i, j \in 1 .. Len(sem'.queue) :
           sem'.queue[i] = sem'.queue[j] => i = j
  BY SignalFacts
<1>2. \A i \in 1 .. Len(sem'.queue) : sem'.queue[i] \in Threads
  BY <1>1, WhoIsWho
<1> QED
  BY <1>1, <1>2 DEF QueueWaits

(* The signal after a try: the one master inside is replaced by at most    *)
(* one of those that wait.                                                 *)
LEMMA SignalKeeps ==
  ASSUME BusInv, NEW t \in Threads, hosted' = (hosted /\ SomeMaster'),
         Signal(t)
  PROVE  BusInv'
<1> DEFINE again == th[t].msg # "ok" /\ th[t].try < MaxTries
           threads == Tried(t, again)
<1>1. /\ th[t].pc = "signal" /\ SemSignal /\ th' = Signalled(threads)
      /\ UNCHANGED <<on, i2cp, hw, slave, halted>>
  BY DEF Signal, At
<1>2. /\ on \in BOOLEAN /\ i2cp \in DriverStates /\ hw \in PortStates
      /\ slave \in {"none", "addressed", "data"}
      /\ halted \in Assertions /\ th \in [Threads -> ThreadStates]
  BY TypesByName DEF BusInv
<1>3. InSection(t) /\ t \in Masters
  BY <1>1, WhoIsWho
  DEF BusInv, MastersAim, MasterPoints, InSection, Driving, UnstickAway,
      UnstickPoints
<1>4. /\ threads \in [Threads -> ThreadStates]
      /\ threads[t].pc \in {"wait", "check_power"}
      /\ \A u \in Threads \ {t} : threads[u] = th[u]
  BY <1>1, TriedFacts
<1> HIDE DEF threads, again
<1>5. \A u \in Threads : th[u].pc = "queued" => threads[u] = th[u]
  BY <1>1, <1>4
<1>6. /\ th' \in [Threads -> ThreadStates]
      /\ cut' = FALSE
      /\ sem' \in [free : BOOLEAN, queue : Seq(Masters)]
      /\ \A u \in Threads : \/ th'[u] = threads[u]
                            \/ Handed(threads, u)
      /\ sem'.free \/ \E u \in Masters : Handed(threads, u)
      /\ sem.queue # <<>> => ~sem'.free
      /\ sem'.queue # <<>> => ~sem'.free
  BY <1>1, <1>4, <1>5, SignalFacts
<1>7. \A u \in Masters : Handed(threads, u) =>
        InSection(u)' /\ th'[u].pc = "stop_check" /\ th'[u].aim = "master"
  BY <1>1 DEF Handed, InSection, Driving
<1>8. \A u \in Threads : Goes(u)
  <2> SUFFICES ASSUME NEW u \in Threads PROVE Goes(u)
    OBVIOUS
  <2>1. CASE Handed(threads, u)
    BY <1>7, <2>1 DEF Goes, Handed
  <2>2. CASE th'[u] = threads[u]
    BY <1>1, <1>4, <2>2 DEF Goes
  <2> QED
    BY <1>6, <2>1, <2>2
<1>9. QueueWaits'
  BY <1>1, <1>4, <1>5, QueueSignalled
<1>10. SemaphoreHasAnOwner'
  BY <1>6, <1>7 DEF SemaphoreHasAnOwner
<1>11. MasterHasIt'
  <2> SUFFICES ASSUME ~hosted'
               PROVE  AtMostOneMaster' /\ (SomeMaster' => ~sem'.free)
    BY DEF MasterHasIt
  <2>1. CASE ~SomeMaster'
    BY <2>1 DEF AtMostOneMaster, SomeMaster
  <2>2. CASE SomeMaster'
    <3>1. AtMostOneMaster
      BY <2>2 DEF BusInv, MasterHasIt
    <3>2. \A u \in Masters : InSection(u)' =>
            u = Head(sem.queue) /\ sem.queue # <<>>
      <4> SUFFICES ASSUME NEW u \in Masters, InSection(u)',
                          ~Handed(threads, u)
                   PROVE  FALSE
        BY DEF Handed
      <4>1. th'[u] = threads[u] /\ u \in Threads
        BY <1>6, WhoIsWho
      <4>2. u # t
        BY <1>4, <4>1 DEF InSection, Driving
      <4>3. InSection(u)
        BY <1>4, <4>1, <4>2 DEF InSection
      <4> QED
        BY <1>3, <3>1, <4>2, <4>3 DEF AtMostOneMaster
    <3> QED
      BY <1>6, <2>2, <3>2 DEF AtMostOneMaster, SomeMaster
  <2> QED
    BY <2>1, <2>2
<1>12. hosted' \in BOOLEAN
  BY DEF BusInv, TypeOK, SomeMaster
<1> QED
  BY <1>1, <1>2, <1>6, <1>8, <1>9, <1>10, <1>11, <1>12, Assembled

-----------------------------------------------------------------------------
(* The interrupts of a transfer, and the unsticker: each resumes the       *)
(* thread that the reference names.                                        *)
LEMMA ResumeKeeps ==
  ASSUME BusInv, hosted' = (hosted /\ SomeMaster'),
         TransferDone \/ TransferError \/ UnstickResumes
  PROVE  BusInv'
<1> DEFINE threads == IF UnstickResumes
                      THEN [th EXCEPT !["unstick"].pc = "idle"] ELSE th
<1>1. /\ on \in BOOLEAN /\ i2cp \in DriverStates /\ hw \in PortStates
      /\ slave \in {"none", "addressed", "data"} /\ cut \in BOOLEAN
      /\ halted \in Assertions /\ th \in [Threads -> ThreadStates]
      /\ sem \in [free : BOOLEAN, queue : Seq(Masters)]
  BY TypesByName DEF BusInv
<1>2. /\ UNCHANGED <<on, slave, cut, sem>>
      /\ \E msg \in {"ok", "reset"} : Resume(msg, threads)
  <2>1. CASE UnstickResumes
    BY <2>1 DEF UnstickResumes
  <2>2. CASE ~UnstickResumes
    BY <2>2 DEF TransferDone, TransferError
  <2> QED
    BY <2>1, <2>2
<1>3. hw' \in PortStates /\ hw'.xfer \in {hw.xfer, Nobody}
  <2>1. UNCHANGED hw \/ hw' = [hw EXCEPT !.xfer = Nobody]
    BY DEF TransferDone, TransferError, UnstickResumes
  <2> QED
    BY <1>1, <2>1 DEF PortStates
<1>4. /\ threads \in [Threads -> ThreadStates]
      /\ \A u \in Threads :
           \/ threads[u] = th[u]
           \/ /\ u = "unstick" /\ th[u].pc = "resume"
              /\ threads[u].pc = "idle" /\ threads[u].aim = th[u].aim
  <2>1. CASE UnstickResumes
    <3> DEFINE r == [th["unstick"] EXCEPT !.pc = "idle"]
    <3>1. th["unstick"] \in ThreadStates /\ th["unstick"].pc = "resume"
      BY <1>1, <2>1, WhoIsWho DEF UnstickResumes, At
    <3>2. r \in ThreadStates /\ r.pc = "idle"
          /\ r.aim = th["unstick"].aim
      BY <3>1 DEF ThreadStates, Points, Blocked
    <3>3. threads = [th EXCEPT !["unstick"] = r]
      BY <2>1
    <3> HIDE DEF r, threads
    <3> QED
      BY <1>1, <3>1, <3>2, <3>3, WhoIsWho
  <2>2. CASE ~UnstickResumes
    BY <1>1, <2>2
  <2> QED
    BY <2>1, <2>2
<1> HIDE DEF threads
<1>5. \A u \in Threads : th[u].pc = "suspended" => threads[u] = th[u]
  BY <1>4
<1>6. /\ th' \in [Threads -> ThreadStates]
      /\ i2cp' \in DriverStates /\ i2cp'.state = i2cp.state
      /\ i2cp'.thread \in {i2cp.thread, Nobody}
      /\ halted' \in Assertions
      /\ \A u \in Threads :
           \/ th'[u] = threads[u]
           \/ /\ th[u].pc = "suspended" /\ th'[u].pc = "finish"
              /\ th'[u].aim = th[u].aim
  BY <1>2, <1>4, <1>5, ResumeFacts
<1>7. \A u \in Threads :
        \/ th'[u] = th[u]
        \/ /\ th[u].pc = "suspended" /\ th'[u].pc = "finish"
           /\ th'[u].aim = th[u].aim
        \/ /\ u = "unstick" /\ th[u].pc = "resume"
           /\ th'[u].pc = "idle" /\ th'[u].aim = th[u].aim
  BY <1>4, <1>6
<1>8. \A u \in Threads : Goes(u)
  BY <1>7 DEF Goes
<1>9. \A u \in Masters : InSection(u)' <=> InSection(u)
  BY <1>7, WhoIsWho DEF InSection, Driving
<1>10. \A u \in Threads : th[u].pc = "queued" => th'[u].pc = "queued"
  BY <1>7
<1>11. /\ QueueWaits' /\ SemaphoreHasAnOwner' /\ MasterHasIt'
       /\ hosted' \in BOOLEAN
  BY <1>2, <1>9, <1>10, SectionsKept
<1> QED
  BY <1>1, <1>2, <1>3, <1>6, <1>8, <1>11, Assembled

(* The mainboard's power goes or comes.                                    *)
LEMMA PowerKeeps ==
  ASSUME BusInv, hosted' = (hosted /\ SomeMaster'), PowerChanges
  PROVE  BusInv'
<1>1. on' = ~on /\ UNCHANGED <<i2cp, hw, slave, cut, sem, th, halted>>
  BY DEF PowerChanges
<1>2. /\ i2cp \in DriverStates /\ hw \in PortStates
      /\ slave \in {"none", "addressed", "data"} /\ cut \in BOOLEAN
      /\ halted \in Assertions /\ th \in [Threads -> ThreadStates]
      /\ sem \in [free : BOOLEAN, queue : Seq(Masters)]
  BY TypesByName DEF BusInv
<1>3. /\ QueueWaits' /\ SemaphoreHasAnOwner' /\ MasterHasIt'
      /\ hosted' \in BOOLEAN
  BY <1>1, SectionsKept DEF InSection
<1> QED
  BY <1>1, <1>2, <1>3, Assembled DEF Goes

-----------------------------------------------------------------------------
(* The interrupts of a host transaction.                                   *)
LEMMA HostKeeps ==
  ASSUME BusInv, HostStep, hosted' = TRUE
  PROVE  BusInv'
<1>1. /\ on \in BOOLEAN /\ i2cp \in DriverStates /\ hw \in PortStates
      /\ slave \in {"none", "addressed", "data"} /\ cut \in BOOLEAN
      /\ halted \in Assertions /\ th \in [Threads -> ThreadStates]
      /\ sem \in [free : BOOLEAN, queue : Seq(Masters)]
  BY TypesByName DEF BusInv
<1>2. MasterHasIt'
  BY DEF MasterHasIt
<1>3. CASE HostAddresses
  <2>1. /\ sem' = [free |-> FALSE, queue |-> <<>>] /\ cut' = FALSE
        /\ th' = [u \in Threads |-> IF th[u].pc = "queued"
                                    THEN Resumed(th[u]) ELSE th[u]]
        /\ slave' = "addressed" /\ UNCHANGED <<on, i2cp, hw, halted>>
    BY <1>3 DEF HostAddresses, SemResetTaken
  <2>2. th' \in [Threads -> ThreadStates]
    BY <1>1, <2>1, ResumedIsTyped
  <2>3. \A u \in Threads : th[u].pc = "queued" => u \in Masters
    BY WhoIsWho DEF BusInv, UnstickAway, UnstickPoints
  <2>4. \A u \in Threads : Goes(u)
    BY <1>1, <2>1, <2>3, ResumedIsTyped DEF Goes
  <2>5. sem'.free = FALSE /\ sem'.queue = <<>>
        /\ sem' \in [free : BOOLEAN, queue : Seq(Masters)]
    BY <2>1
  <2>6. QueueWaits'
    <3>1. 1 .. Len(sem'.queue) = {}
      BY <2>5
    <3> QED
      BY <3>1 DEF QueueWaits
  <2>7. SemaphoreHasAnOwner'
    BY <2>1, <2>5 DEF SemaphoreHasAnOwner
  <2> QED
    BY <1>1, <1>2, <2>1, <2>2, <2>4, <2>5, <2>6, <2>7, Assembled
<1>4. CASE HostData \/ HostFinishesEmpty
  <2>1. /\ UNCHANGED <<on, i2cp, hw, sem, th, halted>>
        /\ slave' \in {"none", "addressed", "data"} /\ cut' \in BOOLEAN
        /\ slave' # "none" \/ cut'
    BY <1>1, <1>4 DEF HostData, HostFinishesEmpty
  <2>2. QueueWaits'
    BY <2>1 DEF BusInv, QueueWaits
  <2>3. SemaphoreHasAnOwner'
    BY <2>1 DEF BusInv, SemaphoreHasAnOwner
  <2> QED
    BY <1>1, <1>2, <2>1, <2>2, <2>3, Assembled DEF Goes
<1>5. CASE HostFinishes \/ HostError
  <2>1. /\ SemSignal /\ slave' = "none" /\ UNCHANGED <<on, hw>>
        /\ \/ th' = Signalled(th) /\ UNCHANGED <<i2cp, halted>>
           \/ Resume("reset", Signalled(th))
    BY <1>5 DEF HostFinishes, HostError
  <2>2. /\ Signalled(th) \in [Threads -> ThreadStates]
        /\ cut' = FALSE
        /\ sem' \in [free : BOOLEAN, queue : Seq(Masters)]
        /\ \A u \in Threads : \/ Signalled(th)[u] = th[u]
                              \/ Handed(th, u)
        /\ sem'.free \/ \E u \in Masters : Handed(th, u)
        /\ sem'.queue # <<>> => ~sem'.free
    BY <1>1, <2>1, SignalFacts
  <2>3. /\ th' \in [Threads -> ThreadStates]
        /\ i2cp' \in DriverStates /\ i2cp'.state = i2cp.state
        /\ i2cp'.thread \in {i2cp.thread, Nobody}
        /\ halted' \in Assertions
        /\ \A u \in Threads :
             \/ th'[u] = Signalled(th)[u]
             \/ /\ th[u].pc = "suspended" /\ th'[u].pc = "finish"
                /\ th'[u].aim = th[u].aim
    <3>1. CASE th' = Signalled(th) /\ UNCHANGED <<i2cp, halted>>
      BY <1>1, <2>2, <3>1
    <3>2. CASE Resume("reset", Signalled(th))
      <4>1. \A u \in Threads :
              th[u].pc = "suspended" => Signalled(th)[u] = th[u]
        BY <2>2 DEF Handed
      <4> QED
        BY <2>2, <3>2, <4>1, ResumeFacts
    <3> QED
      BY <2>1, <3>1, <3>2
  <2>4. \A u \in Threads : Handed(th, u) =>
          /\ u \in Masters /\ th[u].pc = "queued"
          /\ th'[u].pc = "stop_check" /\ th'[u].aim = "master"
    BY <2>3 DEF Handed
  <2>5. \A u \in Threads : Goes(u)
    <3> SUFFICES ASSUME NEW u \in Threads PROVE Goes(u)
      OBVIOUS
    <3>1. CASE Handed(th, u)
      BY <2>4, <3>1 DEF Goes
    <3>2. CASE ~Handed(th, u)
      BY <2>2, <2>3, <3>2 DEF Goes
    <3> QED
      BY <3>1, <3>2
  <2>6. QueueWaits'
    <3>1. \A u \in Threads :
            Signalled(th)[u].pc = "queued" => th'[u].pc = "queued"
      <4> SUFFICES ASSUME NEW u \in Threads,
                          Signalled(th)[u].pc = "queued"
                   PROVE  th'[u].pc = "queued"
        OBVIOUS
      <4>1. Signalled(th)[u] = th[u]
        BY <2>2 DEF Handed
      <4> QED
        BY <2>3, <4>1
    <3> QED
      BY <1>1, <2>1, <3>1, QueueSignalled
  <2>7. SemaphoreHasAnOwner'
    <3>1. \A u \in Masters : Handed(th, u) => InSection(u)'
      BY <2>4, WhoIsWho DEF InSection, Driving
    <3> QED
      BY <2>2, <3>1 DEF SemaphoreHasAnOwner
  <2> QED
    BY <1>1, <1>2, <2>1, <2>2, <2>3, <2>5, <2>6, <2>7, Assembled
<1> QED
  BY <1>3, <1>4, <1>5 DEF HostStep

-----------------------------------------------------------------------------
(* The start of the system, the first or one after a failed assertion.     *)
Started ==
  /\ on \in BOOLEAN /\ hosted \in BOOLEAN
  /\ \E listens \in {FALSE, on} :
       i2cp = BootDriver(listens) /\ hw = BootPort(listens)
  /\ slave = "none" /\ cut = FALSE /\ halted = "none"
  /\ sem = [free |-> TRUE, queue |-> <<>>]
  /\ th = [t \in Threads |-> Idle]

(* Nobody is inside, and nobody waits, at the start.                       *)
LEMMA StartsSound == Started => BusInv
<1> SUFFICES ASSUME Started PROVE BusInv
  OBVIOUS
<1>0. /\ on \in BOOLEAN /\ cut = FALSE /\ slave = "none" /\ halted = "none"
      /\ hosted \in BOOLEAN /\ sem = [free |-> TRUE, queue |-> <<>>]
      /\ th = [t \in Threads |-> Idle]
  BY DEF Started
<1>1. /\ \A t \in Threads : th[t] = Idle
      /\ th \in [Threads -> ThreadStates]
  BY <1>0, RestIsTyped
<1>2. /\ i2cp \in DriverStates /\ i2cp.state \in {"locked", "ready"}
      /\ hw \in PortStates /\ hw.xfer = Nobody
  <2>1. PICK listens \in {FALSE, on} :
          i2cp = BootDriver(listens) /\ hw = BootPort(listens)
    BY DEF Started
  <2>2. listens \in BOOLEAN
    BY <1>0
  <2>3. i2cp \in DriverStates /\ i2cp.state \in {"locked", "ready"}
    BY <2>1, <2>2 DEF BootDriver, DriverStates
  <2>4. hw \in PortStates /\ hw.xfer = Nobody
    BY <2>1, <2>2 DEF BootPort, PortStates
  <2> QED
    BY <2>3, <2>4
<1>3. /\ sem.free = TRUE /\ sem.queue = <<>> /\ Len(sem.queue) = 0
      /\ sem \in [free : BOOLEAN, queue : Seq(Masters)]
      /\ sem.free \in BOOLEAN /\ sem.queue \in Seq(Masters)
  BY <1>0
<1>4. TypeOK
  BY <1>0, <1>1, <1>2, <1>3, TypesByName DEF Assertions
<1>5. UnstickAway /\ MastersAim
  BY <1>1, RestIsTyped, WhoIsWho
  DEF UnstickAway, UnstickPoints, MastersAim, MasterPoints
<1>6. QueueWaits
  BY <1>3 DEF QueueWaits
<1>7. \A t \in Masters : ~InSection(t)
  BY <1>1, RestIsTyped, WhoIsWho DEF InSection
<1>8. SemaphoreHasAnOwner /\ TransferWakesItsOwner /\ StateIsHeld
  BY <1>0, <1>2, <1>3
  DEF SemaphoreHasAnOwner, TransferWakesItsOwner, StateIsHeld
<1>9. MasterHasIt
  BY <1>7 DEF MasterHasIt, AtMostOneMaster, SomeMaster
<1> QED
  BY <1>3, <1>4, <1>5, <1>6, <1>8, <1>9 DEF BusInv

-----------------------------------------------------------------------------
(* Every step keeps the invariant.                                         *)
LEMMA BusInvKept == BusInv /\ [Next]_vars => BusInv'
<1> SUFFICES ASSUME BusInv, [Next]_vars PROVE BusInv'
  OBVIOUS
<1>1. CASE HostStep /\ hosted' = TRUE
  BY <1>1, HostKeeps
<1>2. CASE OwnStep /\ hosted' = (hosted /\ \E t \in Masters : InSection(t)')
  <2>1. hosted' = (hosted /\ SomeMaster')
    BY <1>2 DEF SomeMaster
  <2>2. ASSUME NEW t \in Threads, ThreadStep(t) \/ BusyStep(t) \/ TimesOut(t)
        PROVE  BusInv'
    <3>1. CASE Wait(t)
      BY <2>1, <3>1, TakeKeeps, QueueKeeps
    <3>2. CASE \/ Check(t, "stop_check", "stop")
               \/ Check(t, "start_check", "start")
               \/ ReadyCheck(t)
      BY <2>1, <3>2, CheckKeeps
    <3>3. CASE Stop(t)
      BY <2>1, <3>3, StopKeeps
    <3>4. CASE Start(t)
      BY <2>1, <3>4, StartKeeps
    <3>5. CASE \/ Begin(t) \/ StaysBusy(t) \/ Launch(t) \/ TimesOut(t)
               \/ Finish(t)
      BY <2>1, <3>5, DriveKeeps
    <3>6. CASE Signal(t)
      BY <2>1, <3>6, SignalKeeps
    <3>7. CASE \/ CheckPower(t) \/ SlaveBegin(t) \/ SlaveReady(t)
               \/ SlaveStaysBusy(t)
      BY <2>1, <3>7, OutsideKeeps
    <3> QED
      BY <2>2, <3>1, <3>2, <3>3, <3>4, <3>5, <3>6, <3>7
      DEF ThreadStep, BusyStep
  <2>3. ASSUME NEW t \in Masters, Call(t) PROVE BusInv'
    BY <2>1, <2>3, OutsideKeeps, WhoIsWho
  <2>4. CASE UnstickPolls
    BY <2>1, <2>4, OutsideKeeps, WhoIsWho
  <2>5. CASE UnstickResumes \/ TransferDone \/ TransferError
    BY <2>1, <2>5, ResumeKeeps
  <2>6. CASE PowerChanges
    BY <2>1, <2>6, PowerKeeps
  <2>7. CASE Restart
    <3>1. hosted' \in BOOLEAN /\ on' = on /\ on \in BOOLEAN
      BY <2>1, <2>7 DEF Restart, BusInv, TypeOK, SomeMaster
    <3>2. Started'
      <4>1. PICK listens \in {FALSE, on} :
              i2cp' = BootDriver(listens) /\ hw' = BootPort(listens)
        BY <2>7 DEF Restart
      <4>2. /\ i2cp' = BootDriver(listens)' /\ hw' = BootPort(listens)'
        BY <3>1, <4>1 DEF BootDriver, BootPort
      <4>3. \E l \in {FALSE, on'} :
              i2cp' = BootDriver(l)' /\ hw' = BootPort(l)'
        BY <3>1, <4>1, <4>2
      <4> QED
        BY <2>7, <3>1, <4>3 DEF Restart, Started
    <3>3. Started' => BusInv'
      BY StartsSound, PTL
    <3> QED
      BY <3>2, <3>3
  <2> QED
    BY <1>2, <2>2, <2>3, <2>4, <2>5, <2>6, <2>7 DEF OwnStep
<1>3. CASE UNCHANGED vars
  <2>1. /\ UNCHANGED <<on, i2cp, hw, slave, cut, sem, th, halted>>
        /\ hosted' = hosted
    BY <1>3 DEF vars
  <2> QED
    BY <2>1
    DEF BusInv, TypeOK, UnstickAway, MastersAim, QueueWaits,
        SemaphoreHasAnOwner, TransferWakesItsOwner, StateIsHeld,
        MasterHasIt, AtMostOneMaster, SomeMaster, InSection
<1> QED
  BY <1>1, <1>2, <1>3 DEF Next

(* The invariant holds of every reachable state.                           *)
LEMMA Invariance == Spec => []BusInv
<1>1. Init => Started
  BY DEF Init, Started
<1> QED
  BY <1>1, StartsSound, BusInvKept, PTL DEF Spec

-----------------------------------------------------------------------------
(* The driver, the port, the semaphore and the threads stay within their   *)
(* types, whatever the host, the bus and the timeouts do.                  *)
THEOREM BusTypeCorrect == Spec => []TypeOK
<1>1. BusInv => TypeOK
  BY DEF BusInv
<1> QED
  BY <1>1, Invariance, PTL

(* master_slave_sem is taken only for a master inside, for a host          *)
(* transaction, or for one that was cut off; and nobody queues for a free  *)
(* semaphore.                                                              *)
THEOREM TakenForAReason == Spec => []SemaphoreHasAnOwner
<1>1. BusInv => SemaphoreHasAnOwner
  BY DEF BusInv
<1> QED
  BY <1>1, Invariance, PTL

(* The interrupt at the end of a transfer resumes the thread that started  *)
(* it or nobody, in spite of the reference that a timeout leaves behind.   *)
THEOREM NoStrangerIsWoken == Spec => []TransferWakesItsOwner
<1>1. BusInv => TransferWakesItsOwner
  BY DEF BusInv
<1> QED
  BY <1>1, Invariance, PTL

(* With every thread out of the driver its state is one that i2cStop and   *)
(* i2cStart accept.                                                        *)
THEOREM DriverIsLeftStoppable == Spec => []NobodyInsideMeansStoppable
<1>1. BusInv => NobodyInsideMeansStoppable
  <2> SUFFICES ASSUME BusInv, \A t \in Threads : ~InDriver(t)
               PROVE  Stoppable
    BY DEF NobodyInsideMeansStoppable
  <2>1. i2cp.state \notin {"active", "uninit"}
    BY DEF BusInv, StateIsHeld, Holding, InDriver, Driving
  <2>2. i2cp.state \in {"stop", "ready", "active", "locked", "uninit"}
    BY DEF BusInv, TypeOK
  <2> QED
    BY <2>1, <2>2 DEF Stoppable
<1> QED
  BY <1>1, Invariance, PTL

(* Without the slave interrupt the semaphore admits one master at a time.  *)
THEOREM OneMasterAtATime == Spec => []OneMasterWithoutHost
<1>1. BusInv => OneMasterWithoutHost
  BY DEF BusInv, MasterHasIt, OneMasterWithoutHost
<1> QED
  BY <1>1, Invariance, PTL

(* When an assertion of i2cStop or i2cStart finds a state it refuses,      *)
(* another thread is inside the driver at that moment, at a point that     *)
(* only the next step of its own leaves: the state is never a leftover.    *)
RefusalMeansCompany ==
  \A t \in Threads :
    th[t].pc \in {"stop_check", "start_check"} /\ ~Stoppable =>
      \E u \in Threads \ {t} : th[u].pc \in Holding

(* The assertions on the state fail for company only.                      *)
THEOREM RefusedOnlyInCompany == Spec => []RefusalMeansCompany
<1>1. BusInv => RefusalMeansCompany
  <2> SUFFICES ASSUME BusInv, NEW t \in Threads, ~Stoppable,
                      th[t].pc \in {"stop_check", "start_check"}
               PROVE  \E u \in Threads \ {t} : th[u].pc \in Holding
    BY DEF RefusalMeansCompany
  <2>1. i2cp.state \in {"active", "uninit"}
    BY TypesByName DEF BusInv, Stoppable, DriverStates
  <2>2. PICK u \in Threads : th[u].pc \in Holding
    BY <2>1 DEF BusInv, StateIsHeld
  <2>3. u # t
    BY <2>2 DEF Holding
  <2> QED
    BY <2>2, <2>3
<1> QED
  BY <1>1, Invariance, PTL

-----------------------------------------------------------------------------
(* While the mainboard is off nobody goes back to slave mode, and the      *)
(* semaphore alone decides who is inside.                                  *)

\* The states the driver can be in when a master is at a point inside.
StatesAt(point) ==
  IF point \in {"start_check", "start"} THEN {"stop"}
  ELSE IF point \in {"ready_check", "begin"} THEN {"ready"}
  ELSE IF point \in {"busy_wait", "suspended", "finish"} THEN {"active"}
  ELSE {"ready", "locked"}

OffDriver ==
  /\ ~on /\ ~hosted
  /\ \A t \in Threads :
       InDriver(t) => InSection(t) /\ i2cp.state \in StatesAt(th[t].pc)
  /\ (\A t \in Threads : ~InDriver(t)) => i2cp.state \in {"ready", "locked"}
  /\ hw.dma <=> i2cp.state # "stop"
  /\ halted \in {"none", "resume"}

OffInv == BusInv /\ OffDriver

(* Whoever is inside is alone there.                                       *)
LEMMA AloneInside ==
  ASSUME OffInv, NEW t \in Threads, InDriver(t)
  PROVE  /\ t \in Masters /\ th[t].pc \in Driving /\ th[t].aim = "master"
         /\ i2cp.state \in StatesAt(th[t].pc)
         /\ \A u \in Threads \ {t} : ~InDriver(u)
         /\ ~sem.free
<1>1. \A u \in Threads : InDriver(u) => InSection(u) /\ u \in Masters
  BY WhoIsWho DEF OffInv, OffDriver, BusInv, UnstickAway, InSection
<1>2. AtMostOneMaster /\ (SomeMaster => ~sem.free)
  BY DEF OffInv, OffDriver, BusInv, MasterHasIt
<1>3. \A u \in Threads \ {t} : ~InDriver(u)
  BY <1>1, <1>2 DEF AtMostOneMaster
<1>4. SomeMaster
  BY <1>1 DEF SomeMaster
<1> QED
  BY <1>1, <1>2, <1>3, <1>4 DEF OffInv, OffDriver, InSection

(* The thread that is inside goes on there.                                *)
LEMMA InsideMoves ==
  ASSUME OffInv, NEW t \in Threads, InDriver(t), NEW r \in ThreadStates,
         th' = [th EXCEPT ![t] = r], ~on', ~hosted',
         r.pc \in Driving, r.aim = "master",
         i2cp'.state \in StatesAt(r.pc), hw'.dma <=> i2cp'.state # "stop",
         halted' \in {"none", "resume"}
  PROVE  OffDriver'
<1>1. /\ th'[t] = r /\ \A u \in Threads \ {t} : th'[u] = th[u]
  BY TypesByName DEF OffInv, BusInv
<1>2. \A u \in Threads \ {t} : ~InDriver(u)'
  BY <1>1, AloneInside DEF InDriver
<1>3. InDriver(t)' /\ InSection(t)'
  BY <1>1 DEF InDriver, InSection
<1> QED
  BY <1>1, <1>2, <1>3 DEF OffDriver

(* No thread enters or leaves, and the driver keeps its state.             *)
LEMMA InsideUnmoved ==
  ASSUME OffInv, ~on', ~hosted', i2cp'.state = i2cp.state,
         hw'.dma <=> hw.dma, halted' \in {"none", "resume"},
         \A u \in Threads :
           \/ th'[u] = th[u]
           \/ ~InDriver(u) /\ ~InDriver(u)'
           \/ /\ th[u].pc = "suspended" /\ th'[u].pc = "finish"
              /\ th'[u].aim = th[u].aim
  PROVE  OffDriver'
<1>1. \A u \in Threads : InDriver(u)' <=> InDriver(u)
  BY DEF InDriver, Driving
<1>2. \A u \in Threads : InDriver(u)' =>
        /\ InSection(u)' <=> InSection(u)
        /\ StatesAt(th'[u].pc) = StatesAt(th[u].pc)
  BY <1>1 DEF InSection, StatesAt, Driving
<1> QED
  BY <1>1, <1>2 DEF OffInv, OffDriver

(* Whoever is inside after the step has just come in.                      *)
LEMMA InsideEntered ==
  ASSUME ~on', ~hosted', i2cp'.state \in {"ready", "locked"},
         hw'.dma = TRUE, halted' \in {"none", "resume"},
         \A u \in Threads :
           \/ ~InDriver(u)'
           \/ th'[u].pc = "stop_check" /\ th'[u].aim = "master"
  PROVE  OffDriver'
<1>1. \A u \in Threads : InDriver(u)' =>
        InSection(u)' /\ StatesAt(th'[u].pc) = {"ready", "locked"}
  BY DEF InDriver, InSection, Driving, StatesAt
<1> QED
  BY <1>1 DEF OffDriver

-----------------------------------------------------------------------------
(* A step of a thread inside, up to its signal.                            *)
LEMMA InsideStepKeepsOff ==
  ASSUME OffInv, NEW t \in Threads, ~on', ~hosted',
         \/ Check(t, "stop_check", "stop")
         \/ Check(t, "start_check", "start")
         \/ Stop(t) \/ Start(t) \/ ReadyCheck(t) \/ Begin(t) \/ Launch(t)
         \/ StaysBusy(t) \/ TimesOut(t) \/ Finish(t)
  PROVE  OffDriver'
<1>1. /\ i2cp \in DriverStates /\ hw \in PortStates
      /\ th \in [Threads -> ThreadStates] /\ th[t] \in ThreadStates
      /\ hw.dma <=> i2cp.state # "stop"
      /\ halted \in {"none", "resume"}
  BY TypesByName DEF OffInv, OffDriver, BusInv
<1>2. th[t].pc \in Driving /\ InDriver(t)
  BY DEF Check, Stop, Start, ReadyCheck, Begin, Launch, StaysBusy, TimesOut,
         Finish, At, InDriver, Driving
<1>3. th[t].aim = "master" /\ i2cp.state \in StatesAt(th[t].pc)
  BY <1>2, AloneInside
<1>4. ASSUME NEW label \in Driving, Goto(t, label),
             i2cp'.state \in StatesAt(label),
             hw'.dma <=> i2cp'.state # "stop", UNCHANGED halted
      PROVE  OffDriver'
  <2>1. PICK r \in ThreadStates :
          /\ th' = [th EXCEPT ![t] = r] /\ r.pc = label
          /\ r.aim = th[t].aim
    BY <1>4, GoneTo DEF OffInv, Points
  <2> QED
    BY <1>1, <1>2, <1>3, <1>4, <2>1, InsideMoves
<1>5. CASE Check(t, "stop_check", "stop") \/ Check(t, "start_check", "start")
  <2>1. Stoppable
    BY <1>3, <1>5 DEF Check, At, StatesAt, Stoppable
  <2>2. PICK label \in {"stop", "start"} :
          /\ Goto(t, label)
          /\ th[t].pc = IF label = "stop" THEN "stop_check" ELSE "start_check"
          /\ UNCHANGED <<i2cp, hw, halted>>
    BY <1>5, <2>1 DEF Check, At
  <2>3. label \in Driving /\ i2cp'.state \in StatesAt(label)
    BY <1>3, <2>2 DEF Driving, StatesAt
  <2> QED
    BY <1>1, <1>4, <2>2, <2>3
<1>6. CASE Stop(t)
  <2>1. th[t].pc = "stop" /\ i2cp.state # "stop" /\ hw.dma = TRUE
    BY <1>1, <1>3, <1>6 DEF Stop, At, StatesAt, PortStates
  <2>2. /\ Goto(t, "start_check") /\ UNCHANGED halted
        /\ i2cp' = [i2cp EXCEPT !.state = "stop"]
        /\ hw' = [port |-> "off", dma |-> FALSE, xfer |-> Nobody]
    BY <1>6, <2>1 DEF Stop
  <2>3. i2cp'.state = "stop" /\ hw'.dma = FALSE
    BY <1>1, <2>2 DEF DriverStates
  <2> QED
    BY <1>4, <2>2, <2>3 DEF Driving, StatesAt
<1>7. CASE Start(t)
  <2>1. th[t].pc = "start" /\ i2cp.state = "stop"
    BY <1>3, <1>7 DEF Start, At, StatesAt
  <2>2. /\ Goto(t, "ready_check") /\ UNCHANGED halted
        /\ i2cp' = [i2cp EXCEPT !.state = "ready", !.slave_mode = FALSE]
        /\ hw'.dma = TRUE
    BY <1>3, <1>7, <2>1 DEF Start
  <2>3. i2cp'.state = "ready"
    BY <1>1, <2>2 DEF DriverStates
  <2> QED
    BY <1>4, <2>2, <2>3 DEF Driving, StatesAt
<1>8. CASE ReadyCheck(t)
  <2>1. th[t].pc = "ready_check" /\ i2cp.state = "ready"
    BY <1>3, <1>8 DEF ReadyCheck, At, StatesAt
  <2>2. Goto(t, "begin") /\ UNCHANGED <<i2cp, hw, halted>>
    BY <1>8, <2>1 DEF ReadyCheck
  <2> QED
    BY <1>1, <1>4, <2>1, <2>2 DEF Driving, StatesAt
<1>9. CASE Begin(t)
  <2>1. /\ th[t].pc = "begin" /\ i2cp.state = "ready"
        /\ Goto(t, "busy_wait") /\ UNCHANGED <<hw, halted>>
        /\ i2cp' = [i2cp EXCEPT !.state = "active"]
    BY <1>3, <1>9 DEF Begin, At, StatesAt
  <2>2. i2cp'.state = "active"
    BY <1>1, <2>1 DEF DriverStates
  <2> QED
    BY <1>1, <1>4, <2>1, <2>2 DEF Driving, StatesAt
<1>10. CASE Launch(t)
  <2>1. /\ th[t].pc = "busy_wait" /\ i2cp.state = "active"
        /\ Goto(t, "suspended") /\ UNCHANGED halted
        /\ i2cp' = [i2cp EXCEPT !.slave_mode = FALSE, !.thread = t]
        /\ hw' = [hw EXCEPT !.xfer = IF hw.port = "off" THEN Nobody ELSE t]
    BY <1>3, <1>10 DEF Launch, At, StatesAt
  <2>2. i2cp'.state = "active" /\ hw'.dma = hw.dma
    BY <1>1, <2>1 DEF DriverStates, PortStates
  <2> QED
    BY <1>1, <1>4, <2>1, <2>2 DEF Driving, StatesAt
<1>11. CASE Finish(t)
  <2>1. /\ th[t].pc = "finish" /\ i2cp.state = "active"
        /\ Goto(t, "signal") /\ UNCHANGED <<hw, halted>>
        /\ i2cp' = [i2cp EXCEPT !.state =
                      IF th[t].msg = "timeout" THEN "locked" ELSE "ready"]
    BY <1>3, <1>11 DEF Finish, At, StatesAt
  <2>2. i2cp'.state \in {"locked", "ready"}
    BY <1>1, <2>1 DEF DriverStates
  <2> QED
    BY <1>1, <1>4, <2>1, <2>2 DEF Driving, StatesAt
<1>12. CASE StaysBusy(t) \/ TimesOut(t)
  <2> DEFINE label == IF StaysBusy(t) THEN "signal" ELSE "finish"
             r == [th[t] EXCEPT !.pc = label, !.msg = "timeout"]
  <2>1. /\ th' = [th EXCEPT ![t] = r] /\ UNCHANGED <<hw, halted>>
        /\ i2cp.state = "active"
    BY <1>3, <1>12 DEF StaysBusy, TimesOut, At, StatesAt
  <2>2. r \in ThreadStates /\ r.pc = label /\ r.aim = "master"
    BY <1>1, <1>3 DEF ThreadStates, Points, Driving
  <2>3. i2cp'.state \in StatesAt(label) /\ i2cp'.state # "stop"
    <3>1. CASE StaysBusy(t)
      <4>1. i2cp'.state = "locked"
        BY <1>1, <3>1 DEF StaysBusy, DriverStates
      <4> QED
        BY <3>1, <4>1 DEF StatesAt
    <3>2. CASE ~StaysBusy(t)
      BY <1>12, <2>1, <3>2 DEF TimesOut, StatesAt
    <3> QED
      BY <3>1, <3>2
  <2>4. label \in Driving
    BY DEF Driving
  <2> HIDE DEF r, label
  <2> QED
    BY <1>1, <1>2, <2>1, <2>2, <2>3, <2>4, InsideMoves
<1> QED
  BY <1>5, <1>6, <1>7, <1>8, <1>9, <1>10, <1>11, <1>12

(* Taking the semaphore, queueing for it, and giving it back.              *)
LEMMA SemaphoreKeepsOff ==
  ASSUME OffInv, NEW t \in Threads, ~on', ~hosted', Wait(t) \/ Signal(t)
  PROVE  OffDriver'
<1>1. /\ hw.dma <=> i2cp.state # "stop"
      /\ halted \in {"none", "resume"} /\ hw.dma \in BOOLEAN
      /\ th \in [Threads -> ThreadStates]
      /\ UNCHANGED <<i2cp, hw, halted>>
  BY TypesByName DEF OffInv, OffDriver, BusInv, PortStates, Wait, Signal
<1>2. CASE Wait(t) /\ sem.free
  <2>1. \A u \in Threads : ~InDriver(u)
    BY <1>2, AloneInside
  <2>2. i2cp.state \in {"ready", "locked"}
    BY <2>1 DEF OffInv, OffDriver
  <2>3. /\ th'[t].pc = "stop_check" /\ th'[t].aim = "master"
        /\ \A u \in Threads \ {t} : th'[u] = th[u]
    BY <1>1, <1>2, ResumedIsTyped DEF Wait
  <2>4. \A u \in Threads \ {t} : ~InDriver(u)'
    BY <2>1, <2>3 DEF InDriver
  <2> QED
    BY <1>1, <2>2, <2>3, <2>4, InsideEntered
<1>3. CASE Wait(t) /\ ~sem.free
  <2>1. th[t].pc = "wait" /\ Goto(t, "queued")
    BY <1>3 DEF Wait, At
  <2>2. /\ th'[t].pc = "queued" /\ \A u \in Threads \ {t} : th'[u] = th[u]
    BY <1>1, <2>1 DEF Goto, ThreadStates
  <2>3. ~InDriver(t) /\ ~InDriver(t)'
    BY <2>1, <2>2 DEF InDriver, Driving
  <2> QED
    BY <1>1, <2>2, <2>3, InsideUnmoved
<1>4. CASE Signal(t)
  <2> DEFINE again == th[t].msg # "ok" /\ th[t].try < MaxTries
             threads == Tried(t, again)
  <2>1. th[t].pc = "signal" /\ SemSignal /\ th' = Signalled(threads)
    BY <1>4 DEF Signal, At
  <2>2. InDriver(t)
    BY <2>1 DEF InDriver, Driving
  <2>3. /\ i2cp.state \in {"ready", "locked"}
        /\ \A u \in Threads \ {t} : ~InDriver(u)
    BY <2>1, <2>2, AloneInside DEF StatesAt
  <2>4. /\ threads \in [Threads -> ThreadStates]
        /\ threads[t].pc \in {"wait", "check_power"}
        /\ \A u \in Threads \ {t} : threads[u] = th[u]
        /\ \A u \in Threads : th[u].pc = "queued" => threads[u] = th[u]
    BY <2>1, TriedFacts DEF OffInv
  <2> HIDE DEF threads, again
  <2>5. \A u \in Threads :
          \/ th'[u] = threads[u]
          \/ th'[u].pc = "stop_check" /\ th'[u].aim = "master"
    BY <2>1, <2>4, SignalFacts DEF Handed, OffInv
  <2>6. \A u \in Threads :
          \/ ~InDriver(u)'
          \/ th'[u].pc = "stop_check" /\ th'[u].aim = "master"
    <3> SUFFICES ASSUME NEW u \in Threads, th'[u] = threads[u]
                 PROVE  ~InDriver(u)'
      BY <2>5
    <3>1. CASE u = t
      BY <2>4, <3>1 DEF InDriver, Driving
    <3>2. CASE u # t
      BY <2>3, <2>4, <3>2 DEF InDriver
    <3> QED
      BY <3>1, <3>2
  <2> QED
    BY <1>1, <2>3, <2>6, InsideEntered
<1> QED
  BY <1>2, <1>3, <1>4

(* The steps of threads outside, and the interrupts of a transfer.         *)
LEMMA OutsideKeepsOff ==
  ASSUME OffInv, ~on', ~hosted',
         \/ \E t \in Masters : Call(t)
         \/ \E t \in Threads : CheckPower(t)
         \/ UnstickPolls
         \/ UnstickResumes \/ TransferDone \/ TransferError
  PROVE  OffDriver'
<1>1. /\ i2cp \in DriverStates /\ hw \in PortStates /\ ~on
      /\ th \in [Threads -> ThreadStates]
      /\ halted \in {"none", "resume"}
  BY TypesByName DEF OffInv, OffDriver, BusInv
<1>2. CASE \/ \E t \in Masters : Call(t)
           \/ \E t \in Threads : CheckPower(t)
           \/ UnstickPolls
  <2>1. PICK t \in Threads :
          \/ t \in Masters /\ Call(t)
          \/ CheckPower(t)
          \/ t = "unstick" /\ UnstickPolls
    BY <1>2, WhoIsWho
  <2>2. /\ th[t].pc \in {"idle", "check_power"}
        /\ UNCHANGED <<i2cp, hw, halted>>
    BY <2>1 DEF Call, CheckPower, UnstickPolls, At
  <2>3. /\ th'[t].pc \in {"wait", "idle", "resume", "check_power"}
        /\ \A u \in Threads \ {t} : th'[u] = th[u]
    <3>1. CASE t \in Masters /\ Call(t)
      BY <1>1, <3>1 DEF Call, ThreadStates
    <3>2. CASE CheckPower(t)
      BY <1>1, <3>2, RestIsTyped DEF CheckPower, Rest
    <3>3. CASE t = "unstick" /\ UnstickPolls
      BY <1>1, <3>3 DEF UnstickPolls, Goto, ThreadStates
    <3> QED
      BY <2>1, <3>1, <3>2, <3>3
  <2>4. ~InDriver(t) /\ ~InDriver(t)'
    BY <2>2, <2>3 DEF InDriver, Driving
  <2> QED
    BY <1>1, <2>2, <2>3, <2>4, InsideUnmoved
<1>3. CASE UnstickResumes \/ TransferDone \/ TransferError
  <2> DEFINE threads == IF UnstickResumes
                        THEN [th EXCEPT !["unstick"].pc = "idle"] ELSE th
  <2>1. PICK msg \in {"ok", "reset"} : Resume(msg, threads)
    BY <1>3 DEF UnstickResumes, TransferDone, TransferError
  <2>2. hw'.dma = hw.dma
    BY <1>1, <1>3 DEF UnstickResumes, TransferDone, TransferError, PortStates
  <2>3. /\ \A u \in Threads \ {"unstick"} : threads[u] = th[u]
        /\ threads["unstick"] = th["unstick"]
           \/ /\ th["unstick"].pc = "resume"
              /\ threads["unstick"].pc = "idle"
        /\ \A u \in Threads : th[u].pc = "suspended" => threads[u] = th[u]
        /\ threads \in [Threads -> ThreadStates]
    <3>1. CASE UnstickResumes
      <4>1. th["unstick"].pc = "resume" /\ th["unstick"] \in ThreadStates
        BY <1>1, <3>1, WhoIsWho DEF UnstickResumes, At
      <4>2. threads = [th EXCEPT !["unstick"].pc = "idle"]
        BY <3>1
      <4>3. [th["unstick"] EXCEPT !.pc = "idle"] \in ThreadStates
        BY <4>1 DEF ThreadStates, Points, Blocked
      <4> QED
        BY <1>1, <4>1, <4>2, <4>3, WhoIsWho DEF ThreadStates
    <3>2. CASE ~UnstickResumes
      BY <1>1, <3>2
    <3> QED
      BY <3>1, <3>2
  <2> HIDE DEF threads
  <2>4. /\ i2cp'.state = i2cp.state
        /\ \A u \in Threads :
             \/ th'[u] = threads[u]
             \/ /\ th[u].pc = "suspended" /\ th'[u].pc = "finish"
                /\ th'[u].aim = th[u].aim
    BY <2>1, <2>3, ResumeFacts DEF OffInv
  <2>5. \A u \in Threads :
          \/ th'[u] = th[u]
          \/ ~InDriver(u) /\ ~InDriver(u)'
          \/ /\ th[u].pc = "suspended" /\ th'[u].pc = "finish"
             /\ th'[u].aim = th[u].aim
    BY <2>3, <2>4 DEF InDriver, Driving
  <2>6. halted' \in {"none", "resume"}
    BY <1>1, <2>1 DEF Resume, Halt
  <2> QED
    BY <2>2, <2>4, <2>5, <2>6, InsideUnmoved
<1> QED
  BY <1>2, <1>3

(* With the mainboard off, and as long as it is, every step keeps the      *)
(* driver to the threads that have the semaphore.                          *)
LEMMA OffKept == OffInv /\ [Next]_vars /\ ~on' => OffInv'
<1> SUFFICES ASSUME OffInv, [Next]_vars, ~on' PROVE OffDriver'
  BY BusInvKept DEF OffInv
<1>1. on = FALSE /\ ~on /\ ~hosted
  BY DEF OffInv, OffDriver, BusInv, TypeOK
<1>2. ~HostStep
  BY <1>1
  DEF HostStep, HostAddresses, HostData, HostFinishes, HostFinishesEmpty,
      HostError, Listening
<1>3. CASE UNCHANGED vars
  BY <1>3
  DEF vars, OffInv, OffDriver, InDriver, InSection
<1>4. CASE OwnStep /\ ~hosted'
  <2>1. ASSUME NEW t \in Threads, ThreadStep(t) \/ BusyStep(t) \/ TimesOut(t)
        PROVE  OffDriver'
    <3>1. ~(SlaveBegin(t) \/ SlaveReady(t) \/ SlaveStaysBusy(t))
      <4>1. th[t].pc \notin {"s_begin", "s_busy"}
        BY AloneInside DEF InDriver, Driving
      <4> QED
        BY <4>1 DEF SlaveBegin, SlaveReady, SlaveStaysBusy, At
    <3>2. CASE \/ Check(t, "stop_check", "stop")
               \/ Check(t, "start_check", "start")
               \/ Stop(t) \/ Start(t) \/ ReadyCheck(t) \/ Begin(t)
               \/ Launch(t) \/ StaysBusy(t) \/ TimesOut(t) \/ Finish(t)
      BY <1>4, <3>2, InsideStepKeepsOff
    <3>3. CASE Wait(t) \/ Signal(t)
      BY <1>4, <3>3, SemaphoreKeepsOff
    <3>4. CASE CheckPower(t)
      BY <1>4, <3>4, OutsideKeepsOff
    <3> QED
      BY <2>1, <3>1, <3>2, <3>3, <3>4 DEF ThreadStep, BusyStep
  <2>2. CASE \/ \E t \in Masters : Call(t)
             \/ UnstickPolls
             \/ UnstickResumes \/ TransferDone \/ TransferError
    BY <1>4, <2>2, OutsideKeepsOff
  <2>3. ~PowerChanges
    BY <1>1 DEF PowerChanges
  <2>4. CASE Restart
    <3>1. /\ i2cp' = BootDriver(FALSE) /\ hw' = BootPort(FALSE)
          /\ th' = [t \in Threads |-> Idle] /\ halted' = "none"
      BY <1>1, <2>4 DEF Restart
    <3>2. i2cp'.state = "ready" /\ hw'.dma = TRUE
      BY <1>1, <3>1 DEF BootDriver, BootPort
    <3>3. \A u \in Threads : ~InDriver(u)'
      BY <3>1, RestIsTyped DEF InDriver, Driving
    <3> QED
      BY <1>4, <3>1, <3>2, <3>3, InsideEntered
  <2> QED
    BY <1>4, <2>1, <2>2, <2>3, <2>4 DEF OwnStep
<1> QED
  BY <1>1, <1>2, <1>3, <1>4 DEF Next

(* In every run in which the mainboard stays off, the threads have the     *)
(* driver one at a time, each finds it as it expects, and no assertion on  *)
(* its state or its streams fails: the failures that the runs find all     *)
(* need the return to slave mode.  The assertion of the kernel about a     *)
(* stale reference is not among them: a timeout leaves one, and the thread *)
(* that unsticks the bus may resume it while the next transfer waits for   *)
(* the bus.                                                                *)
THEOREM SoundWhileOff ==
  Spec /\ []~on => []((halted \in {"none", "resume"}) /\ AtMostOneMaster)
<1>1. Init /\ ~on => OffInv
  <2> SUFFICES ASSUME Init, ~on PROVE OffDriver
    BY StartsSound DEF Init, Started, OffInv
  <2>1. /\ i2cp.state = "ready" /\ hw.dma = TRUE /\ halted = "none"
        /\ ~hosted
    BY DEF Init, BootDriver, BootPort
  <2>2. \A t \in Threads : ~InDriver(t)
    BY RestIsTyped DEF Init, InDriver, Driving
  <2> QED
    BY <2>1, <2>2 DEF OffDriver
<1>2. OffInv => (halted \in {"none", "resume"}) /\ AtMostOneMaster
  BY DEF OffInv, OffDriver, BusInv, MasterHasIt
<1> QED
  BY <1>1, <1>2, OffKept, PTL DEF Spec
=============================================================================
