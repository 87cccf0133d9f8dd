-------------------------- MODULE Watchdog_proofs --------------------------
(***************************************************************************)
(* Proofs about Watchdog, for every period, every bound on the seconds and *)
(* every number of resets: the count never goes below zero, and a host is  *)
(* left alone for the time it asked for, unless its write was lost.        *)
(*                                                                         *)
(* The second follows from the pace of the count (Paced).  After a write   *)
(* of n the halves of a second that have been counted, Counted, are not    *)
(* ahead of the time since by more than the one that the thread is about   *)
(* to sleep for, or is sleeping through.                                   *)
(*                                                                         *)
(* To power.c the thread is the caller of powerReboot that Power allows at *)
(* any time while the watchdog is enabled: Watchdog implements Power.      *)
(***************************************************************************)
EXTENDS Watchdog, Power_proofs

-----------------------------------------------------------------------------
WdtLabels == Labels \union {"load", "store", "test"}

(* What the thread has loaded can be decremented, and is the count if no   *)
(* write was lost.                                                         *)
Loaded ==
  pc["wdt"] = "store" => loaded >= 1 /\ (~lost => loaded = seconds)

(* What has been counted down since the last write, in ticks.              *)
Counted == (2 * lastWrite - seconds) * Period

Paced ==
  lastWrite # Never /\ ~lost =>
    /\ wake # Awake => sinceWrite + wake >= Counted
    /\ wake = Awake => sinceWrite + Period >= Counted
    /\ pc["wdt"] \in {"load", "store"} => sinceWrite >= Counted

AwakeInside == pc["wdt"] \in {"load", "store"} => wake = Awake

WdtInv == WdtTypeOK /\ Loaded /\ AwakeInside /\ Paced

-----------------------------------------------------------------------------
(* The longest time that is told apart covers every count.                 *)
LEMMA LongestWaitCovers ==
  /\ LongestWait \in Nat
  /\ \A n \in 0 .. MaxSeconds : \A s \in 0 .. 2 * MaxSeconds :
       (2 * n - s) * Period <= LongestWait
<1>1. LongestWait \in Nat
  BY PeriodAssumption, SecondsAssumption DEF LongestWait
<1>2. ASSUME NEW n \in 0 .. MaxSeconds, NEW s \in 0 .. 2 * MaxSeconds
      PROVE  (2 * n - s) * Period <= LongestWait
  <2> DEFINE k == 2 * n - s
             m == 2 * MaxSeconds
  <2>1. k \in Int /\ m \in Int /\ k <= m
    BY SecondsAssumption
  <2>2. k * Period <= m * Period
    <3> HIDE DEF k, m
    <3> QED
      BY <2>1, PeriodAssumption
  <2> QED
    BY <2>2 DEF LongestWait
<1> QED
  BY <1>1, <1>2

(* One half of a second less to count is one period more counted.          *)
LEMMA OneMoreCounted ==
  ASSUME NEW n \in Int, NEW s \in Int
  PROVE  (2 * n - (s - 1)) * Period = (2 * n - s) * Period + Period
BY PeriodAssumption

(* The types of what is counted.                                           *)
LEMMA CountTypes ==
  ASSUME WdtTypeOK
  PROVE  /\ seconds \in Int /\ lastWrite \in Int /\ sinceWrite \in Nat
         /\ wake \in Int /\ Period \in Nat \ {0} /\ Counted \in Int
         /\ wake # Awake => wake >= 0
         /\ wake <= Period
         /\ lastWrite # Never => lastWrite \in 0 .. MaxSeconds
<1>1. /\ seconds \in Int /\ lastWrite \in Int /\ sinceWrite \in Nat
      /\ wake \in Int /\ Period \in Nat \ {0}
      /\ wake # Awake => wake >= 0
      /\ wake <= Period
      /\ lastWrite # Never => lastWrite \in 0 .. MaxSeconds
  BY PeriodAssumption, SecondsAssumption, LongestWaitCovers
  DEF WdtTypeOK, Awake, Never
<1> QED
  BY <1>1 DEF Counted

(* The thread is a context, and its labels are not labels of power.c.      *)
LEMMA WdtIsContext ==
  /\ "wdt" \in Ctx /\ "vt" \in Ctx /\ "main" \in Ctx
  /\ "load" \notin Labels /\ "store" \notin Labels /\ "test" \notin Labels
BY WdtCallsPower DEF Ctx, Labels, OffTail, BootLabels

(* A context goes where it is told, and no other moves.                    *)
LEMMA WdtGoto ==
  ASSUME WdtTypeOK, NEW c \in Ctx, NEW label \in WdtLabels, Goto(c, label)
  PROVE  /\ pc' \in [Ctx -> WdtLabels]
         /\ pc'[c] = label
         /\ c # "wdt" => pc'["wdt"] = pc["wdt"]
BY WdtIsContext DEF Goto, WdtTypeOK, WdtLabels

-----------------------------------------------------------------------------
(* What power.c does moves nobody into the counting and leaves the count.  *)
LEMMA PowerOnlyMoves ==
  ASSUME WdtTypeOK, PowerOnly
  PROVE  /\ UNCHANGED wdtVars
         /\ pc' \in [Ctx -> WdtLabels]
         /\ pc'["wdt"] = pc["wdt"] \/ pc'["wdt"] \in Labels
<1>1. (\E c \in Ctx : \E label \in Labels : Goto(c, label)) \/ UNCHANGED pc
  <2>1. HostCommand => UNCHANGED pc
    BY DEF HostCommand, HostOff, HostReboot, HostOn, HostReserved
  <2> QED
    BY <2>1, StepMoves, InterruptMoves, InitMoves, WdtIsContext DEF PowerOnly
<1>2. ASSUME NEW c \in Ctx, NEW label \in Labels, Goto(c, label)
      PROVE  /\ pc' \in [Ctx -> WdtLabels]
             /\ pc'["wdt"] = pc["wdt"] \/ pc'["wdt"] \in Labels
  BY <1>2, WdtGoto DEF WdtLabels
<1>3. UNCHANGED wdtVars
  BY DEF PowerOnly
<1> QED
  BY <1>1, <1>2, <1>3 DEF WdtTypeOK, WdtLabels

(* The steps of power.c and its callers leave the counter alone.           *)
LEMMA PowerOnlyKeeps ==
  ASSUME WdtInv, PowerOnly
  PROVE  WdtInv'
<1>1. /\ UNCHANGED <<seconds, loaded, wake, lastWrite, sinceWrite, lost>>
      /\ pc' \in [Ctx -> WdtLabels]
      /\ pc'["wdt"] \in {"load", "store"} => pc["wdt"] = pc'["wdt"]
  BY PowerOnlyMoves, WdtIsContext DEF WdtInv, wdtVars
<1>2. WdtTypeOK'
  BY <1>1 DEF WdtInv, WdtTypeOK, WdtLabels
<1>3. Counted' = Counted
  BY <1>1 DEF Counted
<1> QED
  BY <1>1, <1>2, <1>3 DEF WdtInv, Loaded, AwakeInside, Paced

(* The thread feeds the independent watchdog and sleeps for a period.      *)
LEMMA FeedAndSleepKeeps ==
  ASSUME WdtInv, FeedAndSleep
  PROVE  WdtInv'
<1>1. /\ pc["wdt"] = "idle" /\ wake = Awake /\ wake' = Period
      /\ UNCHANGED <<pc, seconds, loaded, lastWrite, sinceWrite, lost>>
  BY DEF FeedAndSleep, At, vars, history
<1>2. WdtTypeOK'
  BY <1>1, PeriodAssumption DEF WdtInv, WdtTypeOK, Awake
<1>3. Counted' = Counted /\ wake' # Awake
  BY <1>1, PeriodAssumption DEF Counted, Awake
<1> QED
  BY <1>1, <1>2, <1>3 DEF WdtInv, Loaded, AwakeInside, Paced

(* The thread wakes up.                                                    *)
LEMMA TestEnabledKeeps ==
  ASSUME WdtInv, TestEnabled
  PROVE  WdtInv'
<1>1. /\ pc'["wdt"] \in {"load", "test"} /\ pc' \in [Ctx -> WdtLabels]
      /\ wake = 0 /\ wake' = Awake
      /\ UNCHANGED <<seconds, loaded, lastWrite, sinceWrite, lost>>
  BY WdtGoto, WdtIsContext DEF TestEnabled, history, WdtInv, WdtLabels
<1>2. WdtTypeOK'
  BY <1>1, PeriodAssumption DEF WdtInv, WdtTypeOK, WdtLabels, Awake
<1>3. Counted' = Counted
  BY <1>1 DEF Counted
<1>4. Paced'
  <2> SUFFICES ASSUME lastWrite # Never, ~lost
               PROVE  /\ sinceWrite + Period >= Counted
                      /\ sinceWrite >= Counted
    BY <1>1, <1>3 DEF Paced
  <2>1. sinceWrite + 0 >= Counted
    BY <1>1 DEF WdtInv, Paced, Awake
  <2> QED
    BY <2>1, CountTypes DEF WdtInv
<1> QED
  BY <1>1, <1>2, <1>4 DEF WdtInv, Loaded, AwakeInside

(* The thread loads the counter.                                           *)
LEMMA LoadKeeps ==
  ASSUME WdtInv, Load
  PROVE  WdtInv'
<1>1. /\ pc["wdt"] = "load" /\ pc' \in [Ctx -> WdtLabels]
      /\ pc'["wdt"] = IF seconds = 0 THEN "test" ELSE "store"
      /\ loaded' = seconds
      /\ UNCHANGED <<seconds, wake, lastWrite, sinceWrite, lost>>
  BY WdtGoto, WdtIsContext DEF Load, At, history, WdtInv, WdtLabels
<1>2. WdtTypeOK'
  BY <1>1 DEF WdtInv, WdtTypeOK, WdtLabels
<1>3. Counted' = Counted
  BY <1>1 DEF Counted
<1>4. Loaded'
  BY <1>1, SecondsAssumption DEF WdtInv, WdtTypeOK, Loaded
<1> QED
  BY <1>1, <1>2, <1>3, <1>4 DEF WdtInv, AwakeInside, Paced

(* The thread stores what it has computed from the counter it loaded.      *)
LEMMA StoreKeeps ==
  ASSUME WdtInv, Store
  PROVE  WdtInv'
<1>1. /\ pc["wdt"] = "store" /\ pc' \in [Ctx -> WdtLabels]
      /\ pc'["wdt"] = "test"
      /\ seconds' = loaded - 1 /\ loaded' = 0
      /\ UNCHANGED <<wake, lastWrite, sinceWrite, lost>>
  BY WdtGoto, WdtIsContext DEF Store, At, history, WdtInv, WdtLabels
<1>2. WdtTypeOK'
  BY <1>1, SecondsAssumption DEF WdtInv, WdtTypeOK, WdtLabels, Loaded
<1>3. Paced'
  <2> SUFFICES ASSUME lastWrite # Never, ~lost
               PROVE  sinceWrite + Period >= Counted'
    BY <1>1 DEF WdtInv, AwakeInside, Paced
  <2>1. Counted' = Counted + Period
    BY <1>1, OneMoreCounted, CountTypes DEF WdtInv, Loaded, Counted
  <2>2. sinceWrite >= Counted
    BY <1>1 DEF WdtInv, Paced
  <2> QED
    BY <2>1, <2>2, CountTypes DEF WdtInv
<1> QED
  BY <1>1, <1>2, <1>3 DEF WdtInv, Loaded, AwakeInside

(* The thread decides whether to bite.                                     *)
LEMMA TestKeeps ==
  ASSUME WdtInv, Test
  PROVE  WdtInv'
<1>1. /\ pc' \in [Ctx -> WdtLabels] /\ pc'["wdt"] \in {"bite", "idle"}
      /\ UNCHANGED <<seconds, loaded, wake, lastWrite, sinceWrite, lost>>
  BY WdtGoto, WdtIsContext DEF Test, wdtVars, WdtInv, WdtLabels, Labels
<1>2. WdtTypeOK'
  BY <1>1 DEF WdtInv, WdtTypeOK, WdtLabels
<1>3. Counted' = Counted
  BY <1>1 DEF Counted
<1> QED
  BY <1>1, <1>2, <1>3 DEF WdtInv, Loaded, AwakeInside, Paced

(* A write starts the time anew, with nothing counted.                     *)
LEMMA WriteKeeps ==
  ASSUME WdtInv, NEW n \in 0 .. MaxSeconds, SenokoWatchdogSet(n)
  PROVE  WdtInv'
<1>1. /\ seconds' = n * 2 /\ lastWrite' = n /\ sinceWrite' = 0
      /\ lost' = (pc["wdt"] = "store")
      /\ UNCHANGED <<pc, loaded, wake>>
  BY DEF SenokoWatchdogSet, vars
<1>2. WdtTypeOK'
  <2>1. /\ seconds' \in 0 .. 2 * MaxSeconds
        /\ lastWrite' \in Never .. MaxSeconds
    BY <1>1, SecondsAssumption DEF Never
  <2>2. sinceWrite' \in 0 .. LongestWait
    BY <1>1, LongestWaitCovers
  <2> QED
    BY <1>1, <2>1, <2>2 DEF WdtInv, WdtTypeOK
<1>3. Counted' = 0
  BY <1>1, PeriodAssumption DEF Counted
<1>4. Paced'
  BY <1>1, <1>3, CountTypes DEF WdtInv, Paced
<1> QED
  BY <1>1, <1>2, <1>4 DEF WdtInv, Loaded, AwakeInside

(* A tick gives to the time since the write what it takes from the sleep.  *)
LEMMA WdtTickKeeps ==
  ASSUME WdtInv, WdtTick
  PROVE  WdtInv'
<1>1. /\ wake' = IF wake > 0 THEN wake - 1 ELSE wake
      /\ sinceWrite' = IF sinceWrite = LongestWait THEN sinceWrite
                                                   ELSE sinceWrite + 1
      /\ UNCHANGED <<pc, seconds, loaded, lastWrite, lost>>
  BY DEF WdtTick, Tick
<1>2. WdtTypeOK'
  <2>1. wake' \in Awake .. Period
    BY <1>1, PeriodAssumption DEF WdtInv, WdtTypeOK, Awake
  <2>2. sinceWrite' \in 0 .. LongestWait
    BY <1>1, LongestWaitCovers DEF WdtInv, WdtTypeOK
  <2> QED
    BY <1>1, <2>1, <2>2 DEF WdtInv, WdtTypeOK
<1>3. wake = Awake <=> wake' = Awake
  BY <1>1, CountTypes DEF WdtInv, Awake
<1>4. Paced'
  <2> SUFFICES ASSUME lastWrite # Never, ~lost
               PROVE  /\ wake # Awake => sinceWrite' + wake' >= Counted
                      /\ wake = Awake => sinceWrite' + Period >= Counted
                      /\ pc["wdt"] \in {"load", "store"} =>
                           sinceWrite' >= Counted
    BY <1>1, <1>3 DEF Paced, Counted
  <2>1. /\ wake # Awake => sinceWrite + wake >= Counted
        /\ wake = Awake => sinceWrite + Period >= Counted
        /\ pc["wdt"] \in {"load", "store"} => sinceWrite >= Counted
    BY DEF WdtInv, Paced
  <2>2. Counted <= LongestWait
    BY LongestWaitCovers, CountTypes DEF WdtInv, WdtTypeOK, Counted
  <2>3. sinceWrite' >= sinceWrite
        /\ (sinceWrite' = sinceWrite + 1 \/ sinceWrite' = LongestWait)
    BY <1>1, CountTypes DEF WdtInv
  <2>4. wake # Awake => wake' >= 0 /\ wake' >= wake - 1
    BY <1>1, CountTypes DEF WdtInv
  <2>5. sinceWrite' \in Int /\ wake' \in Int
    BY <1>1, CountTypes DEF WdtInv
  <2> QED
    BY <2>1, <2>2, <2>3, <2>4, <2>5, CountTypes, LongestWaitCovers DEF WdtInv
<1> QED
  BY <1>1, <1>2, <1>3, <1>4 DEF WdtInv, Loaded, AwakeInside

(* Initially, and after a reset, nothing has been written.                 *)
LEMMA NothingWritten ==
  /\ WdtInit => WdtInv
  /\ WdtReset => WdtInv'
<1>1. "idle" \in WdtLabels /\ "boot" \in WdtLabels
      /\ 0 \in 0 .. LongestWait /\ Never \in Never .. MaxSeconds
      /\ Awake \in Awake .. Period
      /\ 0 \in 0 .. 2 * MaxSeconds
  BY LongestWaitCovers, PeriodAssumption, SecondsAssumption
  DEF WdtLabels, Labels, BootLabels, Never, Awake
<1>2. ASSUME WdtInit PROVE WdtInv
  <2>1. pc = [c \in Ctx |-> IF c = "main" THEN "boot" ELSE "idle"]
    BY <1>2 DEF WdtInit, Init
  <2> QED
    BY <1>1, <1>2, <2>1, WdtIsContext
    DEF WdtInit, WdtInv, WdtTypeOK, Loaded, AwakeInside, Paced, WdtLabels
<1>3. ASSUME WdtReset PROVE WdtInv'
  <2>1. pc' = [c \in Ctx |-> IF c = "main" THEN "boot" ELSE "idle"]
    BY <1>3 DEF WdtReset, Reset
  <2> QED
    BY <1>1, <1>3, <2>1, WdtIsContext
    DEF WdtReset, WdtInv, WdtTypeOK, Loaded, AwakeInside, Paced, WdtLabels
<1> QED
  BY <1>2, <1>3

(* The invariant is inductive.                                             *)
LEMMA WdtInductive == WdtInv /\ [WdtNext]_allVars => WdtInv'
<1> SUFFICES ASSUME WdtInv, [WdtNext]_allVars PROVE WdtInv'
  OBVIOUS
<1>1. CASE UNCHANGED allVars
  BY <1>1
  DEF allVars, vars, wdtVars, WdtInv, WdtTypeOK, Loaded, AwakeInside, Paced,
      Counted
<1>2. CASE WdtNext
  BY <1>2, PowerOnlyKeeps, FeedAndSleepKeeps, TestEnabledKeeps, LoadKeeps,
     StoreKeeps, TestKeeps, WriteKeeps, WdtTickKeeps, NothingWritten
  DEF WdtNext, WdtThread
<1> QED
  BY <1>1, <1>2

-----------------------------------------------------------------------------
(* The variables of senoko-wdt.c keep their types, for every period and    *)
(* every number of seconds: the count is never decremented below zero,     *)
(* whenever the host writes it.                                            *)
THEOREM WdtTypeCorrect == WdtSpec => []WdtTypeOK
<1>1. WdtInv => WdtTypeOK
  BY DEF WdtInv
<1> QED
  BY <1>1, NothingWritten, WdtInductive, PTL DEF WdtSpec

(* Only the thread's own test decides to bite, when the count is zero.     *)
LEMMA DecidesAtZero ==
  ASSUME WdtInv, [WdtNext]_allVars, Decides
  PROVE  seconds = 0
<1>1. pc["wdt"] = "test" /\ pc'["wdt"] = "bite"
  BY DEF Decides
<1>2. ~UNCHANGED pc
  BY <1>1
<1>3. ~PowerOnly
  <2>1. ASSUME NEW c \in Ctx, Step(c), c = "wdt"
        PROVE  FALSE
    BY <1>1, <2>1
    DEF Step, OffStep, OnStep, CheckOff, SetOff, StartCooling, ArmCoolOff,
        DisableWdt, ArmPowerOn, CheckCooling, CheckOn, SetOn, Bite, At
  <2>2. ASSUME NEW c \in Ctx, NEW label \in Labels, Goto(c, label),
               c # "wdt"
        PROVE  FALSE
    BY <1>1, <2>2, WdtGoto DEF WdtInv, WdtLabels
  <2>3. HostCommand => UNCHANGED pc
    BY DEF HostCommand, HostOff, HostReboot, HostOn, HostReserved
  <2> QED
    BY <1>2, <2>1, <2>2, <2>3, StepMoves, InterruptMoves, InitMoves,
       WdtIsContext
    DEF PowerOnly
<1>4. ~FeedAndSleep /\ ~TestEnabled /\ ~Load /\ ~Store
  BY <1>1 DEF FeedAndSleep, TestEnabled, Load, Store, At
<1>5. ~WdtTick /\ \A n \in 0 .. MaxSeconds : ~SenokoWatchdogSet(n)
  BY <1>2 DEF WdtTick, Tick, SenokoWatchdogSet, vars
<1>6. ~WdtReset
  BY <1>1, WdtIsContext DEF WdtReset, Reset
<1>7. Test
  BY <1>2, <1>3, <1>4, <1>5, <1>6 DEF WdtNext, WdtThread, allVars, vars
<1>8. pc'["wdt"] = IF enabled /\ seconds = 0 THEN "bite" ELSE "idle"
  BY <1>7, WdtGoto, WdtIsContext DEF Test, WdtInv, WdtLabels, Labels
<1> QED
  BY <1>1, <1>8

(* The host that wrote n is left alone for n seconds, up to the half that  *)
(* the count is late, unless the write was lost in the thread's decrement, *)
(* for every period, every n and every number of resets.                   *)
THEOREM LeftAloneUntilStarved == WdtSpec => BitesOnlyWhenStarved
<1>1. ASSUME WdtInv, [WdtNext]_allVars, Decides, ~lost
      PROVE  ~EarlyBite
  <2>1. seconds = 0
    BY <1>1, DecidesAtZero
  <2>2. CASE lastWrite = Never
    <3>1. (2 * lastWrite - 1) * Period <= 0
      BY <2>2, PeriodAssumption DEF Never
    <3>2. (2 * lastWrite - 1) * Period \in Int
      BY <2>2, PeriodAssumption DEF Never
    <3> QED
      BY <1>1, <3>1, <3>2, CountTypes DEF EarlyBite, WdtInv
  <2>3. CASE lastWrite # Never
    <3>1. sinceWrite + Period >= Counted
      BY <1>1, <2>3, CountTypes DEF WdtInv, Paced
    <3>2. Counted = (2 * lastWrite - 1) * Period + Period
      BY <1>1, <2>1, CountTypes DEF Counted, WdtInv
    <3>3. (2 * lastWrite - 1) * Period \in Int
      BY <1>1, CountTypes DEF WdtInv
    <3> QED
      BY <1>1, <3>1, <3>2, <3>3, CountTypes DEF EarlyBite, WdtInv
  <2> QED
    BY <2>2, <2>3
<1>2. WdtInv /\ [WdtNext]_allVars => [Decides => lost \/ ~EarlyBite]_allVars
  BY <1>1
<1> QED
  BY <1>2, NothingWritten, WdtInductive, PTL DEF WdtSpec, BitesOnlyWhenStarved

-----------------------------------------------------------------------------
(* Watchdog implements Power: the labels of the thread inside its loop are *)
(* "idle" to power.c, its test that finds a hung host is the call of       *)
(* powerReboot that Power allows at any time while the watchdog is enabled,*)
(* and everything else that the thread does is not seen.                   *)
InLoop == {"load", "store", "test"}

AsPowerSees ==
  [pc EXCEPT !["wdt"] = IF pc["wdt"] \in InLoop THEN "idle" ELSE pc["wdt"]]

Switch == INSTANCE Power_proofs WITH pc <- AsPowerSees

(* The mapping hides the thread's labels and nothing else.                 *)
LEMMA SeenLabels ==
  ASSUME WdtTypeOK
  PROVE  /\ AsPowerSees["wdt"] =
              IF pc["wdt"] \in InLoop THEN "idle" ELSE pc["wdt"]
         /\ \A c \in Ctx : pc[c] \in Labels => AsPowerSees[c] = pc[c]
         /\ \A c \in Ctx : c # "wdt" => AsPowerSees[c] = pc[c]
<1>1. \A c \in Ctx : AsPowerSees[c] =
        IF c = "wdt" /\ pc[c] \in InLoop THEN "idle" ELSE pc[c]
  BY DEF AsPowerSees, WdtTypeOK
<1>2. Labels \cap InLoop = {}
  BY WdtIsContext DEF InLoop
<1> QED
  BY <1>1, <1>2, WdtIsContext

(* A context that is at a label of power.c and may run is seen there, and  *)
(* is seen to be able to run.                                              *)
LEMMA SeenAt ==
  ASSUME WdtTypeOK, NEW c \in Ctx, NEW label \in Labels, At(c, label)
  PROVE  Switch!At(c, label)
<1>1. ASSUME NEW d \in Ctx, Switch!Active(d)
      PROVE  Active(d)
  BY <1>1, SeenLabels DEF Switch!Active, Active
<1>2. Switch!CanRun(c)
  BY <1>1
  DEF At, CanRun, Switch!CanRun, Ctx, Switch!Ctx, Due, Switch!Due, Priority,
      Switch!Priority
<1> QED
  BY <1>2, SeenLabels DEF At, Switch!At

(* A context that goes to a label of power.c is seen to go there.          *)
LEMMA SeenGoto ==
  ASSUME WdtTypeOK, NEW c \in Ctx, NEW label \in Labels, Goto(c, label)
  PROVE  Switch!Goto(c, label)
<1>1. pc' = [pc EXCEPT ![c] = label] /\ pc \in [Ctx -> Labels \union InLoop]
  BY DEF Goto, WdtTypeOK, InLoop
<1>2. label \notin InLoop /\ "wdt" \in Ctx
  BY WdtIsContext DEF InLoop
<1>3. AsPowerSees' = [AsPowerSees EXCEPT ![c] = label]
  BY <1>1, <1>2 DEF AsPowerSees
<1> QED
  BY <1>3 DEF Switch!Goto

(* While the thread stays in its loop nothing is seen of its moves.        *)
LEMMA UnseenGoto ==
  ASSUME WdtTypeOK, NEW label \in InLoop \union {"idle"}, Goto("wdt", label),
         pc["wdt"] \in InLoop \union {"idle"}
  PROVE  UNCHANGED AsPowerSees
<1>1. /\ pc' = [pc EXCEPT !["wdt"] = label]
      /\ pc \in [Ctx -> Labels \union InLoop]
      /\ "wdt" \in Ctx /\ "idle" \notin InLoop
  BY WdtIsContext DEF Goto, WdtTypeOK, InLoop
<1> QED
  BY <1>1 DEF AsPowerSees

(* The boot is over for the one when it is for the other.                  *)
LEMMA SeenBooted ==
  ASSUME WdtTypeOK
  PROVE  Switch!HostMayTalk <=> HostMayTalk
BY SeenLabels, WdtIsContext
DEF Switch!HostMayTalk, HostMayTalk, Switch!Booted, Booted

-----------------------------------------------------------------------------
(* Every step of powerOff, powerReboot and powerOn is seen.                *)
LEMMA SeenStep ==
  ASSUME WdtTypeOK, NEW c \in Ctx, Step(c)
  PROVE  Switch!Step(c)
<1> DEFINE To == {"idle", "check_off", "set_off", "start_cooling",
                  "arm_cool_off", "disable_wdt", "arm_power_on", "on_locked",
                  "check_cooling", "check_on", "set_on", "bite"}
<1>0. To \subseteq Labels
  BY DEF Labels, OffTail
<1> USE SeenAt, SeenGoto, <1>0
<1>1. CheckOff(c) => Switch!CheckOff(c)
  BY DEF CheckOff, Switch!CheckOff
<1>2. SetOff(c) => Switch!SetOff(c)
  BY DEF SetOff, Switch!SetOff, PowerSetState, Switch!PowerSetState
<1>3. StartCooling(c) => Switch!StartCooling(c)
  BY DEF StartCooling, Switch!StartCooling
<1>4. ArmCoolOff(c) => Switch!ArmCoolOff(c)
  BY DEF ArmCoolOff, Switch!ArmCoolOff
<1>5. DisableWdt(c) => Switch!DisableWdt(c)
  BY DEF DisableWdt, Switch!DisableWdt
<1>6. ArmPowerOn(c) => Switch!ArmPowerOn(c)
  BY DEF ArmPowerOn, Switch!ArmPowerOn
<1>7. CheckCooling(c) => Switch!CheckCooling(c)
  BY DEF CheckCooling, Switch!CheckCooling
<1>8. CheckOn(c) => Switch!CheckOn(c)
  BY DEF CheckOn, Switch!CheckOn
<1>9. SetOn(c) => Switch!SetOn(c)
  BY DEF SetOn, Switch!SetOn, PowerSetState, Switch!PowerSetState
<1>10. Bite(c) => Switch!Bite(c)
  BY DEF Bite, Switch!Bite
<1> QED
  BY <1>1, <1>2, <1>3, <1>4, <1>5, <1>6, <1>7, <1>8, <1>9, <1>10
  DEF Step, OffStep, OnStep, Switch!Step, Switch!OffStep, Switch!OnStep

(* So is every step of the tick interrupt ...                              *)
LEMMA SeenInterrupt ==
  ASSUME WdtTypeOK, VtStep
  PROVE  Switch!VtStep
<1> DEFINE To == {"idle", "off_locked", "on_locked", "call_power_on",
                  "stop_cool_off", "disable_wdt"}
<1>0. To \subseteq Labels /\ "vt" \in Ctx
  BY WdtIsContext DEF Labels, OffTail
<1> USE SeenAt, SeenGoto, <1>0
<1>1. FireCoolOff => Switch!FireCoolOff
  BY DEF FireCoolOff, Switch!FireCoolOff, Unarmed, Switch!Unarmed
<1>2. FirePowerOn => Switch!FirePowerOn
  BY DEF FirePowerOn, Switch!FirePowerOn, Unarmed, Switch!Unarmed
<1>3. OffLocked => Switch!OffLocked
  BY DEF OffLocked, Switch!OffLocked, PowerSetStateI, Switch!PowerSetStateI,
         PowerSetState, Switch!PowerSetState
<1>4. OnLocked => Switch!OnLocked
  BY DEF OnLocked, Switch!OnLocked, PowerSetStateI, Switch!PowerSetStateI,
         PowerSetState, Switch!PowerSetState
<1>5. StopCoolOff => Switch!StopCoolOff
  BY DEF StopCoolOff, Switch!StopCoolOff
<1> QED
  BY <1>1, <1>2, <1>3, <1>4, <1>5 DEF VtStep, Switch!VtStep

(* ... of the boot ...                                                     *)
LEMMA SeenInit ==
  ASSUME WdtTypeOK, InitStep
  PROVE  Switch!InitStep
<1>0. BootLabels \union {"idle", "check_cooling"} \subseteq Labels
      /\ "main" \in Ctx
  BY WdtIsContext DEF Labels
<1> USE SeenAt, SeenGoto, <1>0 DEF BootLabels
<1>1. BootToPowerInit => Switch!BootToPowerInit
  BY DEF BootToPowerInit, Switch!BootToPowerInit
<1>2. InitCooling => Switch!InitCooling
  BY DEF InitCooling, Switch!InitCooling
<1>3. InitSignature => Switch!InitSignature
  BY DEF InitSignature, Switch!InitSignature
<1>4. InitRead => Switch!InitRead
  BY DEF InitRead, Switch!InitRead
<1>5. InitPin => Switch!InitPin
  BY DEF InitPin, Switch!InitPin
<1>6. InitReg => Switch!InitReg
  BY DEF InitReg, Switch!InitReg
<1> QED
  BY <1>1, <1>2, <1>3, <1>4, <1>5, <1>6 DEF InitStep, Switch!InitStep

(* ... and every command of the host.                                      *)
LEMMA SeenHost ==
  ASSUME WdtTypeOK, HostCommand
  PROVE  Switch!HostCommand
<1> USE SeenBooted
    DEF PowerSetStateI, Switch!PowerSetStateI, PowerSetState,
        Switch!PowerSetState, PowerOffI, Switch!PowerOffI
<1>0. UNCHANGED pc => UNCHANGED AsPowerSees
  BY DEF AsPowerSees
<1>1. HostOff => Switch!HostOff
  BY <1>0 DEF HostOff, Switch!HostOff
<1>2. HostReboot => Switch!HostReboot
  BY <1>0 DEF HostReboot, Switch!HostReboot
<1>3. ASSUME NEW wdtBit \in BOOLEAN
      PROVE  HostOn(wdtBit) => Switch!HostOn(wdtBit)
  BY <1>0 DEF HostOn, Switch!HostOn
<1>4. ASSUME NEW wdtBit \in BOOLEAN
      PROVE  HostReserved(wdtBit) => Switch!HostReserved(wdtBit)
  BY <1>0 DEF HostReserved, Switch!HostReserved
<1> QED
  BY <1>1, <1>2, <1>3, <1>4 DEF HostCommand, Switch!HostCommand

(* Time is the same for both.                                              *)
LEMMA SeenTick ==
  ASSUME WdtTypeOK, Tick
  PROVE  Switch!Tick
<1>1. Switch!At("vt", "idle")
  BY SeenAt, WdtIsContext DEF Tick, Labels
<1>2. UNCHANGED AsPowerSees
  BY DEF Tick, AsPowerSees
<1> QED
  BY <1>1, <1>2
  DEF Tick, Switch!Tick, Due, Switch!Due, Countdown, Switch!Countdown,
      Unarmed, Switch!Unarmed

(* A reset takes the thread out of its loop.                               *)
LEMMA SeenReset ==
  ASSUME Reset
  PROVE  Switch!Reset
<1>1. pc' = [c \in Ctx |-> IF c = "main" THEN "boot" ELSE "idle"]
  BY DEF Reset
<1>2. AsPowerSees' = pc'
  BY <1>1, WdtIsContext DEF AsPowerSees, InLoop
<1> QED
  BY <1>1, <1>2
  DEF Reset, Switch!Reset, Ctx, Switch!Ctx, Unarmed, Switch!Unarmed

(* The thread is seen when it decides to bite, and only then.              *)
LEMMA SeenThread ==
  ASSUME WdtTypeOK, WdtThread
  PROVE  Switch!WdtExpires("wdt") \/ UNCHANGED Switch!vars
<1> USE WdtIsContext DEF powerButPc, Switch!vars, InLoop
<1>1. CASE FeedAndSleep
  BY <1>1 DEF FeedAndSleep, AsPowerSees, vars
<1>2. CASE TestEnabled
  BY <1>2, UnseenGoto DEF TestEnabled, At
<1>3. CASE Load
  BY <1>3, UnseenGoto DEF Load, At
<1>4. CASE Store
  BY <1>4, UnseenGoto DEF Store, At
<1>5. CASE Test /\ ~(enabled /\ seconds = 0)
  BY <1>5, UnseenGoto DEF Test, At
<1>6. CASE Test /\ enabled /\ seconds = 0
  <2>1. "bite" \in Labels
    BY DEF Labels
  <2>2. Goto("wdt", "bite") /\ pc["wdt"] = "test" /\ CanRun("wdt")
    BY <1>6 DEF Test, At
  <2>3. Switch!Goto("wdt", "bite")
    BY <2>1, <2>2, SeenGoto
  <2>4. Switch!At("wdt", "idle")
    <3>1. ASSUME NEW d \in Ctx, Switch!Active(d)
          PROVE  Active(d)
      BY <3>1, SeenLabels DEF Switch!Active, Active
    <3>2. Switch!CanRun("wdt")
      BY <2>2, <3>1
      DEF CanRun, Switch!CanRun, Ctx, Switch!Ctx, Due, Switch!Due, Priority,
          Switch!Priority
    <3> QED
      BY <2>2, <3>2, SeenLabels DEF Switch!At
  <2> QED
    BY <1>6, <2>3, <2>4 DEF Test, Switch!WdtExpires, Switch!Call
<1> QED
  BY <1>1, <1>2, <1>3, <1>4, <1>5, <1>6 DEF WdtThread

(* Every step of Watchdog is a step of Power, or is not seen.              *)
LEMMA SeenNext ==
  WdtTypeOK /\ [WdtNext]_allVars => [Switch!Next]_(Switch!vars)
<1> SUFFICES ASSUME WdtTypeOK, [WdtNext]_allVars
             PROVE  Switch!Next \/ UNCHANGED Switch!vars
  OBVIOUS
<1>0. UNCHANGED vars => UNCHANGED Switch!vars
  BY DEF vars, Switch!vars, AsPowerSees
<1>1. CASE UNCHANGED allVars
  BY <1>0, <1>1 DEF allVars
<1>2. CASE PowerOnly
  <2>1. Switch!Ctx = Ctx
    BY DEF Switch!Ctx, Ctx
  <2> QED
    BY <1>2, <2>1, SeenStep, SeenInterrupt, SeenHost, SeenInit
    DEF PowerOnly, Switch!Next, Switch!Run
<1>3. CASE WdtThread
  <2>1. Switch!WdtExpires("wdt") => Switch!Next
    BY WdtCallsPower DEF Switch!Next, Switch!Run, Switch!Calls
  <2> QED
    BY <1>3, <2>1, SeenThread
<1>4. ASSUME NEW n \in 0 .. MaxSeconds, SenokoWatchdogSet(n)
      PROVE  UNCHANGED Switch!vars
  BY <1>0, <1>4 DEF SenokoWatchdogSet
<1>5. CASE WdtTick
  BY <1>5, SeenTick DEF WdtTick, Switch!Next
<1>6. CASE WdtReset
  BY <1>6, SeenReset DEF WdtReset, Switch!Next, Switch!Run
<1> QED
  BY <1>1, <1>2, <1>3, <1>4, <1>5, <1>6 DEF WdtNext

(* The watchdog thread with its count and its sleep implements the caller  *)
(* that Power lets reboot the board whenever the watchdog is enabled: what *)
(* is proved of power.c holds with the real watchdog, for every period,    *)
(* every number of seconds and every number of resets.                     *)
THEOREM WatchdogImplementsPower == WdtSpec => Switch!Spec
<1>1. WdtInit => Switch!Init
  <2> SUFFICES ASSUME WdtInit PROVE Switch!Init
    OBVIOUS
  <2>1. pc = [c \in Ctx |-> IF c = "main" THEN "boot" ELSE "idle"] /\ Init
    BY DEF WdtInit, Init
  <2>2. AsPowerSees = pc
    BY <2>1, WdtIsContext DEF AsPowerSees, InLoop
  <2> QED
    BY <2>1, <2>2
    DEF Init, Switch!Init, Ctx, Switch!Ctx, Unarmed, Switch!Unarmed
<1> QED
  BY <1>1, SeenNext, WdtTypeCorrect, PTL DEF WdtSpec, Switch!Spec

(* With the watchdog thread biting whenever its count runs out, the        *)
(* cool-off still cannot get stuck, and a boot with the slave closed still *)
(* ends with the pin at what the register says, for every period, every    *)
(* number of seconds and every number of resets.                           *)
THEOREM SwitchIsSafeWithWatchdog ==
  WdtSpec => [](CoolOffCannotWedge /\ QuietBootSynchronises)
<1>1. WdtTypeOK /\ Switch!CoolOffCannotWedge => CoolOffCannotWedge
  <2> SUFFICES ASSUME WdtTypeOK, Switch!CoolOffCannotWedge, cooling_off
               PROVE  \/ cool_off_vt # Unarmed
                      \/ pc["vt"] = "stop_cool_off"
                      \/ \E c \in Ctx : pc[c] = "arm_cool_off"
    BY DEF CoolOffCannotWedge
  <2>1. AsPowerSees["vt"] = pc["vt"]
    BY SeenLabels, WdtIsContext
  <2>2. \A c \in Ctx : AsPowerSees[c] = "arm_cool_off" =>
                         pc[c] = "arm_cool_off"
    BY SeenLabels
  <2> QED
    BY <2>1, <2>2
    DEF Switch!CoolOffCannotWedge, Switch!Unarmed, Unarmed, Switch!Ctx, Ctx
<1>2. WdtTypeOK /\ Switch!QuietBootSynchronises => QuietBootSynchronises
  BY SeenLabels, WdtIsContext
  DEF Switch!QuietBootSynchronises, QuietBootSynchronises,
      Switch!BootSynchronises, BootSynchronises, Switch!Booted, Booted
<1> QED
  BY <1>1, <1>2, WdtTypeCorrect, WatchdogImplementsPower,
     Switch!CoolOffNeverWedges, Switch!QuietBootsSynchronise,
     DelayAssumption, CallersAssumption, ResetsAssumption, PTL

=============================================================================
