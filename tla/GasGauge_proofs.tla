-------------------------- MODULE GasGauge_proofs --------------------------
(***************************************************************************)
(* Proofs about GasGauge, for every number of tries.                       *)
(*                                                                         *)
(* TypesInv holds of every reachable state.  SafeInv holds until a command *)
(* strays: i2c_bus_sem admits one thread, so whoever is about to use a     *)
(* selection or the cache is the one who made it (Bound), and the update   *)
(* writes the version when nothing else is left to write (Progress).       *)
(* DrainInv adds what the charger thread knows about the pack.  The last   *)
(* theorem is about steps: none takes back what the update wrote.          *)
(***************************************************************************)
EXTENDS GasGauge, SequenceTheorems, TLAPS

-----------------------------------------------------------------------------
Access == [op : {"get", "set"}, of : Parts]

Rounds == {"woken", "state", "voltage", "test", "cut", "rates"}

Labels == Transactions \union Rounds \union
          {"start", "asleep", "prompt", "waiting", "done", "release"}

CommandsOf(t) ==
  IF t = "charger" THEN {"none", "broadcast", "round", "term"}
  ELSE {"none", "version", "update", "stats", "gg", "chg"}

ThreadStates ==
  [pc : Labels, cmd : CommandsOf("charger") \union CommandsOf("main"),
   job : Seq(Access), got : Contents \union {"none"}, ok : BOOLEAN,
   try : 0 .. MaxTries - 1]

GaugeStates == [flash : [Parts -> Contents], selected : Parts \union {"none"}]

CacheStates == [of : Parts \union {"none"}, val : Contents \union {"none"}]

(* Which points and commands of a thread go together.                      *)
Placed(t, r) ==
  /\ r.cmd \in CommandsOf(t)
  /\ r.pc \in Transactions => r.job # <<>>
  /\ r.pc = "waiting" => /\ r.cmd \in {"version", "stats", "broadcast", "round"}
                         /\ r.cmd # "round" => r.job # <<>>
  /\ r.cmd = "chg" => r.pc = "release"
  /\ r.cmd = "gg" => r.pc \in Transactions
  /\ r.pc \in Rounds => r.cmd = "round"
  /\ r.cmd \in {"round", "term"} => r.pc \notin {"start", "asleep", "prompt"}

TypesInv ==
  /\ gauge \in GaugeStates
  /\ cache \in CacheStates
  /\ bus \in BOOLEAN
  /\ th \in [Threads -> ThreadStates]
  /\ \A t \in Threads : Placed(t, th[t])
  /\ \A t \in Threads : At(t, "reselect") \/ At(t, "write") =>
                          cache.val # "none"
  /\ chg \in [paused : BOOLEAN, woken : BOOLEAN, low : BOOLEAN]
  /\ board \in [feeding : BOOLEAN, empty : BOOLEAN]
  /\ drained \in BOOLEAN
  /\ strayed \in BOOLEAN

-----------------------------------------------------------------------------
(* One thread has the bus.                                                 *)
Exclusive ==
  /\ ~(Inside("charger") /\ Inside("main"))
  /\ \A t \in Threads : Inside(t) \/ At(t, "waiting") => ~bus
  /\ th["main"].cmd = "gg" => ~Inside("charger")

(* The selection and the cache are those of the thread that goes on to use *)
(* them.                                                                   *)
Bound(t) ==
  /\ At(t, "read") \/ At(t, "write") => gauge.selected = Part(t)
  /\ At(t, "reselect") \/ At(t, "write") =>
       /\ Head(th[t].job).op = "set"
       /\ cache.of = Part(t)
       /\ cache.val = IF th[t].cmd = "update" THEN "new"
                                              ELSE gauge.flash[Part(t)]

(* What an update does not have to write any more is new, and it writes    *)
(* the version last.                                                       *)
Progress ==
  LET job == th["main"].job IN
  th["main"].cmd = "update" /\ th["main"].pc \in Transactions =>
    /\ \A p \in Parts : \/ gauge.flash[p] = "new"
                        \/ \E i \in 1 .. Len(job) : job[i] = Set(p)
    /\ \A i \in 1 .. Len(job) : job[i] = Set("version") => i = Len(job)

Sound ==
  /\ Exclusive
  /\ \A t \in Threads : Bound(t) /\ th[t].got # "lost"
  /\ \A p \in Parts : gauge.flash[p] # "lost"
  /\ Progress
  /\ gauge.flash["version"] = "new" => \A p \in Parts : gauge.flash[p] = "new"

SafeInv == strayed \/ Sound

(* In a round an empty pack is noticed, and a voltage that is low is one   *)
(* of this round.                                                          *)
DrainInv ==
  LET r == th["charger"] IN
  /\ r.cmd \in {"round", "term"} /\ board.empty => drained
  /\ ~strayed /\ (r.pc = "test" \/ r.cmd = "term") /\ chg.low => drained
  /\ ~strayed /\ r.pc = "cut" => drained

-----------------------------------------------------------------------------
(* The two threads.                                                        *)
LEMMA OtherIs ==
  /\ Other("charger") = "main" /\ Other("main") = "charger"
  /\ \A t \in Threads : Other(t) \in Threads /\ Other(t) # t
<1>1. \E u \in Threads : u # "charger"
  BY DEF Threads
<1>2. \E u \in Threads : u # "main"
  BY DEF Threads
<1>3. Other("charger") \in Threads /\ Other("charger") # "charger"
  BY <1>1 DEF Other
<1>4. Other("main") \in Threads /\ Other("main") # "main"
  BY <1>2 DEF Other
<1> QED
  BY <1>3, <1>4 DEF Threads

(* The programs are sequences of accesses, and the update writes each      *)
(* part, the version at its end.                                           *)
LEMMA UpdateIs ==
  /\ Update \in Seq(Access) /\ Len(Update) = 7
  /\ Update[1] = Get("cells") /\ Update[2] = Get("capacity")
  /\ Update[3] = Get("cells") /\ Update[4] = Set("cells")
  /\ Update[5] = Set("limits") /\ Update[6] = Set("capacity")
  /\ Update[7] = Set("version")
<1> DEFINE a == Get("cells")
           b == Get("capacity")
           c == Set("cells")
           d == Set("limits")
           e == Set("capacity")
           f == Set("version")
<1>1. /\ a \in Access /\ b \in Access /\ c \in Access /\ d \in Access
      /\ e \in Access /\ f \in Access
  BY DEF Get, Set, Access, Parts
<1>2. Update = <<a>> \o <<b>> \o <<a, c, d>> \o <<e>> \o <<f>>
  BY DEF Update, CellCount, SetCellCount, SetCapacity
<1> HIDE DEF a, b, c, d, e, f
<1>3. (<<a>> \o <<b>> \o <<a, c, d>> \o <<e>> \o <<f>>) \in Seq(Access)
  BY <1>1
<1>4. Len(<<a>> \o <<b>> \o <<a, c, d>> \o <<e>> \o <<f>>) = 7
  BY <1>1
<1>5. (<<a>> \o <<b>> \o <<a, c, d>> \o <<e>> \o <<f>>)[1] = a
  BY <1>1
<1>6. (<<a>> \o <<b>> \o <<a, c, d>> \o <<e>> \o <<f>>)[2] = b
  BY <1>1
<1>7. (<<a>> \o <<b>> \o <<a, c, d>> \o <<e>> \o <<f>>)[3] = a
  BY <1>1
<1>8. (<<a>> \o <<b>> \o <<a, c, d>> \o <<e>> \o <<f>>)[4] = c
  BY <1>1
<1>9. (<<a>> \o <<b>> \o <<a, c, d>> \o <<e>> \o <<f>>)[5] = d
  BY <1>1
<1>10. (<<a>> \o <<b>> \o <<a, c, d>> \o <<e>> \o <<f>>)[6] = e
  BY <1>1
<1>11. (<<a>> \o <<b>> \o <<a, c, d>> \o <<e>> \o <<f>>)[7] = f
  BY <1>1
<1>12. /\ Update \in Seq(Access) /\ Len(Update) = 7
       /\ Update[1] = a /\ Update[2] = b /\ Update[3] = a
       /\ Update[4] = c /\ Update[5] = d /\ Update[6] = e
       /\ Update[7] = f
  BY <1>2, <1>3, <1>4, <1>5, <1>6, <1>7, <1>8, <1>9, <1>10, <1>11
<1> QED
  BY <1>12 DEF a, b, c, d, e, f

(* The programs are sequences of accesses.                                 *)
LEMMA ProgramsTyped ==
  /\ \A cmd \in {"version", "broadcast", "stats"} :
       Program(cmd) \in Seq(Access) /\ Program(cmd) # <<>>
  /\ Program("round") \in Seq(Access)
  /\ Update \in Seq(Access) /\ Update # <<>>
  /\ TermVoltage \in Seq(Access) /\ TermVoltage # <<>>
  /\ \A p \in Parts : <<Set(p)>> \in Seq(Access) /\ <<Set(p)>> # <<>>
<1>1. \A p \in Parts : Get(p) \in Access /\ Set(p) \in Access
  BY DEF Get, Set, Access
<1>2. {"cells", "limits", "capacity", "version"} = Parts
  BY DEF Parts
<1>3. Program("version") = <<Get("version")>>
      /\ Program("broadcast") = <<Get("cells"), Set("cells")>>
      /\ Program("stats") = <<Get("cells")>> /\ Program("round") = <<>>
  BY DEF Program, SetBroadcast, CellCount
<1>4. TermVoltage = <<Get("limits")>>
  BY DEF TermVoltage
<1>5. Update \in Seq(Access) /\ Update # <<>>
  BY UpdateIs
<1>6. \A cmd \in {"version", "broadcast", "stats"} :
        Program(cmd) \in Seq(Access) /\ Program(cmd) # <<>>
  <2>1. /\ Get("version") \in Access /\ Get("cells") \in Access
        /\ Set("cells") \in Access
    BY <1>1, <1>2
  <2>2. /\ <<Get("version")>> \in Seq(Access)
        /\ <<Get("cells")>> \in Seq(Access)
        /\ <<Get("cells"), Set("cells")>> \in Seq(Access)
    BY <2>1
  <2>3. /\ <<Get("version")>> # <<>> /\ <<Get("cells")>> # <<>>
        /\ <<Get("cells"), Set("cells")>> # <<>>
    OBVIOUS
  <2>4. ASSUME NEW cmd \in {"version", "broadcast", "stats"}
        PROVE  Program(cmd) \in Seq(Access) /\ Program(cmd) # <<>>
    <3>1. CASE cmd = "version"
      BY <1>3, <2>2, <2>3, <3>1
    <3>2. CASE cmd = "broadcast"
      BY <1>3, <2>2, <2>3, <3>2
    <3>3. CASE cmd = "stats"
      BY <1>3, <2>2, <2>3, <3>3
    <3> QED
      BY <3>1, <3>2, <3>3
  <2> QED
    BY <2>4
<1>7. Program("round") \in Seq(Access)
  BY <1>3, EmptySeq
<1>8. TermVoltage \in Seq(Access) /\ TermVoltage # <<>>
  BY <1>1, <1>2, <1>4
<1>9. \A p \in Parts : <<Set(p)>> \in Seq(Access) /\ <<Set(p)>> # <<>>
  BY <1>1
<1> QED
  BY <1>5, <1>6, <1>7, <1>8, <1>9

(* A thread at rest, and the types of the threads.                         *)
LEMMA ThreadTyped ==
  /\ Thread \in ThreadStates
  /\ Thread.pc = "start" /\ Thread.cmd = "none" /\ Thread.got = "none"
  /\ \A t \in Threads : Placed(t, Thread)
BY TriesAssumption
DEF Thread, ThreadStates, Placed, Labels, CommandsOf, Contents, Rounds,
    Transactions

(* One thread moves.                                                       *)
LEMMA OneMoves ==
  ASSUME TypesInv, NEW t \in Threads, NEW r \in ThreadStates, Placed(t, r),
         th' = [th EXCEPT ![t] = r]
  PROVE  /\ th' \in [Threads -> ThreadStates]
         /\ th'[t] = r /\ \A u \in Threads \ {t} : th'[u] = th[u]
         /\ \A u \in Threads : Placed(u, th'[u])
<1>1. th \in [Threads -> ThreadStates]
  BY DEF TypesInv
<1>2. /\ th' \in [Threads -> ThreadStates]
      /\ th'[t] = r /\ \A u \in Threads \ {t} : th'[u] = th[u]
  BY <1>1
<1>3. \A u \in Threads : Placed(u, th[u])
  BY DEF TypesInv
<1> QED
  BY <1>2, <1>3

(* A move to another point with the same command and job.                  *)
LEMMA GoneTo ==
  ASSUME TypesInv, NEW t \in Threads, NEW label \in Labels, Goto(t, label)
  PROVE  /\ th'[t] = [th[t] EXCEPT !.pc = label]
         /\ th'[t] \in ThreadStates /\ th'[t].pc = label
         /\ th'[t].cmd = th[t].cmd /\ th'[t].job = th[t].job
         /\ th'[t].got = th[t].got
         /\ th' = [th EXCEPT ![t] = [th[t] EXCEPT !.pc = label]]
         /\ \A u \in Threads \ {t} : th'[u] = th[u]
<1> DEFINE r == [th[t] EXCEPT !.pc = label]
<1>1. th \in [Threads -> ThreadStates] /\ th[t] \in ThreadStates
  BY DEF TypesInv
<1>2. /\ r \in ThreadStates /\ r.pc = label /\ r.cmd = th[t].cmd
      /\ r.job = th[t].job /\ r.got = th[t].got
  BY <1>1 DEF ThreadStates
<1>3. th' = [th EXCEPT ![t] = r]
  BY DEF Goto
<1> HIDE DEF r
<1>4. th'[t] = r /\ \A u \in Threads \ {t} : th'[u] = th[u]
  BY <1>1, <1>3
<1> QED
  BY <1>2, <1>3, <1>4 DEF r

(* What a thread is like once it has the bus.                              *)
LEMMA EnteredTyped ==
  ASSUME NEW t \in Threads, NEW r \in ThreadStates, Placed(t, r),
         r.cmd \in {"version", "stats", "broadcast", "round"},
         r.cmd # "round" => r.job # <<>>
  PROVE  /\ Entered(r) \in ThreadStates /\ Placed(t, Entered(r))
         /\ Entered(r).cmd = r.cmd /\ Entered(r).job = r.job
         /\ Entered(r).got = r.got
         /\ Entered(r).pc = IF r.cmd = "round" THEN "woken" ELSE "select"
<1>1. /\ Entered(r) \in ThreadStates
      /\ Entered(r).cmd = r.cmd /\ Entered(r).job = r.job
      /\ Entered(r).got = r.got
      /\ Entered(r).pc = IF r.cmd = "round" THEN "woken" ELSE "select"
  BY DEF Entered, ThreadStates, Labels, Transactions, Rounds
<1> QED
  BY <1>1 DEF Placed, Transactions, Rounds

-----------------------------------------------------------------------------
(* The acquisition of the bus.                                             *)
LEMMA AcquireFacts ==
  ASSUME TypesInv, NEW t \in Threads, NEW cmd \in CommandsOf(t),
         cmd \in {"version", "stats", "broadcast", "round"},
         Acquire(t, cmd)
  PROVE  /\ th' \in [Threads -> ThreadStates]
         /\ \A u \in Threads : Placed(u, th'[u])
         /\ \A u \in Threads \ {t} : th'[u] = th[u]
         /\ th'[t].cmd = cmd /\ th'[t].got = th[t].got
         /\ \/ /\ bus /\ bus' = FALSE
               /\ th'[t].pc = IF cmd = "round" THEN "woken" ELSE "select"
            \/ ~bus /\ bus' = bus /\ th'[t].pc = "waiting"
<1> DEFINE q == [th[t] EXCEPT !.cmd = cmd, !.job = Program(cmd)]
           w == [q EXCEPT !.pc = "waiting"]
<1>1. th[t] \in ThreadStates
  BY DEF TypesInv
<1>2. cmd \in CommandsOf("charger") \union CommandsOf("main")
  BY DEF Threads, CommandsOf
<1>3. /\ Program(cmd) \in Seq(Access)
      /\ cmd # "round" => Program(cmd) # <<>>
  BY ProgramsTyped
<1>4. /\ q \in ThreadStates /\ q.cmd = cmd /\ q.job = Program(cmd)
      /\ q.got = th[t].got
  BY <1>1, <1>2, <1>3 DEF ThreadStates
<1>5. /\ w \in ThreadStates /\ w.cmd = cmd /\ w.job = Program(cmd)
      /\ w.got = th[t].got /\ w.pc = "waiting"
  <2> HIDE DEF q
  <2> QED
    BY <1>4 DEF ThreadStates, Labels
<1>6. Placed(t, w)
  BY <1>3, <1>5 DEF Placed, Transactions, Rounds
<1>7. /\ Entered(q) \in ThreadStates /\ Placed(t, Entered(q))
      /\ Entered(q).cmd = cmd /\ Entered(q).got = th[t].got
      /\ Entered(q).pc = IF cmd = "round" THEN "woken" ELSE "select"
  <2>1. Entered(q) = Entered(w)
    BY <1>4, <1>5 DEF Entered
  <2> HIDE DEF q, w
  <2> QED
    BY <1>3, <1>5, <1>6, <2>1, EnteredTyped
<1>8. \/ bus /\ bus' = FALSE /\ th' = [th EXCEPT ![t] = Entered(q)]
      \/ ~bus /\ bus' = bus /\ th' = [th EXCEPT ![t] = w]
  BY DEF Acquire
<1> HIDE DEF q, w
<1>9. CASE bus /\ bus' = FALSE /\ th' = [th EXCEPT ![t] = Entered(q)]
  BY <1>7, <1>9, OneMoves
<1>10. CASE ~bus /\ bus' = bus /\ th' = [th EXCEPT ![t] = w]
  BY <1>5, <1>6, <1>10, OneMoves
<1> QED
  BY <1>8, <1>9, <1>10

(* Where a thread goes on after its release.                               *)
LEMMA AfterReleaseTyped ==
  ASSUME TypesInv, NEW t \in Threads
  PROVE  LET r == AfterRelease(t) IN
         /\ r \in ThreadStates /\ Placed(t, r)
         /\ r.pc \in {"start", "asleep", "prompt"}
         /\ r.cmd = "none" /\ r.got = "none"
<1> DEFINE again == /\ th[t].cmd \in {"version", "update"} /\ ~th[t].ok
                    /\ th[t].try + 1 < MaxTries
           pc == CASE t = "charger" -> "asleep"
                   [] again -> "start"
                   [] OTHER -> "prompt"
           try == IF again THEN th[t].try + 1 ELSE 0
           r == [Thread EXCEPT !.pc = pc, !.try = try]
<1>1. AfterRelease(t) = r
  BY DEF AfterRelease
<1>2. pc \in {"start", "asleep", "prompt"} /\ pc \in Labels
  BY DEF Threads, Labels
<1>3. try \in 0 .. MaxTries - 1
  <2>1. th[t].try \in 0 .. MaxTries - 1
    BY DEF TypesInv, ThreadStates
  <2> QED
    BY <2>1, TriesAssumption
<1> HIDE DEF pc, try
<1>4. /\ r \in ThreadStates /\ r.pc = pc /\ r.cmd = "none"
      /\ r.got = "none"
  BY <1>2, <1>3, ThreadTyped DEF ThreadStates
<1> HIDE DEF r
<1>5. Placed(t, r)
  BY <1>2, <1>4 DEF Placed, CommandsOf, Transactions, Rounds
<1> QED
  BY <1>1, <1>2, <1>4, <1>5

(* The release of the bus, to the other thread if that waits.              *)
LEMMA ReleaseFacts ==
  ASSUME TypesInv, NEW t \in Threads, Release(t)
  PROVE  LET u == Other(t) IN
         /\ th' \in [Threads -> ThreadStates]
         /\ \A v \in Threads : Placed(v, th'[v])
         /\ th[t].pc = "release"
         /\ th'[t].pc \in {"start", "asleep", "prompt"}
         /\ th'[t].cmd = "none" /\ th'[t].got = "none"
         /\ th'[u].cmd = th[u].cmd /\ th'[u].got = th[u].got
         /\ th'[u].job = th[u].job
         /\ \/ /\ th[u].pc # "waiting" /\ bus' = TRUE
               /\ th'[u] = th[u]
            \/ /\ th[u].pc = "waiting" /\ bus' = bus
               /\ th'[u].pc = IF th[u].cmd = "round" THEN "woken"
                                                     ELSE "select"
<1> DEFINE u == Other(t)
           r == AfterRelease(t)
<1>1. u \in Threads /\ u # t /\ \A v \in Threads : v = t \/ v = u
  BY OtherIs DEF Threads
<1>2. /\ r \in ThreadStates /\ Placed(t, r)
      /\ r.pc \in {"start", "asleep", "prompt"}
      /\ r.cmd = "none" /\ r.got = "none"
  BY AfterReleaseTyped
<1>3. /\ th \in [Threads -> ThreadStates]
      /\ th[u] \in ThreadStates /\ Placed(u, th[u])
  BY <1>1 DEF TypesInv
<1>4. /\ th[t].pc = "release"
      /\ \/ /\ th[u].pc # "waiting" /\ bus' = TRUE
            /\ th' = [th EXCEPT ![t] = r]
         \/ /\ th[u].pc = "waiting" /\ bus' = bus
            /\ th' = [th EXCEPT ![t] = r, ![u] = Entered(th[u])]
  <2>1. CASE th[u].pc = "waiting"
    <3>1. th' = [th EXCEPT ![t] = r, ![u] = Entered(@)] /\ bus' = bus
          /\ th[t].pc = "release"
      BY <2>1 DEF Release, Released, At
    <3> HIDE DEF r, u
    <3> QED
      BY <1>1, <1>3, <2>1, <3>1
  <2>2. CASE th[u].pc # "waiting"
    BY <2>2 DEF Release, Released, At
  <2> QED
    BY <2>1, <2>2
<1> HIDE DEF r, u
<1>5. CASE th[u].pc # "waiting" /\ bus' = TRUE /\ th' = [th EXCEPT ![t] = r]
  <2>1. /\ th' \in [Threads -> ThreadStates] /\ th'[t] = r
        /\ th'[u] = th[u]
    BY <1>1, <1>2, <1>3, <1>5
  <2> QED
    BY <1>1, <1>2, <1>3, <1>4, <1>5, <2>1 DEF u
<1>6. CASE /\ th[u].pc = "waiting" /\ bus' = bus
           /\ th' = [th EXCEPT ![t] = r, ![u] = Entered(th[u])]
  <2>1. /\ Entered(th[u]) \in ThreadStates /\ Placed(u, Entered(th[u]))
        /\ Entered(th[u]).cmd = th[u].cmd
        /\ Entered(th[u]).job = th[u].job /\ Entered(th[u]).got = th[u].got
        /\ Entered(th[u]).pc = IF th[u].cmd = "round" THEN "woken"
                                                      ELSE "select"
    <3>1. /\ th[u].cmd \in {"version", "stats", "broadcast", "round"}
          /\ th[u].cmd # "round" => th[u].job # <<>>
      BY <1>3, <1>6 DEF Placed
    <3> QED
      BY <1>1, <1>3, <3>1, EnteredTyped
  <2>2. /\ th' \in [Threads -> ThreadStates] /\ th'[t] = r
        /\ th'[u] = Entered(th[u])
    BY <1>1, <1>2, <1>3, <1>6, <2>1
  <2> QED
    BY <1>1, <1>2, <1>4, <1>6, <2>1, <2>2 DEF u
<1> QED
  BY <1>4, <1>5, <1>6

(* The end of a program.                                                   *)
LEMMA EndedTyped ==
  ASSUME TypesInv, NEW t \in Threads, th[t].pc \in Transactions,
         NEW got \in Contents \union {"none"}, NEW ok \in BOOLEAN
  PROVE  LET r == th[t]
             e == Ended(r, got, ok)
         IN /\ e \in ThreadStates /\ Placed(t, e)
            /\ e.pc \in {"prompt", "done", "release"}
            /\ e.pc = "prompt" <=> r.cmd = "gg"
            /\ e.cmd = IF r.cmd = "gg" THEN "none" ELSE r.cmd
            /\ e.got \in {got, r.got, "none"}
<1> DEFINE r == th[t]
           e == Ended(r, got, ok)
<1>1. r \in ThreadStates /\ Placed(t, r)
  BY DEF TypesInv
<1>2. <<>> \in Seq(Access)
  BY EmptySeq
<1>3. CASE r.cmd = "gg"
  <2>1. e = [Thread EXCEPT !.pc = "prompt"]
    BY <1>3 DEF Ended
  <2>2. /\ e \in ThreadStates /\ e.pc = "prompt" /\ e.cmd = "none"
        /\ e.got = "none"
    BY <2>1, ThreadTyped DEF ThreadStates, Labels
  <2> HIDE DEF e
  <2>3. Placed(t, e)
    BY <2>2 DEF Placed, CommandsOf, Transactions, Rounds
  <2> QED
    BY <1>3, <2>2, <2>3 DEF e
<1>4. CASE r.cmd # "gg" /\ r.cmd \in {"version", "term"}
  <2>1. e = [r EXCEPT !.pc = "done", !.job = <<>>, !.got = got, !.ok = ok]
    BY <1>4 DEF Ended
  <2>2. /\ e \in ThreadStates /\ e.pc = "done" /\ e.cmd = r.cmd
        /\ e.got = got
    BY <1>1, <1>2, <2>1 DEF ThreadStates, Labels
  <2> HIDE DEF e
  <2>3. Placed(t, e)
    BY <1>1, <1>4, <2>2 DEF Placed, Transactions, Rounds
  <2> QED
    BY <1>4, <2>2, <2>3 DEF e
<1>5. CASE r.cmd # "gg" /\ r.cmd \notin {"version", "term"}
  <2>1. e = [r EXCEPT !.pc = "release", !.job = <<>>, !.ok = ok]
    BY <1>5 DEF Ended
  <2>2. /\ e \in ThreadStates /\ e.pc = "release" /\ e.cmd = r.cmd
        /\ e.got = r.got
    BY <1>1, <1>2, <2>1 DEF ThreadStates, Labels
  <2> HIDE DEF e
  <2>3. Placed(t, e)
    BY <1>1, <1>5, <2>2 DEF Placed, Transactions, Rounds
  <2> QED
    BY <1>5, <2>2, <2>3 DEF e
<1> QED
  BY <1>3, <1>4, <1>5

(* The access that follows another, or the end of the program.             *)
LEMMA NextAccessTyped ==
  ASSUME TypesInv, NEW t \in Threads, th[t].pc \in Transactions,
         NEW got \in Contents \union {"none"}, NextAccess(t, got)
  PROVE  LET r == th[t]
             n == th'[t]
         IN /\ n \in ThreadStates /\ Placed(t, n)
            /\ th' = [th EXCEPT ![t] = n]
            /\ n.cmd = IF n.pc = "prompt" THEN "none" ELSE r.cmd
            /\ n.pc = "prompt" => r.cmd = "gg"
            /\ n.got \in {got, r.got, "none"}
            /\ \/ n.pc \in {"prompt", "done", "release"}
               \/ /\ n.pc = "select"
                  /\ n.job = Tail(r.job) /\ Len(r.job) # 1
<1> DEFINE r == th[t]
           more == [r EXCEPT !.pc = "select", !.job = Tail(r.job)]
           n == IF Len(r.job) = 1 THEN Ended(r, got, TRUE) ELSE more
<1>1. /\ th \in [Threads -> ThreadStates] /\ r \in ThreadStates
      /\ Placed(t, r) /\ r.job \in Seq(Access) /\ r.job # <<>>
  BY DEF TypesInv, Placed, ThreadStates
<1>2. th' = [th EXCEPT ![t] = n]
  BY DEF NextAccess
<1>3. CASE Len(r.job) = 1
  <2> DEFINE e == Ended(r, got, TRUE)
  <2>1. /\ e \in ThreadStates /\ Placed(t, e)
        /\ e.pc \in {"prompt", "done", "release"}
        /\ e.pc = "prompt" <=> r.cmd = "gg"
        /\ e.cmd = IF r.cmd = "gg" THEN "none" ELSE r.cmd
        /\ e.got \in {got, r.got, "none"}
    BY EndedTyped
  <2>2. n = e
    BY <1>3
  <2> HIDE DEF e, n
  <2>3. th'[t] = e
    BY <1>1, <1>2, <2>2
  <2> QED
    BY <1>2, <2>1, <2>2, <2>3
<1>4. CASE Len(r.job) # 1
  <2>1. Tail(r.job) \in Seq(Access) /\ Tail(r.job) # <<>>
    <3> DEFINE j == r.job
    <3>1. /\ j \in Seq(Access) /\ j # <<>> /\ Len(j) # 1
      BY <1>1, <1>4
    <3> HIDE DEF j
    <3>2. /\ Tail(j) \in Seq(Access) /\ Len(Tail(j)) = Len(j) - 1
          /\ Len(j) \in Nat
      BY <3>1, HeadTailProperties
    <3>3. Len(Tail(j)) # 0
      BY <3>1, <3>2
    <3>4. Tail(j) # <<>>
      BY <3>2, <3>3, EmptySeq
    <3> QED
      BY <3>2, <3>4 DEF j
  <2>2. /\ more \in ThreadStates /\ more.pc = "select"
        /\ more.cmd = r.cmd /\ more.got = r.got
        /\ more.job = Tail(r.job)
    BY <1>1, <2>1 DEF ThreadStates, Labels, Transactions
  <2>3. n = more
    BY <1>4
  <2> HIDE DEF more, n
  <2>4. Placed(t, more)
    BY <1>1, <2>1, <2>2 DEF Placed, Transactions, Rounds
  <2>5. th'[t] = more
    BY <1>1, <1>2, <2>3
  <2> QED
    BY <1>2, <1>4, <2>2, <2>3, <2>4, <2>5
<1> QED
  BY <1>3, <1>4

-----------------------------------------------------------------------------
(* One transaction, which succeeds or fails.                               *)
Transacts(t) ==
  \/ Select(t) \/ Read(t) \/ Write(t)
  \/ FailsWithEffect(t) \/ FailsWithoutEffect(t)

(* What a thread in an access works on, and sees.                          *)
LEMMA SeenTyped ==
  ASSUME TypesInv, NEW t \in Threads, th[t].pc \in Transactions
  PROVE  /\ Part(t) \in Parts
         /\ Head(th[t].job) \in Access
         /\ Seen(t) \in Contents
<1>1. th[t].job \in Seq(Access) /\ th[t].job # <<>>
  BY DEF TypesInv, Placed, ThreadStates
<1>2. Head(th[t].job) \in Access
  BY <1>1, HeadTailProperties
<1>3. Part(t) \in Parts
  BY <1>2 DEF Part, Access
<1>4. Seen(t) \in Contents
  BY <1>3 DEF Seen, TypesInv, GaugeStates, Contents
<1> QED
  BY <1>2, <1>3, <1>4

(* What it does to its thread.                                             *)
LEMMA TransactMoves ==
  ASSUME TypesInv, NEW t \in Threads, Transacts(t)
  PROVE  LET r == th[t]
             n == th'[t]
         IN /\ th' \in [Threads -> ThreadStates]
            /\ \A v \in Threads : Placed(v, th'[v])
            /\ \A v \in Threads \ {t} : th'[v] = th[v]
            /\ r.pc \in Transactions
            /\ n.pc \in Transactions \union {"prompt", "done", "release"}
            /\ n.cmd = IF n.pc = "prompt" THEN "none" ELSE r.cmd
            /\ n.pc = "prompt" => r.cmd = "gg"
<1> DEFINE r == th[t]
           n == th'[t]
<1>1. r \in ThreadStates /\ Placed(t, r)
  BY DEF TypesInv
<1>2. r.pc \in Transactions
  BY DEF Transacts, Select, SelectEffect, Read, Write, WriteEffect,
         FailsWithEffect, FailsWithoutEffect, Fails, At, Transactions
<1>3. r.cmd \notin {"chg"} /\ r.job # <<>> /\ r.pc \notin Rounds
  BY <1>1, <1>2 DEF Placed, Transactions, Rounds
<1>4. ASSUME NEW label \in Transactions, Goto(t, label)
      PROVE  /\ n \in ThreadStates /\ Placed(t, n)
             /\ th' = [th EXCEPT ![t] = n]
             /\ n.cmd = r.cmd /\ n.pc = label
  <2>1. label \in Labels
    BY DEF Labels
  <2>2. /\ n = [r EXCEPT !.pc = label] /\ n \in ThreadStates
        /\ n.pc = label /\ n.cmd = r.cmd /\ n.job = r.job
        /\ th' = [th EXCEPT ![t] = [r EXCEPT !.pc = label]]
    BY <1>4, <2>1, GoneTo
  <2>3. Placed(t, n)
    BY <1>1, <1>2, <1>3, <2>2 DEF Placed, Transactions, Rounds
  <2> QED
    BY <2>2, <2>3
<1>5. /\ n \in ThreadStates /\ Placed(t, n)
      /\ th' = [th EXCEPT ![t] = n]
      /\ n.pc \in Transactions \union {"prompt", "done", "release"}
      /\ n.cmd = IF n.pc = "prompt" THEN "none" ELSE r.cmd
      /\ n.pc = "prompt" => r.cmd = "gg"
  <2>1. CASE \E label \in Transactions : Goto(t, label)
    BY <1>4, <2>1 DEF Transactions
  <2>2. CASE \E got \in Contents \union {"none"} : NextAccess(t, got)
    BY <1>2, <2>2, NextAccessTyped DEF Transactions
  <2>3. CASE Fails(t)
    <3> DEFINE e == Ended(r, "none", FALSE)
    <3>1. /\ e \in ThreadStates /\ Placed(t, e)
          /\ e.pc \in {"prompt", "done", "release"}
          /\ e.pc = "prompt" <=> r.cmd = "gg"
          /\ e.cmd = IF r.cmd = "gg" THEN "none" ELSE r.cmd
      BY <1>2, EndedTyped
    <3>2. th' = [th EXCEPT ![t] = e]
      BY <2>3 DEF Fails
    <3> HIDE DEF e
    <3>3. n = e
      BY <3>2 DEF TypesInv
    <3> QED
      BY <3>1, <3>2, <3>3
  <2>4. CASE Select(t)
    BY <2>1, <2>4 DEF Select, Transactions
  <2>5. CASE Read(t)
    BY <1>2, <2>1, <2>2, <2>5, SeenTyped DEF Read, Transactions
  <2>6. CASE Write(t)
    BY <2>2, <2>6 DEF Write
  <2> QED
    BY <2>3, <2>4, <2>5, <2>6
    DEF Transacts, FailsWithEffect, FailsWithoutEffect
<1> HIDE DEF n
<1>6. /\ th' \in [Threads -> ThreadStates]
      /\ \A v \in Threads \ {t} : th'[v] = th[v]
      /\ \A v \in Threads : Placed(v, th'[v])
  BY <1>5, OneMoves
<1> QED
  BY <1>2, <1>5, <1>6 DEF n

(* What it does to the gauge and the cache.                                *)
LEMMA TransactEffects ==
  ASSUME TypesInv, NEW t \in Threads, Transacts(t)
  PROVE  /\ gauge' \in GaugeStates /\ cache' \in CacheStates
         /\ UNCHANGED <<bus, chg, board, drained, strayed>>
         /\ \A v \in Threads : th'[v].pc \in {"reselect", "write"} =>
                                 cache'.val # "none"
<1>1. /\ th[t].pc \in Transactions
      /\ th' \in [Threads -> ThreadStates]
      /\ \A v \in Threads \ {t} : th'[v] = th[v]
  BY TransactMoves
<1>2. /\ Part(t) \in Parts /\ Seen(t) \in Contents
      /\ gauge \in GaugeStates /\ cache \in CacheStates
  BY <1>1, SeenTyped DEF TypesInv
<1>3. UNCHANGED <<bus, chg, board, drained, strayed>>
  BY DEF Transacts, Select, SelectEffect, Read, Write, WriteEffect,
         FailsWithEffect, FailsWithoutEffect
<1>4. ASSUME Cleared(t)
      PROVE  cache' \in CacheStates /\ (cache' = cache \/ cache'.val = "lost")
  BY <1>2, <1>4 DEF Cleared, CacheStates, Contents
<1>5. ASSUME SelectEffect(t)
      PROVE  gauge' \in GaugeStates
  BY <1>2, <1>5 DEF SelectEffect, GaugeStates
<1>6. ASSUME Read(t)
      PROVE  /\ gauge' = gauge /\ cache' \in CacheStates
             /\ cache' = cache \/ cache'.val # "none"
             /\ th'[t].pc \in {"reselect", "write"} => cache'.val # "none"
  <2>1. CASE Head(th[t].job).op = "get"
    <3>1. NextAccess(t, Seen(t)) /\ UNCHANGED <<gauge, cache>>
      BY <1>6, <2>1 DEF Read
    <3>2. th'[t].pc \notin {"reselect", "write"}
      BY <1>1, <1>2, <3>1, NextAccessTyped
    <3> QED
      BY <1>2, <3>1, <3>2
  <2>2. CASE Head(th[t].job).op # "get"
    <3>1. cache' = [of |-> Part(t),
                    val |-> IF th[t].cmd = "update" /\ Seen(t) # "lost"
                            THEN "new" ELSE Seen(t)]
          /\ UNCHANGED gauge
      BY <1>6, <2>2 DEF Read
    <3> QED
      BY <1>2, <3>1 DEF CacheStates, Contents
  <2> QED
    BY <2>1, <2>2
<1>7. ASSUME WriteEffect(t)
      PROVE  gauge' \in GaugeStates /\ cache' = cache
  <2>1. cache.val \in Contents
    BY <1>2, <1>7 DEF WriteEffect, TypesInv, CacheStates, At
  <2>2. \E val \in Contents :
          gauge' = [gauge EXCEPT !.flash[gauge.selected] = val]
    BY <1>7, <2>1 DEF WriteEffect, Contents
  <2> QED
    BY <1>2, <1>7, <2>2 DEF WriteEffect, GaugeStates
<1>8. gauge' \in GaugeStates /\ cache' \in CacheStates
      /\ (cache' = cache \/ cache'.val # "none")
  BY <1>2, <1>4, <1>5, <1>6, <1>7
  DEF Transacts, Select, SelectEffect, Write, FailsWithEffect,
      FailsWithoutEffect
<1>9. th'[t].pc \in {"reselect", "write"} => cache'.val # "none"
  <2>1. CASE Read(t)
    BY <1>6, <2>1
  <2>2. CASE Select(t)
    <3>1. CASE th[t].pc = "select"
      <4>1. th'[t].pc = "read"
        BY <3>1, <2>2, GoneTo DEF Select, At, Labels, Transactions
      <4> QED
        BY <4>1
    <3>2. CASE th[t].pc # "select"
      <4>1. th[t].pc = "reselect" /\ cache' = cache
        BY <2>2, <3>2 DEF Select, SelectEffect, Cleared
      <4> QED
        BY <4>1 DEF TypesInv, At
    <3> QED
      BY <3>1, <3>2
  <2>3. CASE Write(t)
    <3>1. NextAccess(t, "none")
      BY <2>3 DEF Write
    <3> QED
      BY <1>1, <3>1, NextAccessTyped
  <2>4. CASE Fails(t)
    <3>1. th' = [th EXCEPT ![t] = Ended(th[t], "none", FALSE)]
      BY <2>4 DEF Fails
    <3>2. th'[t] = Ended(th[t], "none", FALSE)
      BY <3>1 DEF TypesInv
    <3> QED
      BY <1>1, <3>2, EndedTyped
  <2> QED
    BY <2>1, <2>2, <2>3, <2>4
    DEF Transacts, FailsWithEffect, FailsWithoutEffect
<1>10. \A v \in Threads : th'[v].pc \in {"reselect", "write"} =>
                            cache'.val # "none"
  BY <1>1, <1>8, <1>9 DEF TypesInv, At
<1> QED
  BY <1>3, <1>8, <1>10

-----------------------------------------------------------------------------
(* The charger thread between its transactions.                            *)
ChargerMoves ==
  \/ \E label \in {"woken", "state", "voltage", "rates"} : Continue(label)
  \/ Capacity
  \/ \E state \in {"normal", "wake_up"} : State(state)
  \/ Voltage
  \/ TermDone
  \/ TestLow
  \/ Cut

(* They leave the gauge, the bus and the main thread alone.                *)
LEMMA ChargerMoved ==
  ASSUME TypesInv, ChargerMoves
  PROVE  LET r == th["charger"]
             n == th'["charger"]
         IN /\ th' \in [Threads -> ThreadStates]
            /\ \A v \in Threads : Placed(v, th'[v])
            /\ th'["main"] = th["main"]
            /\ r.pc \in Rounds \union {"done"}
            /\ n.pc \in Rounds \union {"release", "select"}
            /\ r.cmd \in {"round", "term"} /\ n.cmd \in {"round", "term"}
            /\ n.got \in {r.got, "none"}
            /\ UNCHANGED <<gauge, cache, bus, strayed>>
<1> DEFINE r == th["charger"]
           n == th'["charger"]
<1>1. /\ "charger" \in Threads /\ "main" \in Threads /\ "main" # "charger"
      /\ \A v \in Threads : v = "charger" \/ v = "main"
  BY DEF Threads
<1>2. r \in ThreadStates /\ Placed("charger", r)
      /\ th \in [Threads -> ThreadStates]
  BY <1>1 DEF TypesInv
<1>3. UNCHANGED <<gauge, cache, bus, strayed>>
  BY DEF ChargerMoves, Continue, Capacity, State, Voltage, TermDone, TestLow,
         Cut
<1>4. /\ r.pc \in Rounds \union {"done"} /\ r.cmd \in {"round", "term"}
  BY <1>2
  DEF ChargerMoves, Continue, Capacity, State, Voltage, TermDone, TestLow,
      Cut, At, Rounds, Placed
<1>5. /\ n \in ThreadStates /\ Placed("charger", n)
      /\ th' = [th EXCEPT !["charger"] = n]
      /\ n.pc \in Rounds \union {"release", "select"}
      /\ n.cmd \in {"round", "term"} /\ n.got \in {r.got, "none"}
  <2>1. CASE \E label \in Rounds \union {"release"} :
               /\ Goto("charger", label)
               /\ label = "release" \/ r.pc \in Rounds
    <3>1. PICK label \in Rounds \union {"release"} :
                 /\ Goto("charger", label)
                 /\ label = "release" \/ r.pc \in Rounds
      BY <2>1
    <3>2. label \in Labels
      BY DEF Labels
    <3>3. /\ n \in ThreadStates /\ n.pc = label /\ n.cmd = r.cmd
          /\ n.job = r.job /\ n.got = r.got
          /\ n = [r EXCEPT !.pc = label]
          /\ th' = [th EXCEPT !["charger"] = [r EXCEPT !.pc = label]]
      BY <1>1, <3>1, <3>2, GoneTo
    <3>4. Placed("charger", n)
      BY <1>2, <1>4, <3>1, <3>3
      DEF Placed, Transactions, Rounds, CommandsOf
    <3> QED
      BY <1>4, <3>3, <3>4
  <2>2. CASE Voltage
    <3> DEFINE q == [r EXCEPT !.cmd = "term", !.pc = "select",
                              !.job = TermVoltage]
    <3>1. th' = [th EXCEPT !["charger"] = q]
      BY <1>1, <1>2, <2>2 DEF Voltage, ReadTermVoltage
    <3>2. /\ q \in ThreadStates /\ q.pc = "select" /\ q.cmd = "term"
          /\ q.got = r.got /\ q.job = TermVoltage
      BY <1>2, ProgramsTyped
      DEF ThreadStates, Labels, Transactions, CommandsOf
    <3> HIDE DEF q
    <3>3. n = q
      BY <1>1, <1>2, <3>1
    <3>4. Placed("charger", q)
      BY <3>2, ProgramsTyped DEF Placed, Rounds, CommandsOf
    <3> QED
      BY <3>1, <3>2, <3>3, <3>4
  <2>3. CASE \E low \in BOOLEAN : TermTested(low)
    <3> DEFINE q == [Thread EXCEPT !.pc = "test", !.cmd = "round"]
    <3>1. th' = [th EXCEPT !["charger"] = q]
      BY <2>3 DEF TermTested
    <3>2. /\ q \in ThreadStates /\ q.pc = "test" /\ q.cmd = "round"
          /\ q.got = "none"
      BY ThreadTyped DEF ThreadStates, Labels, Rounds, CommandsOf
    <3> HIDE DEF q
    <3>3. n = q
      BY <1>1, <1>2, <3>1
    <3>4. Placed("charger", q)
      BY <3>2 DEF Placed, Transactions, Rounds, CommandsOf
    <3>5. q.pc \in Rounds
      BY <3>2 DEF Rounds
    <3> QED
      BY <3>1, <3>2, <3>3, <3>4, <3>5
  <2>4. CASE TermDone
    <3>1. chg.low \in BOOLEAN
      BY DEF TypesInv
    <3> QED
      BY <2>1, <2>3, <2>4, <3>1 DEF TermDone
  <2>5. CASE \E state \in {"normal", "wake_up"} : State(state)
    BY <2>1, <2>5 DEF State, At, Rounds
  <2>6. CASE \E label \in {"woken", "state", "voltage", "rates"} :
               Continue(label)
    BY <2>1, <2>6 DEF Continue
  <2>7. CASE Capacity \/ TestLow \/ Cut
    BY <2>1, <2>7 DEF Capacity, TestLow, Cut, At, Rounds
  <2> QED
    BY <2>2, <2>4, <2>5, <2>6, <2>7 DEF ChargerMoves
<1> HIDE DEF n
<1>6. /\ th' \in [Threads -> ThreadStates] /\ th'["main"] = th["main"]
      /\ \A v \in Threads : Placed(v, th'[v])
  BY <1>1, <1>5, OneMoves
<1> QED
  BY <1>3, <1>4, <1>5, <1>6 DEF n

(* The main thread outside of its transactions, and the commands that do   *)
(* not acquire the bus.                                                    *)
LEMMA MainMoved ==
  ASSUME TypesInv,
         \/ VersionDone
         \/ CmdGg("limits")
         \/ \E paused \in BOOLEAN : CmdChg(paused)
  PROVE  LET r == th["main"]
             n == th'["main"]
         IN /\ th' \in [Threads -> ThreadStates]
            /\ \A v \in Threads : Placed(v, th'[v])
            /\ th'["charger"] = th["charger"]
            /\ n.got \in {r.got, "none"}
            /\ \/ /\ VersionDone /\ r.pc = "done" /\ r.cmd = "version"
                  /\ \/ n.pc = "release" /\ n.cmd = "version"
                     \/ /\ n.pc = "select" /\ n.cmd = "update"
                        /\ n.job = Update
                  /\ UNCHANGED strayed
               \/ /\ CmdGg("limits") /\ r.pc = "prompt" /\ n.pc = "select"
                  /\ n.cmd = "gg"
                  /\ strayed' = (strayed \/ Inside("charger"))
               \/ /\ r.pc = "prompt" /\ n.pc = "release"
                  /\ n.cmd = "chg" /\ UNCHANGED strayed
            /\ chg' \in [paused : BOOLEAN, woken : BOOLEAN, low : BOOLEAN]
            /\ chg'.low = chg.low
            /\ UNCHANGED <<gauge, cache, bus, board, drained>>
<1> DEFINE r == th["main"]
           n == th'["main"]
<1>1. /\ "charger" \in Threads /\ "main" \in Threads /\ "main" # "charger"
      /\ \A v \in Threads : v = "charger" \/ v = "main"
  BY DEF Threads
<1>2. r \in ThreadStates /\ Placed("main", r)
      /\ th \in [Threads -> ThreadStates]
      /\ chg \in [paused : BOOLEAN, woken : BOOLEAN, low : BOOLEAN]
  BY <1>1 DEF TypesInv
<1>3. ASSUME NEW q \in ThreadStates, Placed("main", q),
             th' = [th EXCEPT !["main"] = q]
      PROVE  /\ th' \in [Threads -> ThreadStates]
             /\ th'["charger"] = th["charger"] /\ n = q
             /\ \A v \in Threads : Placed(v, th'[v])
  BY <1>1, <1>3, OneMoves
<1>4. CASE VersionDone
  <2>1. /\ r.pc = "done" /\ r.cmd = "version"
        /\ UNCHANGED <<gauge, cache, bus, board, drained, chg, strayed>>
    BY <1>4 DEF VersionDone, At
  <2>2. CASE Goto("main", "release")
    <3>1. "release" \in Labels
      BY DEF Labels
    <3>2. /\ n \in ThreadStates /\ n.pc = "release" /\ n.cmd = r.cmd
          /\ n.got = r.got /\ n = [r EXCEPT !.pc = "release"]
          /\ th' = [th EXCEPT !["main"] = [r EXCEPT !.pc = "release"]]
      BY <1>1, <2>2, <3>1, GoneTo
    <3>3. Placed("main", n)
      BY <2>1, <3>2 DEF Placed, Transactions, Rounds, CommandsOf
    <3> HIDE DEF n
    <3>4. /\ th' \in [Threads -> ThreadStates]
          /\ th'["charger"] = th["charger"]
          /\ \A v \in Threads : Placed(v, th'[v])
      BY <1>3, <3>2, <3>3
    <3> QED
      BY <1>2, <1>4, <2>1, <3>2, <3>4 DEF n
  <2>3. CASE th' = [th EXCEPT !["main"].cmd = "update",
                              !["main"].got = "none",
                              !["main"].job = Update,
                              !["main"].pc = "select"]
    <3> DEFINE q == [r EXCEPT !.cmd = "update", !.got = "none",
                              !.job = Update, !.pc = "select"]
    <3>1. th' = [th EXCEPT !["main"] = q]
      BY <1>1, <1>2, <2>3
    <3>2. /\ q \in ThreadStates /\ q.pc = "select" /\ q.cmd = "update"
          /\ q.got = "none" /\ q.job = Update
      BY <1>2, ProgramsTyped
      DEF ThreadStates, Labels, Transactions, CommandsOf
    <3> HIDE DEF q
    <3>3. Placed("main", q)
      BY <3>2, ProgramsTyped DEF Placed, Rounds, CommandsOf
    <3>4. /\ th' \in [Threads -> ThreadStates]
          /\ th'["charger"] = th["charger"] /\ n = q
          /\ \A v \in Threads : Placed(v, th'[v])
      BY <1>3, <3>1, <3>2, <3>3
    <3> QED
      BY <1>2, <1>4, <2>1, <3>2, <3>4
  <2> QED
    BY <1>4, <2>2, <2>3 DEF VersionDone
<1>5. CASE CmdGg("limits")
  <2> DEFINE q == [r EXCEPT !.cmd = "gg", !.pc = "select",
                            !.job = <<Set("limits")>>]
  <2>1. /\ r.pc = "prompt" /\ th' = [th EXCEPT !["main"] = q]
        /\ strayed' = (strayed \/ Inside("charger"))
        /\ UNCHANGED <<gauge, cache, bus, board, drained, chg>>
    BY <1>1, <1>2, <1>5 DEF CmdGg, At
  <2>2. /\ q \in ThreadStates /\ q.pc = "select" /\ q.cmd = "gg"
        /\ q.got = r.got /\ q.job = <<Set("limits")>>
        /\ q.job # <<>>
    <3>1. <<Set("limits")>> \in Seq(Access) /\ <<Set("limits")>> # <<>>
      BY ProgramsTyped DEF Parts
    <3> QED
      BY <1>2, <3>1 DEF ThreadStates, Labels, Transactions, CommandsOf
  <2> HIDE DEF q
  <2>3. Placed("main", q)
    BY <2>2 DEF Placed, Rounds, CommandsOf, Transactions
  <2>4. /\ th' \in [Threads -> ThreadStates]
        /\ th'["charger"] = th["charger"] /\ n = q
        /\ \A v \in Threads : Placed(v, th'[v])
    BY <1>3, <2>1, <2>2, <2>3
  <2> QED
    BY <1>2, <1>5, <2>1, <2>2, <2>4
<1>6. CASE \E paused \in BOOLEAN : CmdChg(paused)
  <2> DEFINE q == [r EXCEPT !.cmd = "chg", !.pc = "release"]
  <2>1. /\ r.pc = "prompt" /\ th' = [th EXCEPT !["main"] = q]
        /\ chg' \in [paused : BOOLEAN, woken : BOOLEAN, low : BOOLEAN]
        /\ chg'.low = chg.low
        /\ UNCHANGED <<gauge, cache, bus, board, drained, strayed>>
    BY <1>1, <1>2, <1>6 DEF CmdChg, At
  <2>2. /\ q \in ThreadStates /\ q.pc = "release" /\ q.cmd = "chg"
        /\ q.got = r.got
    BY <1>2 DEF ThreadStates, Labels, CommandsOf
  <2> HIDE DEF q
  <2>3. Placed("main", q)
    BY <2>2 DEF Placed, Rounds, CommandsOf, Transactions
  <2>4. /\ th' \in [Threads -> ThreadStates]
        /\ th'["charger"] = th["charger"] /\ n = q
        /\ \A v \in Threads : Placed(v, th'[v])
    BY <1>3, <2>1, <2>2, <2>3
  <2> QED
    BY <2>1, <2>2, <2>4
<1> QED
  BY <1>4, <1>5, <1>6

-----------------------------------------------------------------------------
(* The acquisitions of the program.                                        *)
Acquires(t, cmd) ==
  /\ Acquire(t, cmd)
  /\ UNCHANGED <<gauge, cache, chg, board>>

(* Who acquires the bus, and from which points.                            *)
LEMMA WhoAcquires ==
  ASSUME TypesInv, GgInit \/ CmdStats \/ ChgStart \/ Wake
  PROVE  \E t \in Threads : \E cmd \in CommandsOf(t) :
           /\ cmd \in {"version", "stats", "broadcast", "round"}
           /\ Acquires(t, cmd)
           /\ th[t].pc \in {"start", "asleep", "prompt"}
<1>1. /\ "charger" \in Threads /\ "main" \in Threads
      /\ {"broadcast", "round"} \subseteq CommandsOf("charger")
      /\ {"version", "stats"} \subseteq CommandsOf("main")
  BY DEF Threads, CommandsOf
<1>2. CASE GgInit
  BY <1>1, <1>2 DEF GgInit, Acquires, At
<1>3. CASE CmdStats
  BY <1>1, <1>3 DEF CmdStats, Acquires, At
<1>4. CASE ChgStart
  BY <1>1, <1>4 DEF ChgStart, Acquires, At
<1>5. CASE Wake
  BY <1>1, <1>5 DEF Wake, Acquires, At
<1> QED
  BY <1>2, <1>3, <1>4, <1>5

(* Every step of a thread, by kind.                                        *)
ThreadStep ==
  \/ GgInit \/ CmdStats \/ ChgStart \/ Wake
  \/ \E t \in Threads : Release(t) \/ Transacts(t)
  \/ ChargerMoves
  \/ VersionDone \/ CmdGg("limits")
  \/ \E paused \in BOOLEAN : CmdChg(paused)

(* There is no other step of the threads, the board and the reset.         *)
LEMMA StepsByKind ==
  Next => ThreadStep \/ Reset
            \/ \E x \in {"feeding", "empty"} : BoardChanges(x)
BY DEF Next, ChargerStep, MainStep, Command, Transact, ThreadStep, Transacts,
       ChargerMoves, Threads

(* The start of the microcontroller.                                       *)
LEMMA StartTyped ==
  /\ [t \in Threads |-> Thread] \in [Threads -> ThreadStates]
  /\ Nothing \in CacheStates
  /\ Statics \in [paused : BOOLEAN, woken : BOOLEAN, low : BOOLEAN]
BY ThreadTyped DEF Nothing, CacheStates, Statics

(* TypesInv holds at first.                                                *)
LEMMA TypesStart == Init => TypesInv
<1> SUFFICES ASSUME Init PROVE TypesInv
  OBVIOUS
<1>1. /\ th \in [Threads -> ThreadStates]
      /\ \A t \in Threads : th[t] = Thread
  BY StartTyped DEF Init
<1>2. \A t \in Threads : Placed(t, th[t])
  BY <1>1, ThreadTyped
<1>3. \A t \in Threads : ~At(t, "reselect") /\ ~At(t, "write")
  BY <1>1, ThreadTyped DEF At
<1>4. gauge \in GaugeStates
  BY DEF Init, GaugeStates, Contents
<1> QED
  BY <1>1, <1>2, <1>3, <1>4, StartTyped DEF Init, TypesInv

(* Every step keeps TypesInv.                                              *)
LEMMA TypesKept == TypesInv /\ [Next]_vars => TypesInv'
<1> SUFFICES ASSUME TypesInv, [Next]_vars PROVE TypesInv'
  OBVIOUS
<1>0. /\ gauge \in GaugeStates /\ cache \in CacheStates
      /\ chg \in [paused : BOOLEAN, woken : BOOLEAN, low : BOOLEAN]
      /\ board \in [feeding : BOOLEAN, empty : BOOLEAN]
      /\ bus \in BOOLEAN /\ drained \in BOOLEAN /\ strayed \in BOOLEAN
      /\ th \in [Threads -> ThreadStates]
      /\ \A t \in Threads : th[t].pc \in {"reselect", "write"} =>
                              cache.val # "none"
  BY DEF TypesInv, At
<1>1. ASSUME gauge' \in GaugeStates, cache' \in CacheStates, bus' \in BOOLEAN,
             th' \in [Threads -> ThreadStates],
             \A t \in Threads : Placed(t, th'[t]),
             \A t \in Threads : th'[t].pc \in {"reselect", "write"} =>
                                  cache'.val # "none",
             chg' \in [paused : BOOLEAN, woken : BOOLEAN, low : BOOLEAN],
             board' \in [feeding : BOOLEAN, empty : BOOLEAN],
             drained' \in BOOLEAN, strayed' \in BOOLEAN
      PROVE  TypesInv'
  BY <1>1 DEF TypesInv, At
<1>2. CASE GgInit \/ CmdStats \/ ChgStart \/ Wake
  <2>0. PICK t \in Threads : \E cmd \in CommandsOf(t) :
          /\ cmd \in {"version", "stats", "broadcast", "round"}
          /\ Acquires(t, cmd)
    BY <1>2, WhoAcquires
  <2>1. PICK cmd \in CommandsOf(t) :
          /\ cmd \in {"version", "stats", "broadcast", "round"}
          /\ Acquires(t, cmd)
    BY <2>0
  <2>2. /\ th' \in [Threads -> ThreadStates]
        /\ \A u \in Threads : Placed(u, th'[u])
        /\ \A u \in Threads \ {t} : th'[u] = th[u]
        /\ bus' \in BOOLEAN
        /\ th'[t].pc \in {"woken", "select", "waiting"}
    BY <1>0, <2>1, AcquireFacts DEF Acquires
  <2>3. UNCHANGED <<gauge, cache, chg, board>>
    BY <2>1 DEF Acquires
  <2>4. drained' \in BOOLEAN /\ strayed' \in BOOLEAN
    <3>1. board.empty \in BOOLEAN
      BY <1>0
    <3> QED
      BY <1>0, <2>1, <3>1 DEF Acquires, Acquire
  <2>5. \A u \in Threads : th'[u].pc \in {"reselect", "write"} =>
                             cache'.val # "none"
    BY <1>0, <2>2, <2>3
  <2> QED
    BY <1>0, <1>1, <2>2, <2>3, <2>4, <2>5
<1>3. ASSUME NEW t \in Threads, Release(t) PROVE TypesInv'
  <2> DEFINE u == Other(t)
  <2>1. /\ th' \in [Threads -> ThreadStates]
        /\ \A v \in Threads : Placed(v, th'[v])
        /\ th'[t].pc \in {"start", "asleep", "prompt"}
        /\ \/ bus' = TRUE /\ th'[u] = th[u]
           \/ bus' = bus /\ th'[u].pc \in {"woken", "select"}
    BY <1>3, ReleaseFacts
  <2>2. u \in Threads /\ \A v \in Threads : v = t \/ v = u
    BY OtherIs DEF Threads
  <2>3. /\ gauge' \in GaugeStates /\ cache' \in CacheStates
        /\ th[u].pc \in Transactions => UNCHANGED cache
    <3>1. Forget(t)
      BY <1>3 DEF Release
    <3> QED
      BY <1>0, <3>1, StartTyped DEF Forget, GaugeStates
  <2>4. \A v \in Threads : th'[v].pc \in {"reselect", "write"} =>
                             cache'.val # "none"
    BY <1>0, <2>1, <2>2, <2>3 DEF Transactions
  <2>5. /\ UNCHANGED <<chg, board>>
        /\ drained' \in BOOLEAN /\ strayed' \in BOOLEAN
    BY <1>0, <1>3 DEF Release
  <2> QED
    BY <1>0, <1>1, <2>1, <2>3, <2>4, <2>5
<1>4. ASSUME NEW t \in Threads, Transacts(t) PROVE TypesInv'
  BY <1>0, <1>1, <1>4, TransactMoves, TransactEffects
<1>5. CASE ChargerMoves
  <2>1. /\ th' \in [Threads -> ThreadStates]
        /\ \A v \in Threads : Placed(v, th'[v])
        /\ th'["main"] = th["main"]
        /\ th'["charger"].pc \in Rounds \union {"release", "select"}
        /\ UNCHANGED <<gauge, cache, bus, strayed>>
    BY <1>5, ChargerMoved
  <2>2. UNCHANGED drained
    BY <1>5
    DEF ChargerMoves, Continue, Capacity, State, Voltage, TermDone, TestLow,
        Cut
  <2>3. chg' \in [paused : BOOLEAN, woken : BOOLEAN, low : BOOLEAN]
    <3>1. board.empty \in BOOLEAN /\ chg.low \in BOOLEAN
      BY <1>0
    <3>2. \/ UNCHANGED chg
          \/ chg' = [chg EXCEPT !.woken = TRUE]
          \/ \E low \in BOOLEAN : chg' = [chg EXCEPT !.low = low]
      BY <1>5, <3>1
      DEF ChargerMoves, Continue, Capacity, State, Voltage, TermDone,
          TermTested, TestLow, Cut
    <3> QED
      BY <1>0, <3>2
  <2>4. board' \in [feeding : BOOLEAN, empty : BOOLEAN]
    <3>1. UNCHANGED board \/ board' = [board EXCEPT !.feeding = FALSE]
      BY <1>5
      DEF ChargerMoves, Continue, Capacity, State, Voltage, TermDone,
          TestLow, Cut
    <3> QED
      BY <1>0, <3>1
  <2>5. \A v \in Threads : th'[v].pc \in {"reselect", "write"} =>
                             cache'.val # "none"
    BY <1>0, <2>1 DEF Threads, Rounds
  <2> QED
    BY <1>0, <1>1, <2>1, <2>2, <2>3, <2>4, <2>5
<1>6. CASE \/ VersionDone \/ CmdGg("limits")
           \/ \E paused \in BOOLEAN : CmdChg(paused)
  <2>1. /\ th' \in [Threads -> ThreadStates]
        /\ \A v \in Threads : Placed(v, th'[v])
        /\ th'["charger"] = th["charger"]
        /\ th'["main"].pc \in {"release", "select"}
        /\ strayed' \in {strayed, strayed \/ Inside("charger")}
        /\ chg' \in [paused : BOOLEAN, woken : BOOLEAN, low : BOOLEAN]
        /\ UNCHANGED <<gauge, cache, bus, board, drained>>
    BY <1>6, MainMoved
  <2>2. \A v \in Threads : th'[v].pc \in {"reselect", "write"} =>
                             cache'.val # "none"
    BY <1>0, <2>1 DEF Threads
  <2>3. strayed' \in BOOLEAN
    BY <1>0, <2>1 DEF Inside
  <2> QED
    BY <1>0, <1>1, <2>1, <2>2, <2>3
<1>7. CASE \E x \in {"feeding", "empty"} : BoardChanges(x)
  <2>1. PICK x \in {"feeding", "empty"} : BoardChanges(x)
    BY <1>7
  <2>2. board' \in [feeding : BOOLEAN, empty : BOOLEAN]
    BY <1>0, <2>1 DEF BoardChanges
  <2>3. drained' \in BOOLEAN /\ UNCHANGED <<gauge, cache, bus, th, chg, strayed>>
    BY <1>0, <2>1, <2>2 DEF BoardChanges
  <2> QED
    BY <1>0, <1>1, <2>2, <2>3 DEF TypesInv
<1>8. CASE Reset
  <2>1. /\ th' = [t \in Threads |-> Thread] /\ cache' = Nothing
        /\ bus' = TRUE /\ chg' = Statics /\ drained' = FALSE
        /\ gauge' = [gauge EXCEPT !.selected = "none"]
        /\ UNCHANGED <<board, strayed>>
    BY <1>8 DEF Reset
  <2>2. gauge' \in GaugeStates
    BY <1>0, <2>1 DEF GaugeStates
  <2>3. \A t \in Threads : th'[t].pc = "start" /\ Placed(t, th'[t])
    BY <2>1, ThreadTyped
  <2> QED
    BY <1>0, <1>1, <2>1, <2>2, <2>3, StartTyped
<1>9. CASE UNCHANGED vars
  BY <1>9 DEF vars, TypesInv, At
<1> QED
  BY <1>2, <1>3, <1>4, <1>5, <1>6, <1>7, <1>8, <1>9, StepsByKind
  DEF ThreadStep

-----------------------------------------------------------------------------
(* While no command has strayed, one thread at most is in a transaction.   *)
LEMMA Alone ==
  ASSUME TypesInv, Sound, NEW t \in Threads, th[t].pc \in Transactions
  PROVE  th[Other(t)].pc \notin Transactions
<1>1. \A v \in Threads : Placed(v, th[v])
  BY DEF TypesInv
<1>2. \A v \in Threads : th[v].pc \in Transactions /\ th[v].cmd # "gg" =>
                           Inside(v)
  BY <1>1 DEF Placed, Inside, Transactions
<1>3. th["charger"].cmd # "gg"
  BY <1>1 DEF Placed, CommandsOf, Threads
<1> QED
  BY <1>2, <1>3, OtherIs DEF Sound, Exclusive, Threads

(* A transaction disturbs nothing if what it writes is what the page holds *)
(* already, or the new content of an update, and its thread goes on from   *)
(* what it has just selected or read.                                      *)
LEMMA TransactSound ==
  ASSUME TypesInv, Sound, NEW t \in Threads, Transacts(t), th'[t].got # "lost",
         Bound(t)',
         \A p \in Parts : \/ gauge'.flash[p] = gauge.flash[p]
                          \/ /\ gauge'.flash[p] = "new" /\ p = Part(t)
                             /\ th[t].cmd = "update" /\ At(t, "write"),
         th'[t].pc \in Transactions =>
           \/ th'[t].job = th[t].job
           \/ /\ th'[t].job = Tail(th[t].job)
              /\ \/ Head(th[t].job).op = "get"
                 \/ th[t].cmd = "update" => gauge'.flash[Part(t)] = "new"
  PROVE  Sound'
<1> DEFINE u == Other(t)
           job == th[t].job
<1>1. /\ th' \in [Threads -> ThreadStates]
      /\ \A v \in Threads : Placed(v, th'[v])
      /\ th[t].pc \in Transactions
      /\ th'[t].pc \in Transactions \union {"prompt", "done", "release"}
      /\ th'[t].cmd = IF th'[t].pc = "prompt" THEN "none" ELSE th[t].cmd
      /\ th'[t].pc = "prompt" => th[t].cmd = "gg"
      /\ UNCHANGED <<bus, strayed>>
  BY TransactMoves, TransactEffects
<1>2. /\ u \in Threads /\ u # t /\ \A v \in Threads : v = t \/ v = u
      /\ th'[u] = th[u] /\ th[u].pc \notin Transactions
  BY <1>1, OtherIs, TransactMoves, Alone DEF Threads
<1>3. /\ Placed(t, th[t]) /\ job \in Seq(Access) /\ job # <<>>
      /\ th[t].cmd = "update" => t = "main"
  <2>1. Placed(t, th[t])
    BY DEF TypesInv
  <2>2. th[t].cmd = "update" => t = "main"
    BY <2>1 DEF Placed, CommandsOf, Threads
  <2> QED
    BY <1>1, <2>1, <2>2 DEF TypesInv, ThreadStates, Placed
<1>4. Exclusive'
  <2>1. \A v \in Threads : Inside(v)' <=> Inside(v)
    BY <1>1, <1>2, <1>3 DEF Inside, Placed, Transactions
  <2>2. \A v \in Threads : At(v, "waiting")' <=> At(v, "waiting")
    BY <1>1, <1>2 DEF At, Transactions
  <2>3. th'["main"].cmd = "gg" => th["main"].cmd = "gg"
    BY <1>1, <1>2 DEF Threads
  <2> QED
    BY <1>1, <2>1, <2>2, <2>3 DEF Sound, Exclusive, Threads
<1>5. \A v \in Threads : Bound(v)' /\ th'[v].got # "lost"
  <2>1. Bound(u)'
    BY <1>2 DEF Bound, At, Transactions
  <2> QED
    BY <1>2, <2>1 DEF Sound
<1>6. \A p \in Parts : gauge'.flash[p] # "lost"
  BY DEF Sound
<1>7. ASSUME th[t].cmd = "update"
      PROVE  /\ \A p \in Parts : \/ gauge.flash[p] = "new"
                                 \/ \E i \in 1 .. Len(job) : job[i] = Set(p)
             /\ \A i \in 1 .. Len(job) : job[i] = Set("version") =>
                                           i = Len(job)
  BY <1>1, <1>3, <1>7 DEF Sound, Progress
<1>8. /\ Head(job) = job[1] /\ Len(job) \in Nat /\ Len(job) >= 1
      /\ Tail(job) \in Seq(Access) /\ Len(Tail(job)) = Len(job) - 1
      /\ \A i \in 1 .. Len(Tail(job)) : Tail(job)[i] = job[i + 1]
      /\ job[1] \in Access /\ Part(t) = job[1].of
  <2> DEFINE j == job
  <2>1. j \in Seq(Access) /\ j # <<>>
    BY <1>3
  <2> HIDE DEF j
  <2>2. /\ Head(j) = j[1] /\ Len(j) \in Nat /\ Len(j) >= 1
        /\ Tail(j) \in Seq(Access) /\ Len(Tail(j)) = Len(j) - 1
        /\ \A i \in 1 .. Len(Tail(j)) : Tail(j)[i] = j[i + 1]
        /\ j[1] \in Access
    BY <2>1, HeadTailProperties, EmptySeq
  <2> QED
    BY <2>2 DEF j, Part
<1> HIDE DEF job
<1>9. Progress'
  <2> SUFFICES ASSUME th'["main"].cmd = "update",
                      th'["main"].pc \in Transactions
               PROVE  LET next == th'["main"].job IN
                      /\ \A p \in Parts :
                           \/ gauge'.flash[p] = "new"
                           \/ \E i \in 1 .. Len(next) : next[i] = Set(p)
                      /\ \A i \in 1 .. Len(next) :
                           next[i] = Set("version") => i = Len(next)
    BY DEF Progress
  <2>1. t = "main" /\ th[t].cmd = "update"
    BY <1>1, <1>2 DEF Threads
  <2>2. CASE th'[t].job = job
    <3>1. \A p \in Parts : gauge.flash[p] = "new" => gauge'.flash[p] = "new"
      OBVIOUS
    <3> QED
      BY <1>7, <2>1, <2>2, <3>1
  <2>3. CASE /\ th'[t].job = Tail(job)
             /\ \/ Head(job).op = "get"
                \/ gauge'.flash[Part(t)] = "new"
    <3> DEFINE next == Tail(job)
    <3>1. \A p \in Parts : \/ gauge'.flash[p] = "new"
                           \/ \E i \in 1 .. Len(next) : next[i] = Set(p)
      <4> SUFFICES ASSUME NEW p \in Parts, gauge'.flash[p] # "new"
                   PROVE  \E i \in 1 .. Len(next) : next[i] = Set(p)
        OBVIOUS
      <4>1. PICK i \in 1 .. Len(job) : job[i] = Set(p)
        BY <1>7, <2>1
      <4>2. i # 1
        <5>1. Set(p).op = "set" /\ Set(p).of = p
          BY DEF Set
        <5> QED
          BY <1>8, <2>3, <4>1, <5>1
      <4>3. i - 1 \in 1 .. Len(next) /\ (i - 1) + 1 = i
        BY <1>8, <4>2
      <4>4. next[i - 1] = job[i]
        BY <1>8, <4>3
      <4> QED
        BY <4>1, <4>3, <4>4
    <3>2. ASSUME NEW i \in 1 .. Len(next), next[i] = Set("version")
          PROVE  i = Len(next)
      <4>1. i + 1 \in 1 .. Len(job) /\ job[i + 1] = Set("version")
        BY <1>8, <3>2
      <4>2. i + 1 = Len(job)
        BY <1>7, <2>1, <4>1
      <4>3. Len(next) = Len(job) - 1 /\ Len(job) \in Nat /\ i \in Int
        BY <1>8
      <4> HIDE DEF next
      <4> QED
        BY <4>2, <4>3
    <3> QED
      BY <2>1, <2>3, <3>1, <3>2
  <2> QED
    BY <2>1, <2>2, <2>3 DEF job
<1>10. ASSUME gauge'.flash["version"] = "new"
       PROVE  \A p \in Parts : gauge'.flash[p] = "new"
  <2>0. "version" \in Parts
    BY DEF Parts
  <2>1. CASE gauge.flash["version"] = "new"
    BY <2>1 DEF Sound
  <2>2. CASE gauge.flash["version"] # "new"
    <3>1. /\ Part(t) = "version" /\ th[t].cmd = "update" /\ At(t, "write")
          /\ gauge'.flash[Part(t)] = "new"
      BY <1>10, <2>0, <2>2
    <3>2. Head(job).op = "set"
      BY <3>1 DEF Sound, Bound, job
    <3>3. job[1] = Set("version")
      BY <1>8, <3>1, <3>2 DEF Access, Set
    <3>4. Len(job) = 1
      <4>1. 1 \in 1 .. Len(job)
        BY <1>8
      <4> QED
        BY <1>7, <3>1, <3>3, <4>1
    <3> SUFFICES ASSUME NEW p \in Parts, gauge.flash[p] # "new"
                 PROVE  p = Part(t)
      BY <3>1
    <3>5. PICK i \in 1 .. Len(job) : job[i] = Set(p)
      BY <1>7, <3>1
    <3>6. Set(p) = Set("version")
      BY <3>3, <3>4, <3>5
    <3> QED
      BY <3>1, <3>6 DEF Set
  <2> QED
    BY <2>1, <2>2
<1> QED
  BY <1>4, <1>5, <1>6, <1>9, <1>10 DEF Sound

(* What the page that is written becomes.                                  *)
LEMMA WriteIsHome ==
  ASSUME TypesInv, Sound, NEW t \in Threads, WriteEffect(t)
  PROVE  /\ \A p \in Parts :
              \/ gauge'.flash[p] = gauge.flash[p]
              \/ /\ gauge'.flash[p] = "new" /\ p = Part(t)
                 /\ th[t].cmd = "update" /\ At(t, "write")
         /\ th[t].cmd = "update" => gauge'.flash[Part(t)] = "new"
<1>1. /\ At(t, "write") /\ gauge.selected = Part(t) /\ cache.of = Part(t)
      /\ cache.val = IF th[t].cmd = "update" THEN "new"
                                             ELSE gauge.flash[Part(t)]
  BY DEF WriteEffect, Sound, Bound
<1>2. gauge \in GaugeStates /\ Part(t) \in Parts
  BY <1>1, SeenTyped DEF TypesInv, At, Transactions
<1>3. gauge' = [gauge EXCEPT !.flash[Part(t)] = cache.val]
  BY <1>1 DEF WriteEffect
<1>4. /\ gauge'.flash[Part(t)] = cache.val
      /\ \A p \in Parts \ {Part(t)} : gauge'.flash[p] = gauge.flash[p]
  BY <1>2, <1>3 DEF GaugeStates
<1> QED
  BY <1>1, <1>4

(* A selection, for reading or for writing.                                *)
LEMMA SelectSound ==
  ASSUME TypesInv, Sound, NEW t \in Threads, Select(t)
  PROVE  Sound'
<1>1. /\ th[t].pc \in {"select", "reselect"} /\ Cleared(t)
      /\ gauge' = [gauge EXCEPT !.selected = Part(t)]
  BY DEF Select, SelectEffect
<1>2. Part(t) \in Parts /\ gauge \in GaugeStates
  BY <1>1, SeenTyped DEF TypesInv, Transactions
<1>3. gauge'.selected = Part(t) /\ gauge'.flash = gauge.flash
  BY <1>1, <1>2 DEF GaugeStates
<1>4. /\ th'[t].pc = IF At(t, "select") THEN "read" ELSE "write"
      /\ th'[t].cmd = th[t].cmd /\ th'[t].job = th[t].job
      /\ th'[t].got = th[t].got
  <2> DEFINE label == IF At(t, "select") THEN "read" ELSE "write"
  <2>1. label \in Labels /\ Goto(t, label)
    BY DEF Select, Labels, Transactions
  <2> HIDE DEF label
  <2>2. /\ th'[t].pc = label /\ th'[t].cmd = th[t].cmd
        /\ th'[t].job = th[t].job /\ th'[t].got = th[t].got
    BY <2>1, GoneTo
  <2> QED
    BY <2>2 DEF label
<1>5. Bound(t)'
  <2>1. CASE At(t, "select")
    BY <1>3, <1>4, <2>1 DEF Bound, At, Part
  <2>2. CASE At(t, "reselect")
    <3>1. cache' = cache
      BY <1>1, <2>2 DEF Cleared, At
    <3>2. Bound(t)
      BY DEF Sound
    <3> QED
      BY <1>3, <1>4, <2>2, <3>1, <3>2 DEF Bound, At, Part
  <2> QED
    BY <1>1, <2>1, <2>2 DEF At
<1>6. th'[t].got # "lost"
  BY <1>4 DEF Sound
<1>7. Transacts(t)
  BY DEF Transacts
<1> QED
  BY <1>3, <1>4, <1>5, <1>6, <1>7, TransactSound

(* The pages are read from the subclass that they belong to.               *)
LEMMA ReadSound ==
  ASSUME TypesInv, Sound, NEW t \in Threads, Read(t)
  PROVE  Sound'
<1>1. At(t, "read") /\ th[t].pc \in Transactions /\ UNCHANGED gauge
  BY DEF Read, At, Transactions
<1>2. /\ Part(t) \in Parts /\ Head(th[t].job) \in Access
      /\ Seen(t) \in Contents
  BY <1>1, SeenTyped
<1>3. Seen(t) = gauge.flash[Part(t)] /\ Seen(t) # "lost"
  BY <1>1, <1>2 DEF Sound, Bound, Seen
<1>4. Transacts(t)
  BY DEF Transacts
<1>5. CASE Head(th[t].job).op = "get"
  <2>1. NextAccess(t, Seen(t))
    BY <1>5 DEF Read
  <2>2. /\ th'[t].got \in {Seen(t), th[t].got, "none"}
        /\ \/ th'[t].pc \in {"prompt", "done", "release"}
           \/ th'[t].pc = "select" /\ th'[t].job = Tail(th[t].job)
    BY <1>1, <1>2, <2>1, NextAccessTyped
  <2>3. th'[t].got # "lost"
    BY <1>3, <2>2 DEF Sound
  <2>4. Bound(t)'
    BY <2>2 DEF Bound, At
  <2>5. th'[t].pc \in Transactions => th'[t].job = Tail(th[t].job)
    BY <2>2 DEF Transactions
  <2> QED
    BY <1>1, <1>4, <1>5, <2>3, <2>4, <2>5, TransactSound
<1>6. CASE Head(th[t].job).op # "get"
  <2>1. /\ Goto(t, "reselect")
        /\ cache' = [of |-> Part(t),
                     val |-> IF th[t].cmd = "update" /\ Seen(t) # "lost"
                             THEN "new" ELSE Seen(t)]
    BY <1>6 DEF Read
  <2>2. "reselect" \in Labels
    BY DEF Labels, Transactions
  <2>3. /\ th'[t].pc = "reselect" /\ th'[t].cmd = th[t].cmd
        /\ th'[t].job = th[t].job /\ th'[t].got = th[t].got
    BY <2>1, <2>2, GoneTo
  <2>4. Head(th[t].job).op = "set"
    BY <1>2, <1>6 DEF Access
  <2>5. /\ cache'.of = Part(t)
        /\ cache'.val = IF th[t].cmd = "update" THEN "new"
                                                ELSE gauge.flash[Part(t)]
    BY <1>3, <2>1
  <2>6. Part(t)' = Part(t)
    BY <2>3 DEF Part
  <2>7. Bound(t)'
    BY <1>1, <2>3, <2>4, <2>5, <2>6 DEF Bound, At
  <2>8. th'[t].got # "lost"
    BY <2>3 DEF Sound
  <2> QED
    BY <1>1, <1>4, <2>3, <2>7, <2>8, TransactSound
<1> QED
  BY <1>5, <1>6

(* A page is written where it belongs.                                     *)
LEMMA WriteSound ==
  ASSUME TypesInv, Sound, NEW t \in Threads, Write(t)
  PROVE  Sound'
<1>1. /\ WriteEffect(t) /\ NextAccess(t, "none") /\ At(t, "write")
      /\ th[t].pc \in Transactions
  BY DEF Write, WriteEffect, At, Transactions
<1>2. /\ th'[t].got \in {th[t].got, "none"}
      /\ \/ th'[t].pc \in {"prompt", "done", "release"}
         \/ th'[t].pc = "select" /\ th'[t].job = Tail(th[t].job)
  BY <1>1, NextAccessTyped
<1>3. th'[t].got # "lost" /\ Bound(t)'
  BY <1>2 DEF Sound, Bound, At
<1>4. th'[t].pc \in Transactions => th'[t].job = Tail(th[t].job)
  BY <1>2 DEF Transactions
<1>5. Transacts(t)
  BY DEF Transacts
<1> QED
  BY <1>1, <1>3, <1>4, <1>5, WriteIsHome, TransactSound

(* A transaction that fails ends the program, whether the gauge has seen   *)
(* it or not.                                                              *)
LEMMA FailsSound ==
  ASSUME TypesInv, Sound, NEW t \in Threads,
         FailsWithEffect(t) \/ FailsWithoutEffect(t)
  PROVE  Sound'
<1>1. Fails(t) /\ th[t].pc \in Transactions
  BY DEF FailsWithEffect, FailsWithoutEffect, Fails
<1>2. /\ th'[t].got \in {th[t].got, "none"}
      /\ th'[t].pc \in {"prompt", "done", "release"}
  <2>1. th'[t] = Ended(th[t], "none", FALSE)
    BY <1>1 DEF Fails, TypesInv
  <2> QED
    BY <1>1, <2>1, EndedTyped
<1>3. /\ th'[t].got # "lost" /\ Bound(t)'
      /\ th'[t].pc \notin Transactions
  BY <1>2 DEF Sound, Bound, At, Transactions
<1>4. Transacts(t)
  BY DEF Transacts
<1>5. \A p \in Parts : \/ gauge'.flash[p] = gauge.flash[p]
                       \/ /\ gauge'.flash[p] = "new" /\ p = Part(t)
                          /\ th[t].cmd = "update" /\ At(t, "write")
  <2>1. CASE WriteEffect(t)
    BY <2>1, WriteIsHome
  <2>2. CASE SelectEffect(t)
    <3>1. gauge'.flash = gauge.flash
      BY <2>2 DEF SelectEffect, TypesInv, GaugeStates
    <3> QED
      BY <3>1
  <2>3. CASE FailsWithoutEffect(t)
    BY <2>3 DEF FailsWithoutEffect
  <2> QED
    BY <2>1, <2>2, <2>3 DEF FailsWithEffect
<1> QED
  BY <1>3, <1>4, <1>5, TransactSound

(* A step that leaves the flash, and the threads in the midst of an access *)
(* with what they selected and read, alone.                                *)
LEMMA RestSound ==
  ASSUME Sound, Exclusive', gauge'.flash = gauge.flash,
         \A t \in Threads : th'[t].got # "lost",
         \A t \in Threads :
           th'[t].pc \in {"read", "reselect", "write"} =>
             /\ th'[t] = th[t]
             /\ gauge'.selected = gauge.selected /\ cache' = cache,
         th'["main"].cmd = "update" =>
           th'["main"] = th["main"] \/ th'["main"].job = Update
           \/ th'["main"].pc \notin Transactions
  PROVE  Sound'
<1>1. ASSUME NEW t \in Threads
      PROVE  Bound(t)'
  <2>1. CASE th'[t].pc \in {"read", "reselect", "write"}
    <3>1. Bound(t)
      BY DEF Sound
    <3> QED
      BY <2>1, <3>1 DEF Bound, At, Part
  <2>2. CASE th'[t].pc \notin {"read", "reselect", "write"}
    BY <2>2 DEF Bound, At
  <2> QED
    BY <2>1, <2>2
<1>2. Progress'
  <2>1. CASE th'["main"] = th["main"]
    BY <2>1 DEF Sound, Progress
  <2>2. CASE th'["main"].job = Update
    <3>1. \A p \in Parts : \E i \in 1 .. 7 : Update[i] = Set(p)
      BY UpdateIs DEF Parts
    <3>2. \A i \in 1 .. 7 : Update[i] = Set("version") => i = 7
      <4>1. \A i \in 1 .. 7 : i = 1 \/ i = 2 \/ i = 3 \/ i = 4 \/ i = 5
                              \/ i = 6 \/ i = 7
        OBVIOUS
      <4>2. \A p, q \in Parts : Get(q) # Set(p)
        BY DEF Get, Set
      <4>3. Set("cells") # Set("version") /\ Set("limits") # Set("version")
            /\ Set("capacity") # Set("version")
        BY DEF Set
      <4>4. /\ Get("cells") # Set("version")
            /\ Get("capacity") # Set("version")
        BY <4>2 DEF Parts
      <4> QED
        BY <4>1, <4>3, <4>4, UpdateIs
    <3> QED
      BY <2>2, <3>1, <3>2, UpdateIs DEF Progress
  <2>3. CASE th'["main"].pc \notin Transactions
    BY <2>3 DEF Progress
  <2>4. CASE th'["main"].cmd # "update"
    BY <2>4 DEF Progress
  <2> QED
    BY <2>1, <2>2, <2>3, <2>4
<1> QED
  BY <1>1, <1>2 DEF Sound

-----------------------------------------------------------------------------
(* A command that has strayed is remembered.                               *)
LEMMA StrayedStays ==
  ASSUME TypesInv, [Next]_vars, strayed
  PROVE  strayed'
<1>1. CASE GgInit \/ CmdStats \/ ChgStart \/ Wake
  BY <1>1 DEF GgInit, CmdStats, ChgStart, Wake, Acquire
<1>2. ASSUME NEW t \in Threads, Release(t) PROVE strayed'
  BY <1>2 DEF Release
<1>3. ASSUME NEW t \in Threads, Transacts(t) PROVE strayed'
  BY <1>3, TransactEffects
<1>4. CASE ChargerMoves
  BY <1>4, ChargerMoved
<1>5. CASE \/ VersionDone \/ CmdGg("limits")
           \/ \E paused \in BOOLEAN : CmdChg(paused)
  BY <1>5 DEF VersionDone, CmdGg, CmdChg
<1>6. CASE Reset \/ \E x \in {"feeding", "empty"} : BoardChanges(x)
  BY <1>6 DEF Reset, BoardChanges
<1>7. CASE UNCHANGED vars
  BY <1>7 DEF vars
<1> QED
  BY <1>1, <1>2, <1>3, <1>4, <1>5, <1>6, <1>7, StepsByKind DEF ThreadStep

(* An acquisition: the bus is free only if no thread has it.               *)
LEMMA AcquireSound ==
  ASSUME TypesInv, Sound, ~strayed',
         GgInit \/ CmdStats \/ ChgStart \/ Wake
  PROVE  Sound'
<1>1. PICK t \in Threads : \E cmd \in CommandsOf(t) :
         /\ cmd \in {"version", "stats", "broadcast", "round"}
         /\ Acquires(t, cmd)
         /\ th[t].pc \in {"start", "asleep", "prompt"}
  BY WhoAcquires
<1>2. PICK cmd \in CommandsOf(t) :
         /\ cmd \in {"version", "stats", "broadcast", "round"}
         /\ Acquires(t, cmd)
  BY <1>1
<1>3. Acquire(t, cmd) /\ UNCHANGED <<gauge, cache>>
  BY <1>2 DEF Acquires
<1>4. /\ \A u \in Threads \ {t} : th'[u] = th[u]
      /\ th'[t].cmd = cmd /\ th'[t].got = th[t].got
      /\ \/ /\ bus /\ bus' = FALSE
            /\ th'[t].pc = IF cmd = "round" THEN "woken" ELSE "select"
         \/ ~bus /\ bus' = bus /\ th'[t].pc = "waiting"
  BY <1>2, <1>3, AcquireFacts
<1>5. th'["main"].cmd = "gg" => t = "charger" /\ th["main"].cmd = "gg"
  BY <1>2, <1>4 DEF Threads
<1>6. ~(t = "charger" /\ th["main"].cmd = "gg")
  BY <1>3 DEF Acquire
<1>7. Exclusive'
  <2>1. bus' = FALSE
    BY <1>4 DEF TypesInv
  <2>2. ASSUME Inside("charger")', Inside("main")' PROVE FALSE
    <3>1. PICK u \in Threads : u # t
      BY DEF Threads
    <3>2. Inside(t)' /\ Inside(u)'
      BY <2>2 DEF Threads
    <3>3. Inside(u)
      BY <1>4, <3>1, <3>2 DEF Inside
    <3>4. ~bus
      BY <3>3 DEF Sound, Exclusive
    <3> QED
      BY <1>4, <3>2, <3>4 DEF Inside
  <2> QED
    BY <1>5, <1>6, <2>1, <2>2 DEF Exclusive
<1>8. \A u \in Threads : th'[u].got # "lost"
  BY <1>4 DEF Sound
<1>9. \A u \in Threads : th'[u].pc \in {"read", "reselect", "write"} =>
                           /\ th'[u] = th[u]
                           /\ gauge'.selected = gauge.selected
                           /\ cache' = cache
  BY <1>3, <1>4
<1>10. th'["main"].cmd = "update" => th'["main"] = th["main"]
  BY <1>2, <1>4 DEF Threads
<1> QED
  BY <1>3, <1>7, <1>8, <1>9, <1>10, RestSound

(* A release by the thread that has the bus, or by a command that has not  *)
(* acquired it while nobody has it.                                        *)
LEMMA ReleaseSound ==
  ASSUME TypesInv, Sound, ~strayed', NEW t \in Threads, Release(t)
  PROVE  Sound'
<1> DEFINE u == Other(t)
<1>1. u \in Threads /\ u # t /\ \A v \in Threads : v = t \/ v = u
  BY OtherIs DEF Threads
<1>2. /\ th[t].pc = "release"
      /\ th'[t].pc \in {"start", "asleep", "prompt"}
      /\ th'[t].cmd = "none" /\ th'[t].got = "none"
      /\ th'[u].cmd = th[u].cmd /\ th'[u].got = th[u].got
      /\ \/ /\ th[u].pc # "waiting" /\ bus' = TRUE /\ th'[u] = th[u]
         \/ /\ th[u].pc = "waiting" /\ bus' = bus
            /\ th'[u].pc = IF th[u].cmd = "round" THEN "woken" ELSE "select"
  BY ReleaseFacts
<1>3. Placed(t, th[t]) /\ Placed(u, th[u]) /\ bus \in BOOLEAN
  BY <1>1 DEF TypesInv
<1>4. ~Inside(u)
  <2>1. ~(th[t].cmd = "chg" /\ Inside(u))
    BY DEF Release
  <2>2. th[t].cmd # "chg" => Inside(t)
    BY <1>2, <1>3 DEF Inside, Placed, Transactions
  <2> QED
    BY <1>1, <2>1, <2>2 DEF Sound, Exclusive, Threads
<1>5. ~Inside(t)' /\ ~At(t, "waiting")'
  BY <1>2 DEF Inside, At
<1>6. Exclusive'
  <2>1. CASE th[u].pc # "waiting" /\ bus' = TRUE /\ th'[u] = th[u]
    <3>1. ~Inside(u)' /\ ~At(u, "waiting")'
      BY <1>4, <2>1 DEF Inside, At
    <3>2. \A v \in Threads : ~Inside(v)' /\ ~At(v, "waiting")'
      BY <1>1, <1>5, <3>1
    <3> QED
      BY <3>2 DEF Exclusive, Threads
  <2>2. CASE th[u].pc = "waiting" /\ bus' = bus
    <3>1. bus' = FALSE
      BY <1>1, <1>3, <2>2 DEF Sound, Exclusive, At
    <3>2. th[u].cmd # "gg"
      BY <1>3, <2>2 DEF Placed
    <3>3. th'["main"].cmd # "gg"
      BY <1>1, <1>2, <3>2 DEF Threads
    <3>4. ~(Inside("charger")' /\ Inside("main")')
      BY <1>5 DEF Threads
    <3> QED
      BY <3>1, <3>3, <3>4 DEF Exclusive
  <2> QED
    BY <1>2, <2>1, <2>2
<1>7. /\ gauge'.flash = gauge.flash
      /\ th[u].pc \in Transactions => UNCHANGED <<gauge, cache>>
  <2>1. Forget(t)
    BY DEF Release
  <2> QED
    BY <2>1 DEF Forget, TypesInv, GaugeStates
<1>8. \A v \in Threads : th'[v].got # "lost"
  BY <1>1, <1>2 DEF Sound
<1>9. \A v \in Threads : th'[v].pc \in {"read", "reselect", "write"} =>
                           /\ th'[v] = th[v]
                           /\ gauge'.selected = gauge.selected
                           /\ cache' = cache
  <2>1. th'[t].pc \notin {"read", "reselect", "write"}
    BY <1>2
  <2>2. th'[u].pc \in {"read", "reselect", "write"} =>
          th'[u] = th[u] /\ th[u].pc \in Transactions
    BY <1>2 DEF Transactions
  <2> QED
    BY <1>1, <1>7, <2>1, <2>2
<1>10. th'["main"].cmd = "update" => th'["main"] = th["main"]
  BY <1>1, <1>2, <1>3 DEF Threads, Placed
<1> HIDE DEF u
<1> QED
  BY <1>6, <1>7, <1>8, <1>9, <1>10, RestSound

(* Every step keeps SafeInv.                                               *)
LEMMA SafeKept == TypesInv /\ SafeInv /\ [Next]_vars => SafeInv'
<1> SUFFICES ASSUME TypesInv, SafeInv, [Next]_vars, ~strayed'
             PROVE  Sound'
  BY DEF SafeInv
<1>0. /\ Sound /\ Exclusive
      /\ \A t \in Threads : th[t].got # "lost"
      /\ "charger" \in Threads /\ "main" \in Threads
      /\ \A t \in Threads : t = "charger" \/ t = "main"
  BY StrayedStays DEF SafeInv, Sound, Threads
<1>1. CASE GgInit \/ CmdStats \/ ChgStart \/ Wake
  BY <1>0, <1>1, AcquireSound
<1>2. ASSUME NEW t \in Threads, Release(t) PROVE Sound'
  BY <1>0, <1>2, ReleaseSound
<1>3. ASSUME NEW t \in Threads, Transacts(t) PROVE Sound'
  BY <1>0, <1>3, SelectSound, ReadSound, WriteSound, FailsSound
  DEF Transacts
<1>4. CASE ChargerMoves
  <2>1. LET r == th["charger"]
            n == th'["charger"]
        IN /\ th'["main"] = th["main"]
           /\ r.pc \in Rounds \union {"done"}
           /\ n.pc \in Rounds \union {"release", "select"}
           /\ r.cmd \in {"round", "term"} /\ n.cmd \in {"round", "term"}
           /\ n.got \in {r.got, "none"}
           /\ UNCHANGED <<gauge, cache, bus>>
    BY <1>4, ChargerMoved
  <2>2. Inside("charger")
    BY <2>1 DEF Inside, Rounds
  <2>3. Inside("main")' <=> Inside("main")
    BY <2>1 DEF Inside
  <2>4. At("main", "waiting")' <=> At("main", "waiting")
    BY <2>1 DEF At
  <2>5. ~At("charger", "waiting")'
    BY <2>1 DEF At, Rounds
  <2>6. Exclusive'
    BY <1>0, <2>1, <2>2, <2>3, <2>4, <2>5 DEF Exclusive
  <2>7. \A t \in Threads : th'[t].got # "lost"
    BY <1>0, <2>1
  <2>8. th'["charger"].pc \notin {"read", "reselect", "write"}
    BY <2>1 DEF Rounds
  <2>9. \A t \in Threads : th'[t].pc \in {"read", "reselect", "write"} =>
                             /\ th'[t] = th[t]
                             /\ gauge'.selected = gauge.selected
                             /\ cache' = cache
    BY <1>0, <2>1, <2>8
  <2> QED
    BY <1>0, <2>1, <2>6, <2>7, <2>9, RestSound
<1>5. CASE \/ VersionDone \/ CmdGg("limits")
           \/ \E paused \in BOOLEAN : CmdChg(paused)
  <2>1. LET r == th["main"]
            n == th'["main"]
        IN /\ th'["charger"] = th["charger"]
           /\ n.got \in {r.got, "none"}
           /\ \/ /\ r.pc = "done" /\ r.cmd = "version"
                 /\ \/ n.pc = "release" /\ n.cmd = "version"
                    \/ /\ n.pc = "select" /\ n.cmd = "update"
                       /\ n.job = Update
              \/ /\ n.pc = "select" /\ n.cmd = "gg"
                 /\ strayed' = (strayed \/ Inside("charger"))
              \/ n.pc = "release" /\ n.cmd = "chg"
           /\ UNCHANGED <<gauge, cache, bus>>
    BY <1>5, MainMoved
  <2>2. Inside("charger")' <=> Inside("charger")
    BY <2>1 DEF Inside
  <2>3. At("charger", "waiting")' <=> At("charger", "waiting")
    BY <2>1 DEF At
  <2>4. ~At("main", "waiting")'
    BY <2>1 DEF At
  <2>5. Inside("main")' => Inside("main")
    BY <2>1 DEF Inside
  <2>6. th'["main"].cmd = "gg" => ~Inside("charger")
    BY <2>1
  <2>7. Exclusive'
    BY <1>0, <2>1, <2>2, <2>3, <2>4, <2>5, <2>6 DEF Exclusive
  <2>8. \A t \in Threads : th'[t].got # "lost"
    BY <1>0, <2>1
  <2>9. \A t \in Threads : th'[t].pc \in {"read", "reselect", "write"} =>
                             /\ th'[t] = th[t]
                             /\ gauge'.selected = gauge.selected
                             /\ cache' = cache
    BY <1>0, <2>1
  <2>10. th'["main"].cmd = "update" => th'["main"].job = Update
    BY <2>1
  <2> QED
    BY <1>0, <2>1, <2>7, <2>8, <2>9, <2>10, RestSound
<1>6. CASE \E x \in {"feeding", "empty"} : BoardChanges(x)
  <2>1. UNCHANGED <<gauge, cache, bus, th>>
    BY <1>6 DEF BoardChanges
  <2>2. Exclusive'
    BY <1>0, <2>1 DEF Exclusive, Inside, At
  <2> QED
    BY <1>0, <2>1, <2>2, RestSound
<1>7. CASE Reset
  <2>1. /\ th' = [t \in Threads |-> Thread] /\ bus' = TRUE
        /\ gauge' = [gauge EXCEPT !.selected = "none"]
    BY <1>7 DEF Reset
  <2>2. \A t \in Threads : /\ th'[t].pc = "start" /\ th'[t].cmd = "none"
                           /\ th'[t].got = "none"
    BY <2>1, ThreadTyped
  <2>3. Exclusive'
    <3>1. \A t \in Threads : ~Inside(t)' /\ ~At(t, "waiting")'
      BY <2>2 DEF Inside, At
    <3> QED
      BY <1>0, <3>1 DEF Exclusive
  <2>4. gauge'.flash = gauge.flash
    BY <2>1 DEF TypesInv, GaugeStates
  <2> QED
    BY <1>0, <2>2, <2>3, <2>4, RestSound
<1>8. CASE UNCHANGED vars
  <2>1. UNCHANGED <<gauge, cache, bus, th>>
    BY <1>8 DEF vars
  <2>2. Exclusive'
    BY <1>0, <2>1 DEF Exclusive, Inside, At
  <2> QED
    BY <1>0, <2>1, <2>2, RestSound
<1> QED
  BY <1>1, <1>2, <1>3, <1>4, <1>5, <1>6, <1>7, <1>8, StepsByKind
  DEF ThreadStep

-----------------------------------------------------------------------------
(* Every step keeps DrainInv: the voltage is read, tested and acted upon   *)
(* in one round, and the limit it is compared with is one.                 *)
LEMMA DrainKept ==
  TypesInv /\ SafeInv /\ DrainInv /\ [Next]_vars => DrainInv'
<1> SUFFICES ASSUME TypesInv, SafeInv, DrainInv, [Next]_vars
             PROVE  DrainInv'
  OBVIOUS
<1> DEFINE r == th["charger"]
           n == th'["charger"]
<1>0. /\ r \in ThreadStates /\ Placed("charger", r)
      /\ chg \in [paused : BOOLEAN, woken : BOOLEAN, low : BOOLEAN]
      /\ board \in [feeding : BOOLEAN, empty : BOOLEAN]
      /\ drained \in BOOLEAN /\ strayed \in BOOLEAN
      /\ "charger" \in Threads /\ "main" \in Threads
      /\ th \in [Threads -> ThreadStates]
  BY DEF TypesInv, Threads
<1>1. strayed => strayed'
  BY StrayedStays
<1>2. /\ r.cmd \in {"round", "term"} /\ board.empty => drained
      /\ ~strayed /\ (r.pc = "test" \/ r.cmd = "term") /\ chg.low => drained
      /\ ~strayed /\ r.pc = "cut" => drained
  BY DEF DrainInv
<1>3. ASSUME n.cmd \in {"round", "term"} /\ board'.empty => drained',
             ~strayed' /\ (n.pc = "test" \/ n.cmd = "term") /\ chg'.low
               => drained',
             ~strayed' /\ n.pc = "cut" => drained'
      PROVE  DrainInv'
  BY <1>3 DEF DrainInv
<1>4. ASSUME \/ n = r
             \/ n.cmd \in {r.cmd, "none"} /\ n.pc \notin {"test", "cut"},
             board'.empty = board.empty, drained' = drained,
             chg'.low = chg.low
      PROVE  DrainInv'
  BY <1>1, <1>2, <1>3, <1>4
<1>5. CASE GgInit \/ CmdStats \/ ChgStart \/ Wake
  <2>1. CASE Wake
    <3>1. Acquire("charger", "round") /\ UNCHANGED board
      BY <2>1 DEF Wake
    <3>2. drained' = board.empty
      BY <3>1 DEF Acquire
    <3>3. n.pc \in {"woken", "waiting"} /\ n.cmd = "round"
      BY <3>1, <1>0, AcquireFacts DEF CommandsOf
    <3> QED
      BY <1>3, <3>1, <3>2, <3>3
  <2>2. CASE ChgStart
    <3>1. Acquire("charger", "broadcast")
      BY <2>2 DEF ChgStart
    <3>2. n.pc \in {"select", "waiting"} /\ n.cmd = "broadcast"
      BY <3>1, <1>0, AcquireFacts DEF CommandsOf
    <3> QED
      BY <1>3, <3>2
  <2>3. CASE GgInit \/ CmdStats
    <3>1. PICK cmd \in {"version", "stats"} : Acquire("main", cmd)
      BY <2>3 DEF GgInit, CmdStats
    <3>2. cmd \in CommandsOf("main")
      BY DEF CommandsOf
    <3>3. n = r
      <4>1. \A u \in Threads \ {"main"} : th'[u] = th[u]
        BY <3>1, <3>2, <1>0, AcquireFacts
      <4> QED
        BY <1>0, <4>1
    <3>4. drained' = drained /\ UNCHANGED <<chg, board>>
      BY <2>3, <3>1 DEF GgInit, CmdStats, Acquire
    <3> QED
      BY <1>4, <3>3, <3>4
  <2> QED
    BY <1>5, <2>1, <2>2, <2>3
<1>6. ASSUME NEW t \in Threads, Release(t) PROVE DrainInv'
  <2>1. UNCHANGED <<chg, board>> /\ drained' = (drained /\ t # "charger")
    BY <1>6 DEF Release
  <2>2. CASE t = "charger"
    <3>1. n.cmd = "none" /\ n.pc \in {"start", "asleep", "prompt"}
      BY <1>6, <2>2, ReleaseFacts
    <3> QED
      BY <1>3, <3>1
  <2>3. CASE t = "main"
    <3>1. \/ n = r
          \/ n.cmd = r.cmd /\ n.pc \in {"woken", "select"}
      <4>1. LET u == Other(t) IN
            \/ th'[u] = th[u]
            \/ /\ th'[u].cmd = th[u].cmd
               /\ th'[u].pc \in {"woken", "select"}
        BY <1>6, ReleaseFacts
      <4> QED
        BY <2>3, <4>1, OtherIs
    <3>2. drained' = drained
      BY <1>0, <2>1, <2>3
    <3> QED
      BY <1>4, <2>1, <3>1, <3>2
  <2> QED
    BY <2>2, <2>3 DEF Threads
<1>7. ASSUME NEW t \in Threads, Transacts(t) PROVE DrainInv'
  <2>1. /\ UNCHANGED <<chg, board, drained>>
        /\ \A v \in Threads \ {t} : th'[v] = th[v]
        /\ th'[t].pc \in Transactions \union {"prompt", "done", "release"}
        /\ th'[t].cmd \in {th[t].cmd, "none"}
    <3> HIDE DEF n, r
    <3>1. UNCHANGED <<chg, board, drained>>
      BY <1>7, TransactEffects
    <3> QED
      BY <1>7, <3>1, TransactMoves
  <2>2. \/ n = r
        \/ n.cmd \in {r.cmd, "none"} /\ n.pc \notin {"test", "cut"}
    BY <1>0, <2>1 DEF Transactions
  <2> QED
    BY <1>4, <2>1, <2>2
<1>8. CASE ChargerMoves
  <2>1. UNCHANGED drained /\ strayed' = strayed
    BY <1>8
    DEF ChargerMoves, Continue, Capacity, State, Voltage, TermDone, TestLow,
        Cut
  <2>2. ASSUME NEW label \in Labels, Goto("charger", label)
        PROVE  n.pc = label /\ n.cmd = r.cmd
    BY <1>0, <2>2, GoneTo
  <2>3. {"release", "state", "voltage", "cut", "rates"} \subseteq Labels
    BY DEF Labels, Rounds
  <2>4. CASE \/ \E label \in {"woken", "state", "voltage", "rates"} :
                  Continue(label)
             \/ Capacity
             \/ \E state \in {"normal", "wake_up"} : State(state)
    <3>1. n.cmd = r.cmd /\ n.pc \in {"release", "state", "voltage"}
      BY <2>2, <2>3, <2>4 DEF Continue, Capacity, State
    <3>2. UNCHANGED board /\ chg'.low = chg.low
      BY <1>0, <2>4 DEF Continue, Capacity, State
    <3> QED
      BY <1>4, <2>1, <3>1, <3>2
  <2>5. CASE Voltage
    <3>1. /\ UNCHANGED board /\ chg'.low = board.empty
          /\ r.pc = "voltage"
      BY <1>0, <2>5 DEF Voltage, At
    <3>2. r.cmd = "round"
      BY <1>0, <3>1 DEF Placed, Rounds
    <3>3. n.pc = "select"
      BY <1>0, <2>5 DEF Voltage, ReadTermVoltage, ThreadStates
    <3> QED
      BY <1>2, <1>3, <2>1, <3>1, <3>2, <3>3
  <2>6. CASE TermDone
    <3>1. r.cmd = "term" /\ UNCHANGED board
      BY <2>6 DEF TermDone
    <3>2. CASE Goto("charger", "release") /\ UNCHANGED chg
      BY <1>4, <2>1, <2>2, <2>3, <3>1, <3>2
    <3>3. CASE \E low \in IF r.got = "lost" THEN BOOLEAN ELSE {chg.low} :
                 TermTested(low)
      <4>1. PICK low \in IF r.got = "lost" THEN BOOLEAN ELSE {chg.low} :
                 TermTested(low)
        BY <3>3
      <4>2. n.pc = "test" /\ n.cmd = "round"
        BY <1>0, <4>1, ThreadTyped DEF TermTested, ThreadStates
      <4>3. chg'.low = low
        BY <1>0, <4>1 DEF TermTested
      <4>4. ~strayed => low = chg.low
        BY <1>0, <4>1 DEF SafeInv, Sound
      <4> QED
        BY <1>2, <1>3, <2>1, <3>1, <4>2, <4>3, <4>4
    <3> QED
      BY <2>6, <3>2, <3>3 DEF TermDone
  <2>7. CASE TestLow
    <3>1. /\ r.pc = "test" /\ UNCHANGED board /\ chg'.low = FALSE
          /\ Goto("charger", IF chg.low /\ board.feeding THEN "cut"
                                                         ELSE "rates")
      BY <1>0, <2>7 DEF TestLow, At
    <3>2. /\ n.cmd = r.cmd
          /\ n.pc = IF chg.low /\ board.feeding THEN "cut" ELSE "rates"
      BY <2>2, <2>3, <3>1
    <3> QED
      BY <1>2, <1>3, <2>1, <3>1, <3>2
  <2>8. CASE Cut
    <3>1. board'.empty = board.empty /\ UNCHANGED chg
      BY <1>0, <2>8 DEF Cut
    <3>2. n.cmd = r.cmd /\ n.pc = "rates"
      BY <2>2, <2>3, <2>8 DEF Cut
    <3> QED
      BY <1>4, <2>1, <3>1, <3>2
  <2> QED
    BY <1>8, <2>4, <2>5, <2>6, <2>7, <2>8 DEF ChargerMoves
<1>9. CASE \/ VersionDone \/ CmdGg("limits")
           \/ \E paused \in BOOLEAN : CmdChg(paused)
  <2>1. n = r /\ chg'.low = chg.low /\ UNCHANGED <<board, drained>>
    BY <1>9, MainMoved
  <2> QED
    BY <1>4, <2>1
<1>10. CASE \E x \in {"feeding", "empty"} : BoardChanges(x)
  <2>1. /\ UNCHANGED <<th, chg, strayed>>
        /\ drained' = (drained \/ (r.pc \notin {"start", "asleep"}
                                     /\ board'.empty))
    BY <1>10 DEF BoardChanges
  <2>2. r.cmd \in {"round", "term"} => r.pc \notin {"start", "asleep"}
    BY <1>0 DEF Placed
  <2> QED
    BY <1>2, <1>3, <2>1, <2>2
<1>11. CASE Reset
  <2>1. n = Thread
    BY <1>0, <1>11 DEF Reset
  <2> QED
    BY <1>3, <2>1, ThreadTyped
<1>12. CASE UNCHANGED vars
  BY <1>4, <1>12 DEF vars
<1> QED
  BY <1>5, <1>6, <1>7, <1>8, <1>9, <1>10, <1>11, <1>12, StepsByKind
  DEF ThreadStep

-----------------------------------------------------------------------------
Inv == TypesInv /\ SafeInv /\ DrainInv

(* The three parts are invariant together.                                 *)
LEMMA InvHolds == Spec => []Inv
<1>1. Init => Inv
  <2> SUFFICES ASSUME Init PROVE SafeInv /\ DrainInv
    BY TypesStart DEF Inv
  <2>1. /\ th = [t \in Threads |-> Thread] /\ bus = TRUE
        /\ gauge.flash = [p \in Parts |-> "old"]
    BY DEF Init
  <2>2. \A t \in Threads : /\ th[t].pc = "start" /\ th[t].cmd = "none"
                           /\ th[t].got = "none"
    BY <2>1, ThreadTyped
  <2>3. "charger" \in Threads /\ "main" \in Threads
    BY DEF Threads
  <2>4. Exclusive
    BY <2>2, <2>3 DEF Exclusive, Inside, At
  <2>5. \A t \in Threads : Bound(t) /\ th[t].got # "lost"
    BY <2>2 DEF Bound, At
  <2>6. /\ \A p \in Parts : gauge.flash[p] = "old"
        /\ gauge.flash["version"] = "old"
    BY <2>1 DEF Parts
  <2>7. Progress
    BY <2>2, <2>3 DEF Progress
  <2>8. SafeInv
    BY <2>4, <2>5, <2>6, <2>7 DEF SafeInv, Sound
  <2>9. DrainInv
    BY <2>2, <2>3 DEF DrainInv
  <2> QED
    BY <2>8, <2>9
<1>2. Inv /\ [Next]_vars => Inv'
  BY TypesKept, SafeKept, DrainKept DEF Inv
<1> QED
  BY <1>1, <1>2, PTL DEF Spec

(* GgTypeOK: the types, and that ggInit gives up after MaxTries tries.     *)
THEOREM GaugeTypeCorrect == Spec => []GgTypeOK
<1>1. Inv => GgTypeOK
  <2> SUFFICES ASSUME TypesInv PROVE GgTypeOK
    BY DEF Inv
  <2>1. \A t \in Threads :
          /\ th[t].pc \in Transactions => th[t].job # <<>>
          /\ th[t].got \in Contents \union {"none"}
          /\ th[t].try \in 0 .. MaxTries - 1
    BY DEF TypesInv, Placed, ThreadStates
  <2> QED
    BY <2>1 DEF TypesInv, GgTypeOK, GaugeStates, CacheStates
<1> QED
  BY <1>1, InvHolds, PTL

(* WritesGoHome: the update and the charger thread do not write each       *)
(* other's pages, whatever fails and whenever a reset comes.               *)
THEOREM PagesGoHome == Spec => []WritesGoHome
<1>1. Inv => WritesGoHome
  BY DEF Inv, SafeInv, Sound, WritesGoHome
<1> QED
  BY <1>1, InvHolds, PTL

(* VersionImpliesConfigured: a flash with the new version is configured.   *)
THEOREM VersionIsLast == Spec => []VersionImpliesConfigured
<1>1. Inv => VersionImpliesConfigured
  BY DEF Inv, SafeInv, Sound, VersionImpliesConfigured
<1> QED
  BY <1>1, InvHolds, PTL

(* CutsOnlyWhenLow: powerOff by the charger thread follows an empty pack.  *)
THEOREM CutsForAReason == Spec => CutsOnlyWhenLow
<1>1. Inv => (Cut /\ ~strayed => drained)
  BY DEF Inv, DrainInv, Cut, At
<1> QED
  BY <1>1, InvHolds, PTL DEF CutsOnlyWhenLow

(* BusIsExclusive, which the commands of the shell break, holds until one  *)
(* has strayed: ggInit, the charger thread and stats pair their            *)
(* acquisitions and releases on every path, failed tries included.         *)
THEOREM ExclusiveUntilStray == Spec => [](~strayed => BusIsExclusive)
<1>1. Inv => (~strayed => BusIsExclusive)
  BY DEF Inv, SafeInv, Sound, Exclusive, BusIsExclusive, Threads
<1> QED
  BY <1>1, InvHolds, PTL

(* The flash changes by the writes of the update alone, each of which adds *)
(* one part of the new configuration.  ggSetBroadcast of the charger       *)
(* thread, which reads a subclass and writes it back while the update may  *)
(* be running, gives back what is there by then: it undoes no word of the  *)
(* update, whichever transactions fail.                                    *)
UpdateAdds ==
  \/ gauge'.flash = gauge.flash
  \/ /\ th["main"].cmd = "update" /\ At("main", "write")
     /\ gauge'.flash = [gauge.flash EXCEPT ![Part("main")] = "new"]

\* The steps that do not write.
LeavesFlash == gauge'.flash = gauge.flash

(* A step that is no write to the flash leaves it alone.                   *)
LEMMA OthersLeaveFlash ==
  ASSUME TypesInv, [Next]_vars, \A t \in Threads : ~WriteEffect(t)
  PROVE  LeavesFlash
<1>0. gauge \in GaugeStates
  BY DEF TypesInv
<1>1. CASE GgInit \/ CmdStats \/ ChgStart \/ Wake
  BY <1>1 DEF GgInit, CmdStats, ChgStart, Wake, LeavesFlash
<1>2. ASSUME NEW t \in Threads, Release(t) PROVE LeavesFlash
  BY <1>0, <1>2 DEF Release, Forget, GaugeStates, LeavesFlash
<1>3. ASSUME NEW t \in Threads, Transacts(t) PROVE LeavesFlash
  <2>1. CASE Select(t)
    BY <1>0, <2>1 DEF Select, SelectEffect, GaugeStates, LeavesFlash
  <2>2. CASE Read(t)
    BY <2>2 DEF Read, LeavesFlash
  <2>3. CASE FailsWithEffect(t)
    BY <1>0, <2>3
    DEF FailsWithEffect, SelectEffect, GaugeStates, LeavesFlash
  <2>4. CASE FailsWithoutEffect(t)
    BY <2>4 DEF FailsWithoutEffect, LeavesFlash
  <2> QED
    BY <1>3, <2>1, <2>2, <2>3, <2>4 DEF Transacts, Write
<1>4. CASE ChargerMoves
  BY <1>4, ChargerMoved DEF LeavesFlash
<1>5. CASE \/ VersionDone \/ CmdGg("limits")
           \/ \E paused \in BOOLEAN : CmdChg(paused)
  BY <1>5 DEF VersionDone, CmdGg, CmdChg, LeavesFlash
<1>6. CASE Reset
  BY <1>0, <1>6 DEF Reset, GaugeStates, LeavesFlash
<1>7. ASSUME NEW x \in {"feeding", "empty"}, BoardChanges(x)
      PROVE  LeavesFlash
  BY <1>7 DEF BoardChanges, LeavesFlash
<1>8. CASE UNCHANGED vars
  BY <1>8 DEF vars, LeavesFlash
<1> QED
  BY <1>1, <1>2, <1>3, <1>4, <1>5, <1>6, <1>7, <1>8, StepsByKind
  DEF ThreadStep

(* UpdateAdds: no step of the charger thread undoes one of the update.     *)
THEOREM UpdateIsNotUndone == Spec => [][~strayed' => UpdateAdds]_vars
<1>1. Inv /\ [Next]_vars => (~strayed' => UpdateAdds)
  <2> SUFFICES ASSUME Inv, [Next]_vars, ~strayed' PROVE UpdateAdds
    OBVIOUS
  <2>1. TypesInv /\ Sound
    BY StrayedStays DEF Inv, SafeInv
  <2>2. CASE \A t \in Threads : ~WriteEffect(t)
    BY <2>1, <2>2, OthersLeaveFlash DEF UpdateAdds, LeavesFlash
  <2>3. ASSUME NEW t \in Threads, WriteEffect(t) PROVE UpdateAdds
    <3>1. /\ At(t, "write") /\ gauge.selected = Part(t)
          /\ cache.of = Part(t)
          /\ cache.val = IF th[t].cmd = "update"
                         THEN "new" ELSE gauge.flash[Part(t)]
      BY <2>1, <2>3 DEF WriteEffect, Sound, Bound
    <3>2. /\ gauge \in GaugeStates /\ Part(t) \in Parts
          /\ th[t].cmd = "update" => t = "main"
      BY <2>1, <3>1, SeenTyped
      DEF TypesInv, Placed, CommandsOf, At, Transactions, Threads
    <3>3. gauge' = [gauge EXCEPT !.flash[Part(t)] = cache.val]
      BY <2>3, <3>1 DEF WriteEffect
    <3>4. gauge'.flash = [gauge.flash EXCEPT ![Part(t)] = cache.val]
      BY <3>2, <3>3 DEF GaugeStates
    <3>5. CASE th[t].cmd = "update"
      BY <3>1, <3>2, <3>4, <3>5 DEF UpdateAdds
    <3>6. CASE th[t].cmd # "update"
      <4>1. gauge.flash \in [Parts -> Contents]
        BY <3>2 DEF GaugeStates
      <4>2. gauge'.flash = gauge.flash
        BY <3>1, <3>2, <3>4, <3>6, <4>1
      <4> QED
        BY <4>2 DEF UpdateAdds
    <3> QED
      BY <3>5, <3>6
  <2> QED
    BY <2>2, <2>3
<1> QED
  BY <1>1, InvHolds, PTL DEF Spec
=============================================================================
