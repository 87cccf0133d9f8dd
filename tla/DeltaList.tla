----------------------------- MODULE DeltaList -----------------------------
(***************************************************************************)
(* src/os/rt/src/chvt.c: the virtual timers are a list in the order of     *)
(* their deadlines, in which a timer holds the ticks that lie between it   *)
(* and its predecessor, so that a tick decrements the first timer only.    *)
(*                                                                         *)
(* The doubly linked list is a sequence here.  The header of the list holds*)
(* the largest delay, and ends the search for the place of a new timer.    *)
(* The search runs inside a locked section; it is a step per element, and  *)
(* nothing else happens while it lasts.  The ticker leaves the locked      *)
(* section for every callback: callbacks and interrupts of a higher        *)
(* priority set and reset timers then.                                     *)
(***************************************************************************)
EXTENDS Integers, SequencesExt

CONSTANTS
  Timers,    \* the timers
  Forever,   \* the largest value of a systime_t
  Header,    \* ch.vtlist
  Nobody     \* no timer is being set

ASSUME ForeverAssumption == Forever \in Nat \ {0}

ASSUME NodesAssumption == Header \notin Timers /\ Nobody \notin Timers

VARIABLES
  list,      \* the timers from vt_next of the header on
  delta,     \* vt_delta of every timer and of the header
  setting,   \* the timer that chVTDoSetI inserts, or Nobody
  rest,      \* its variable delay
  pos,       \* its variable p, a position of the list
  serving,   \* chVTDoTickI is in its loop
  asked,     \* history: the delay that chVTDoSetI was called with
  left       \* history: the ticks before each timer should be called

vars == <<list, delta, setting, rest, pos, serving, asked, left>>

Nodes == Timers \union {Header}

Unarmed == -1

(* Arithmetic of systime_t.                                                *)
Wrap(n) == IF n < 0 THEN n + Forever + 1
           ELSE IF n > Forever THEN n - Forever - 1
           ELSE n

(* The element at a position of the circular list.                         *)
NodeAt(i) == IF i \in DOMAIN list THEN list[i] ELSE Header

InList(t) == \E i \in DOMAIN list : list[i] = t

(* _vt_init.                                                               *)
Init ==
  /\ list = <<>>
  /\ delta = [n \in Nodes |-> IF n = Header THEN Forever ELSE 0]
  /\ setting = Nobody
  /\ rest = 0
  /\ pos = 1
  /\ serving = FALSE
  /\ asked = 0
  /\ left = [t \in Timers |-> Unarmed]

-----------------------------------------------------------------------------
(* chVTDoResetI removes the timer at a position.                           *)

(* Mutant: the successor does not inherit the ticks.                       *)
UnlinkForgets(i) ==
  /\ list' = RemoveAt(list, i)
  /\ left' = [left EXCEPT ![list[i]] = Unarmed]
  /\ UNCHANGED delta

Unlink(i) ==
  /\ list' = RemoveAt(list, i)
  /\ delta' = [n \in Nodes |->
                 IF n = Header THEN Forever
                 ELSE IF n = NodeAt(i + 1) THEN Wrap(delta[n] + delta[list[i]])
                 ELSE delta[n]]
  /\ left' = [left EXCEPT ![list[i]] = Unarmed]

(* chVTResetI of a timer that is armed.                                    *)
Reset(t) ==
  /\ setting = Nobody
  /\ \E i \in DOMAIN list : list[i] = t /\ Unlink(i)
  /\ UNCHANGED <<setting, rest, pos, serving, asked>>

(* chVTSetI up to the search: a timer that is armed is removed first.      *)
Set(t, delay) ==
  /\ setting = Nobody
  /\ setting' = t
  /\ rest' = delay
  /\ pos' = 1
  /\ asked' = delay
  /\ IF InList(t)
     THEN \E i \in DOMAIN list : list[i] = t /\ Unlink(i)
     ELSE UNCHANGED <<list, delta, left>>
  /\ UNCHANGED serving

(* Mutant: the search goes on behind an element that is due as late.       *)
SearchLonger ==
  /\ setting # Nobody
  /\ delta[NodeAt(pos)] <= rest
  /\ rest' = Wrap(rest - delta[NodeAt(pos)])
  /\ pos' = pos + 1
  /\ UNCHANGED <<list, delta, setting, serving, asked, left>>

Search ==
  /\ setting # Nobody
  /\ delta[NodeAt(pos)] < rest
  /\ rest' = Wrap(rest - delta[NodeAt(pos)])
  /\ pos' = pos + 1
  /\ UNCHANGED <<list, delta, setting, serving, asked, left>>

(* Mutant: the successor keeps the ticks that the new timer takes over.    *)
InsertKeepsNext ==
  /\ setting # Nobody
  /\ ~(delta[NodeAt(pos)] < rest)
  /\ list' = InsertAt(list, pos, setting)
  /\ delta' = [delta EXCEPT ![setting] = rest]
  /\ left' = [left EXCEPT ![setting] = asked]
  /\ setting' = Nobody
  /\ rest' = 0
  /\ pos' = 1
  /\ UNCHANGED <<serving, asked>>

(* The timer is inserted before the element where the search has ended.    *)
Insert ==
  /\ setting # Nobody
  /\ ~(delta[NodeAt(pos)] < rest)
  /\ list' = InsertAt(list, pos, setting)
  /\ delta' = [n \in Nodes |->
                 IF n = Header THEN Forever
                 ELSE IF n = setting THEN rest
                 ELSE IF n = NodeAt(pos) THEN Wrap(delta[n] - rest)
                 ELSE delta[n]]
  /\ left' = [left EXCEPT ![setting] = asked]
  /\ setting' = Nobody
  /\ rest' = 0
  /\ pos' = 1
  /\ UNCHANGED <<serving, asked>>

-----------------------------------------------------------------------------
(* chVTDoTickI, in the tick interrupt.  It never interrupts itself.        *)

CountOne(t) == IF t = Unarmed THEN Unarmed ELSE t - 1

Tick ==
  /\ setting = Nobody
  /\ ~serving
  /\ list # <<>>
  /\ delta' = [delta EXCEPT ![list[1]] = Wrap(@ - 1)]
  /\ serving' = TRUE
  /\ left' = [t \in Timers |-> CountOne(left[t])]
  /\ UNCHANGED <<list, setting, rest, pos, asked>>

(* Mutant: one timer is called in a tick.                                  *)
FireOne ==
  /\ setting = Nobody
  /\ serving
  /\ delta[NodeAt(1)] = 0
  /\ list' = Tail(list)
  /\ left' = [left EXCEPT ![list[1]] = Unarmed]
  /\ serving' = FALSE
  /\ UNCHANGED <<delta, setting, rest, pos, asked>>

(* The first timer is removed and its function called.                     *)
Fire ==
  /\ setting = Nobody
  /\ serving
  /\ delta[NodeAt(1)] = 0
  /\ list' = Tail(list)
  /\ left' = [left EXCEPT ![list[1]] = Unarmed]
  /\ UNCHANGED <<delta, setting, rest, pos, serving, asked>>

EndTick ==
  /\ setting = Nobody
  /\ serving
  /\ delta[NodeAt(1)] # 0
  /\ serving' = FALSE
  /\ UNCHANGED <<list, delta, setting, rest, pos, asked, left>>

-----------------------------------------------------------------------------

Next ==
  \/ \E t \in Timers : Reset(t)
  \/ \E t \in Timers, delay \in 1 .. Forever : Set(t, delay)
  \/ Search
  \/ Insert
  \/ Tick
  \/ Fire
  \/ EndTick

Spec == Init /\ [][Next]_vars

(* A locked section ends, the tick interrupt comes again and again, and    *)
(* whoever preempts its loop to set timers does not do so for ever.        *)
Fairness ==
  /\ WF_vars(Search \/ Insert)
  /\ SF_vars(Tick)
  /\ SF_vars(Fire)
  /\ SF_vars(EndTick)

FairSpec == Spec /\ Fairness

-----------------------------------------------------------------------------
(* Types of the variables of chvt.c.                                       *)
TypeOK ==
  /\ list \in Seq(Timers)
  /\ delta \in [Nodes -> 0 .. Forever]
  /\ setting \in Timers \union {Nobody}
  /\ rest \in 0 .. Forever
  /\ pos \in 1 .. Len(list) + 1
  /\ serving \in BOOLEAN
  /\ asked \in 0 .. Forever
  /\ left \in [Timers -> Unarmed .. Forever]

(* The ticks before the element at a position is due, by its predecessors. *)
LeftAt(i) == IF i = 0 THEN 0 ELSE left[list[i]]

(* The differences in the list add up to the times that the timers were    *)
(* set to, whatever is removed from the list or inserted into it and when, *)
(* the middle of a tick included: "Removing the element from the delta     *)
(* list" hands its ticks to the next one, and an insertion takes them back.*)
DeltasAgree ==
  \A i \in DOMAIN list : LeftAt(i) = LeftAt(i - 1) + delta[list[i]]

(* The timers that are armed are those in the list, each once, and between *)
(* two ticks no timer is overdue: otherwise the decrement of the first     *)
(* difference would wrap around and no timer would fire for a long time.   *)
NoneOverdue ==
  /\ \A t \in Timers : left[t] # Unarmed <=> InList(t)
  /\ \A i, j \in DOMAIN list : list[i] = list[j] => i = j
  /\ ~serving => \A t \in Timers : left[t] # 0

Promise == INSTANCE VirtualTimers WITH Timers <- Timers, Forever <- Forever,
                                       left <- left

(* The list keeps the promise of the virtual timers.                       *)
KeepsPromise == Promise!FairSpec

=============================================================================
