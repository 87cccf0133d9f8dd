--------------------------- MODULE VirtualTimers ---------------------------
(***************************************************************************)
(* What the kernel's virtual timers promise (src/os/rt/include/chvt.h): a  *)
(* timer that is set to d ticks is called at the d-th tick from now, unless*)
(* it is set again or reset before, and no tick is counted while a timer   *)
(* that is due has not been called.  Timers that are due at the same tick  *)
(* are called in any order.                                                *)
(***************************************************************************)
EXTENDS Integers

CONSTANTS
  Timers,   \* the timers
  Forever   \* TIME_INFINITE, the longest delay

VARIABLE left   \* ticks before each timer is called, or Unarmed

Unarmed == -1

Init == left = [t \in Timers |-> Unarmed]

Set(t, delay) == left' = [left EXCEPT ![t] = delay]

Disarm(t) == left' = [left EXCEPT ![t] = Unarmed]

Fire(t) == left[t] = 0 /\ Disarm(t)

Tick ==
  /\ \A t \in Timers : left[t] # 0
  /\ left' = [t \in Timers |-> IF left[t] = Unarmed THEN Unarmed
                                                   ELSE left[t] - 1]

Next ==
  \/ \E t \in Timers :
       \/ \E delay \in 1 .. Forever : Set(t, delay)
       \/ Disarm(t)
       \/ Fire(t)
  \/ Tick

Spec == Init /\ [][Next]_left

(* Ticks keep coming, and what is due is called.                           *)
FairSpec ==
  /\ Spec
  /\ WF_left(Tick)
  /\ \A t \in Timers : WF_left(Fire(t))

=============================================================================
