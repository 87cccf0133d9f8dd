---------------------------- MODULE PowerOffTime ----------------------------
(***************************************************************************)
(* How long the mainboard stays off: Power with two history variables, and *)
(* the promise of power.c that the cool-off prevents flap.                 *)
(*                                                                         *)
(* The promise does not hold of every power-off.  A power-off of a thread  *)
(* is several steps, and so is what another context may be in the middle   *)
(* of when the pin goes low.  The properties are about the power-offs that *)
(* were undisturbed, and NoFlap shows that this condition is needed.       *)
(***************************************************************************)
EXTENDS Power

VARIABLES
  offFor,       \* ticks since the pin last went low, up to CoolOff
  undisturbed   \* nothing else ran in the middle of the last power-off

offVars == <<vars, offFor, undisturbed>>

OffInit ==
  /\ Init
  /\ offFor = 0
  /\ undisturbed = FALSE

SwitchesOff == pin /\ ~pin'

Moves(c) == pc'[c] # pc[c]

(* The pin goes low while no context but the one that does it is in        *)
(* power.c, and no reboot is pending; the boot only restores a state.      *)
BeginsUndisturbed ==
  /\ \A c \in Ctx : pc[c] = "idle" \/ Moves(c)
  /\ power_on_vt = Unarmed
  /\ Booted

(* Whoever is on its way through the rest of a power-off is who moves.     *)
Undivided == \A c \in Ctx : pc[c] \in OffTail => Moves(c)

(* The cool-off is as good as over here: the flag is about to be cleared,  *)
(* or the test of it is behind and the pin is about to go high.            *)
CoolOffIsOver == {"stop_cool_off", "check_on", "set_on", "on_locked",
                  "call_power_on"}

(* A power-off, which starts the cool-off afresh, comes too late for that. *)
Overtakes ==
  /\ cool_off_vt' = CoolOff
  /\ \E c \in Ctx : pc[c] \in CoolOffIsOver /\ ~Moves(c)

Disturbance ==
  undisturbed' =
    IF SwitchesOff
    THEN BeginsUndisturbed
    ELSE undisturbed /\ Undivided /\ ~Overtakes /\ resets' = resets

OffNext ==
  /\ \/ /\ Run
        /\ offFor' = IF SwitchesOff THEN 0 ELSE offFor
     \/ /\ Tick
        /\ offFor' = IF pin \/ offFor = CoolOff THEN offFor ELSE offFor + 1
  /\ Disturbance

OffSpec == OffInit /\ [][OffNext]_offVars

-----------------------------------------------------------------------------
(* The timer of a reboot runs only while the board is off, if nothing ran  *)
(* in the middle of the power-off: a board that is on is not about to be   *)
(* "powered on" by a reboot it has already left behind, and no power-off   *)
(* that follows is undone by it.                                           *)
PendingRebootIsOff ==
  undisturbed /\ power_on_vt # Unarmed => ~pin

(* After a power-off in the middle of which nothing ran, the board stays   *)
(* off for REBOOT_QUIESCE_MS, and for COOL_OFF_MS unless the end of a      *)
(* reboot powers it on, whoever asks and however the requests interleave.  *)
StaysOff ==
  [][~pin /\ pin' /\ undisturbed' =>
       /\ offFor >= RebootQuiesce
       /\ pc["vt"] # "call_power_on" => offFor >= CoolOff]_offVars

(* The promise of the comment in power.c, without that condition.          *)
NoFlap == [][~pin /\ pin' /\ resets' = resets => offFor >= RebootQuiesce]_offVars

=============================================================================
