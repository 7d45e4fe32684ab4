------------------------------ MODULE MCTimers ------------------------------
(***************************************************************************)
(* Timers for TLC: the clock's word wraps two ticks after the start.       *)
(***************************************************************************)
EXTENDS Timers

const_Wrap == 16
const_Start == 14
const_MaxClock == 17
const_Delays == {0, 1, 3}
=============================================================================
