---------------------------- MODULE MCEventLoop -----------------------------
(***************************************************************************)
(* EventLoop for TLC: more tasks than one pump takes, a queue that fills   *)
(* up, two descriptors reported in one batch, timers that are due at once  *)
(* and that repeat.                                                        *)
(***************************************************************************)
EXTENDS EventLoop

const_Mask == {1, 2}
const_Delays == {0, 1}
=============================================================================
