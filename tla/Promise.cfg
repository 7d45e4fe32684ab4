\* The pools are small enough to run empty, and the queue is either too small
\* for the continuations or large enough.
CONSTANTS
  Slots = 3
  Conts = 2
  Limits = {1, 2}
  MaxAllSize = 2
SPECIFICATION Spec
CHECK_DEADLOCK FALSE
INVARIANTS NoDangling RefInv ContInv CombinersSound
PROPERTIES SettledOnce
