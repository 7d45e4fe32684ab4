\* Two tokens, so that a slot is reused while another is dispatched, and a
\* queue that is full at once or never.
CONSTANTS
  Tokens = 2
  MapId = {m1, m2}
  MaxCancelCBs = 3
  Limits = {1, 4}
SPECIFICATION FairSpec
INVARIANTS TokenInv
PROPERTIES CallbacksFire
