CONSTANTS
  Builtin = {"IO"}
  Procs = {"p1", "p2"}
  Commands <- MCCommands
  Root = "P"
  Worlds <- MCWorlds
  Texts <- MCTexts
  CTexts = {"c0", "c1"}
  Manifests <- MCManifests
  PathOrder <- MCPathOrder
  MapOrders <- MCMapOrders
  MaxEdits = 1
  MaxCommands = 3
  MaxCrashes = 1
SPECIFICATION Spec
INVARIANTS  DefsBeforeUse DepsResolved
CHECK_DEADLOCK FALSE
