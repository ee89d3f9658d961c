\* The guest turns the display off while it keeps running.
SPECIFICATION Spec
CONSTANTS
  Others <- NoOthers
  CpuCalls <- Service
  DimAfter = 0
  BlankAfter = 0
  MaxIdle = 4
INVARIANTS
  DisplayFollowsIdleState
