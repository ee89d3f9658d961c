\* Every call of the guest, and the automation task.
SPECIFICATION FairSpec
CONSTANTS
  Others <- OneOther
  CpuCalls <- All
  DimAfter = 1
  BlankAfter = 2
  MaxIdle = 2
PROPERTIES
  ActivityEndsSleep
  SleepEndsByRequest
