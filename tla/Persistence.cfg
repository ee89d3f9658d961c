SPECIFICATION Spec
CONSTANTS
  hd = hd
  floppy = floppy
  pram0 = pram0
  pram1 = pram1
  Handle = {hd, floppy}
  Setting = {pram0, pram1}
  Default = pram0
  None = None
  Torn = Torn
  FlushEvery = 3
  IdleFlush = 1
  XpramEvery = 4
  Quantum = 2
  MaxDate = 1
INVARIANTS
  TypeOK
  LossBounded
  SettingSaved
  ShadowOnCard
  CleanStop
