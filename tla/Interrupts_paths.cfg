SPECIFICATION FairSpec
CONSTANTS
  timer = timer
  audio = audio
  F60HZ = F60HZ
  AUDIO = AUDIO
  Source = {F60HZ, AUDIO}
  Producer = {timer, audio}
  Raises <- MCRaises
  Unconditional = {audio}
  StartGated = {F60HZ}
  MaxDepth = 3
INVARIANTS
  TypeOK
  NoLostInterrupt
  QuitRunsNoGuest
PROPERTIES
  StopWakes
  QuitExits
  LatchSafe
