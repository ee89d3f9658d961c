SPECIFICATION LiveSpec
CONSTANTS
  timer = timer
  audio = audio
  F60HZ = F60HZ
  AUDIO = AUDIO
  Source = {F60HZ, AUDIO}
  Producer = {timer, audio}
  Raises <- MCRaises
  Unconditional = {audio}
  StartGated = {F60HZ}
  MaxDepth = 2
PROPERTIES
  LatchSpec
