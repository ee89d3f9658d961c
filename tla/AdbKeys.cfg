\* A ring of three slots holds two events, so it is full early.
SPECIFICATION FairSpec
CONSTANTS
  Key = {shift, a}
  Source <- MCSource
  Task <- MCTask
  TaskOf <- MCTaskOf
  Size = 3
  Nobody = Nobody
INVARIANTS
  TypeOK
  GuestSeesClaims
  NoStrandedKey
PROPERTIES
  EveryKeyDelivered
  KeysInOrder
