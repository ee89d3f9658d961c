\* Touch and USB mouse in turn, and two tasks that put button events or move.
SPECIFICATION Spec
CONSTANTS
  Task <- Tasks
  Touch <- Panel
  Button <- MCButton
  Uses <- MCUses
  Reach = 1
  RingSize = 3
  Clamp = 1
  Elsewhere = Elsewhere
INVARIANTS
  TypeOK
  CursorFollows
  ButtonsFollow
PROPERTIES
  ButtonsInOrder
