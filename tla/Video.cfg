SPECIFICATION Spec
CONSTANTS
  one = one
  two = two
  black = black
  grey = grey
  TOTAL_TILES = 2
  PerWord = 2
  Size = 4
  Mode = {one, two}
  SpanBytes <- MCSpanBytes
  StartMode = one
  Palette = {black, grey}
  DefaultPalette <- MCDefaultPalette
  Overlaid = {1}
  Splash = Splash
  Torn = Torn
INVARIANTS
  TypeOK
  DamagePending
  HandoffWhole
  BufferLive
