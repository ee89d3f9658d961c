SPECIFICATION LiveSpec
CONSTANTS
  one = one
  two = two
  black = black
  grey = grey
  TOTAL_TILES = 2
  PerWord = 2
  Size = 2
  Mode = {one}
  SpanBytes <- MCSpanBytes
  StartMode = one
  Palette = {black}
  DefaultPalette <- MCDefaultPalette
  Overlaid = {1}
  Splash = Splash
  Torn = Torn
PROPERTIES
  PanelCatchesUp
  ExitEnds
