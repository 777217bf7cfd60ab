SPECIFICATION Spec
CONSTANTS
  App = App
  Gamepads = {g1, g2}
  TotalSize = 9
  Alignment = 2
  Sizes = {1, 4}
  EffectSize = 3
SYMMETRY Symmetry
INVARIANT GrantsInside
