SPECIFICATION Spec
CONSTANTS
  Keys = {42, 120, 298}
  ModBit <- Bits
  StickyKeys = {42}
  Buttons = {272, 280, 300}
  Positions <- Places
  Fixed = 2
  Width = 2
  KeyListeners = {"key_press", "key_release", "enter"}
  PointerListeners = {"enter", "move", "button_press", "button_release"}
  StrayCodes = {42}
  StrayButtons = {1}
  MaxWindows = 2
CHECK_DEADLOCK FALSE
INVARIANTS TypeOK KeysAgree ButtonsAgree PixelTold
