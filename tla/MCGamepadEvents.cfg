SPECIFICATION Spec
CONSTANTS
  Buttons = {12}
  Axes = {0, 2, 6, 7}
  MaxValue = 2
  Deadzone = 2
  AnalogValues <- SomeValues
  QueueSize = 2
  Listeners = {"button_press", "button_release", "stick_motion", "trigger_motion"}
  Conditions = {"flip", "overflow", "unplug"}
INVARIANTS TypeOK AgreesWhenQuiet ReleasableSides
PROPERTY PressesAlternate
