SPECIFICATION Spec
CONSTANTS
  Word = 64
  Sizes <- SmallSizes
  ContentSizes <- Contents
  MapIds = {"m1", "m2"}
  MaxWindows = 2
  Gamepads = TRUE
  MayFail = {"client", "wayland", "libdecor", "bitmap", "display", "registry", "compositor", "seat",
             "base", "frame", "shm_open", "mmap", "munmap", "pool", "buffer", "state", "connection"}
CHECK_DEADLOCK FALSE
INVARIANTS TypeOK DrawsMappedMemory ResizeKeepsOneMapping FrameChainUnbroken
PROPERTIES ShowsWhatIsDrawn ResizeShown CloseEndsLoop
