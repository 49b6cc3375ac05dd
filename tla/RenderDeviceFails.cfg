SPECIFICATION Spec
CONSTANTS
  self = self
  remote = remote
  wnd0 = wnd0
  wnd1 = wnd1
  small = small
  large = large
  None = None
  Streams <- MCStreams
  Renderers <- MCRenderers
  Sizes <- MCSizes
  MaxCommands = 4
  MaxChanges = 1
  LocalWindow = wnd0
  DeviceFails = TRUE
INVARIANT DrawsOnASurface
CHECK_DEADLOCK FALSE
