SPECIFICATION Spec
CONSTANTS
  self = self
  remote = remote
  wnd0 = wnd0
  wnd1 = wnd1
  small = small
  large = large
  None = None
  Streams <- MCStreams
  Renderers <- MCOneWindow
  Sizes <- MCSizes
  MaxCommands = 6
  MaxChanges = 1
  LocalWindow = wnd0
  DeviceFails = TRUE
INVARIANTS TypeOK DrawnInItsSize FramesStillThere ShowsWhatIsDrawn HangsOnInvoke
 
CHECK_DEADLOCK FALSE
