SPECIFICATION Spec
CONSTANTS
  laptopMic = laptopMic
  usbMic = usbMic
  btMic = btMic
  camMic = camMic
  virtualMic = virtualMic
  laptopSpk = laptopSpk
  usbSpk = usbSpk
  btSpk = btSpk
  virtualSpk = virtualSpk
  Automatic = Automatic
  None = None
  Mics <- MCMics
  Spks <- MCSpks
  Hw <- MCHw
  BuiltIn <- MCBuiltIn
  Setups <- MCHeadsets
  MaxLevelChecks = 1
  MaxRequests = 1
  MaxTests = 0
CHECK_DEADLOCK FALSE
INVARIANT MicMatchesAutoSpk
