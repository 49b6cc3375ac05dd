SPECIFICATION Spec
CONSTANTS
  laptopMic = laptopMic
  usbMic = usbMic
  btMic = btMic
  camMic = camMic
  virtualMic = virtualMic
  laptopSpk = laptopSpk
  usbSpk = usbSpk
  btSpk = btSpk
  virtualSpk = virtualSpk
  Automatic = Automatic
  None = None
  Mics <- MCMics
  Spks <- MCSpks
  Hw <- MCHw
  BuiltIn <- MCBuiltIn
  Setups <- MCSetups
  MaxLevelChecks = 1
  MaxRequests = 2
  MaxTests = 2
CHECK_DEADLOCK FALSE
INVARIANTS TypeOK PreferredIsBest PairedMatch LabelTellsTruth StopsMatchTests
PROPERTY Settles
