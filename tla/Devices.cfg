SPECIFICATION Spec
CONSTANTS
  mic = mic
  cam = cam
  cam2 = cam2
  Devices <- MCDevices
  TypeOf <- MCTypeOf
  Selected = cam
  MaxChanges = 3
  NoDevice = NoDevice
INVARIANTS TypeOK RestsHalfRight RestsRight CameraFollows
PROPERTY ComesToRest
CHECK_DEADLOCK FALSE
