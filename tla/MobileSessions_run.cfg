SPECIFICATION FairSpec
CONSTANTS
  a = a
  b = b
  c = c
  phone = phone
  tablet = tablet
  Scenarios <- MCScenarios
  Targets <- MCTargets
  Devices <- MCDevices
  DeviceOf <- MCDeviceOf
  Recorded <- MCRecorded
  BoundTo <- MCBoundTo
  AnyTarget = AnyTarget
  MaxSteps = 2
  MaxCleanups = 1
  Timeout = TRUE
  Nobody = Nobody
INVARIANTS
  SessionIsExclusive
  OneDriverPerTarget
  
PROPERTIES
  AllEnd
