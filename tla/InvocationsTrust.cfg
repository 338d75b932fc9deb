SPECIFICATION Spec
CONSTANTS
  Files = {"bundle", "trust", "filters"}
  Processes = {"one", "other"}
  Sessions <- MCRemotes
  Model <- MCModel
  OldModel <- MCOldModel
  Layers <- MCLayers
  DeviceLists <- MCDeviceLists
  Emulator <- MCEmulator
  Avd = "avd"
  Outputs <- MCOutputs
  PresetLimit = 2
  MaxPolls = 2
  RemoteAnyTime = TRUE
INVARIANT TrustedOrAsked
CHECK_DEADLOCK FALSE
