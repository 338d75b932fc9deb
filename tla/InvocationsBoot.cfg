SPECIFICATION Spec
CONSTANTS
  Files = {"bundle", "trust", "filters"}
  Processes = {"one", "other"}
  Sessions <- MCBoots
  Model <- MCModel
  OldModel <- MCOldModel
  Layers <- MCLayers
  DeviceLists <- MCDeviceLists
  Emulator <- MCEmulator
  Avd = "avd"
  Outputs <- MCOutputs
  PresetLimit = 2
  MaxPolls = 2
  RemoteAnyTime = FALSE
INVARIANT BootedEmulatorIsReported
CHECK_DEADLOCK FALSE
