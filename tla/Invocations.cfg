SPECIFICATION Spec
CONSTANTS
  Files = {"bundle", "trust", "filters"}
  Processes = {"one", "other"}
  Sessions <- MCSessions
  Model <- MCModel
  OldModel <- MCOldModel
  Layers <- MCLayers
  DeviceLists <- MCDeviceLists
  Emulator <- MCEmulator
  Avd = "avd"
  Outputs <- MCOutputs
  PresetLimit = 2
  MaxPolls = 2
  RemoteAnyTime = FALSE
INVARIANTS TypeOK SuccessIsTrue NothingIsTouchedUnasked NothingAcknowledgedIsLost TrustedOrAsked
           OnlyWholeModelsAreUsed SelectionIsExact
CHECK_DEADLOCK FALSE
