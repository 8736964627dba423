SPECIFICATION Spec
CONSTANTS
  traces = traces
  logs = logs
  idTraces = idTraces
  idLogs = idLogs
  idDefault = idDefault
  Nobody = Nobody
  Samplers <- MCSamplers
  IDs <- MCIDs
  RegistryIDOf <- DefaultIDs
  ControllerID = idDefault
  InitialP = 250
  MinP = 100
  MaxP = 900
  TargetHigh = 80
  TargetLow = 20
  AdjustmentUp <- Up
  AdjustmentDown <- Down
  AggressiveDrop <- Drop
  EWMAAlpha <- Alpha
  AggressiveDropWindowCount = 3
  Loads = {0, 50, 100}
INVARIANT ControllerFindsSampler
