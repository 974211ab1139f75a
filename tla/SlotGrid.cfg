CONSTANTS
  SLOT_COUNT = 4
  SLOT_NS = 15
  TightNs = 3
  LooseNs = 6
  Enabled <- MCEnabled
  HandlerNs <- MCHandlerNs
  LatencyNs <- MCLatencyNs
  StartLags <- MCStartLags
  MaxBreaks = 2
SPECIFICATION Spec
PROPERTIES
  UnexposedHandlersRun
  CatchesUp
