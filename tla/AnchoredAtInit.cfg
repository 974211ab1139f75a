CONSTANTS
  SLOT_COUNT = 3
  SLOT_TIME_US = 5
  MAX_SLOT_JITTER_US = 1
  NS_PER_US = 3
  US_PER_SEC = 7
  Enabled <- MCEnabled
  HandlerNs <- MCHandlerNs
  MaxHandlerNs <- MCMaxHandlerNs
  LatencyNs <- MCLatencyNs
  MaxLatencyNs <- MCMaxLatencyNs
  StartNs <- MCStartNs
  StartTimes <- MCStartTimes
  StartEpochs <- MCStartEpochs
  MaxEpochs = 2
  MaxInterrupts = 0
SPECIFICATION Spec
INVARIANTS
  AnchoredAtInit
