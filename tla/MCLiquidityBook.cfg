SPECIFICATION MCSpec
CONSTANTS
  BASIS_POINT_MAX = 3
  MASK_UINT12 = 3
  MASK_UINT14 = 3
  MASK_UINT16 = 15
  MASK_UINT20 = 7
  MASK_UINT24 = 15
  MASK_UINT40 = 7
  MAX_PROTOCOL_SHARE = 1
  FEE_UNIT = 1
  BIN_STEP = 2
  Statics <- MCStatics
  Ids <- MCIds
  NTX = 4
  Blocks <- MCBlocks
  WINDOW = 2
INVARIANTS TypeOK NeverReverts Recomputable QuietQuote DecayForgets PackedIsOwn AnchorAgrees PairingStable
CHECK_DEADLOCK FALSE
