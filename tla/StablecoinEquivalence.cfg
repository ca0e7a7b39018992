\* Three currencies and a bond, two requests between the conversions.
SPECIFICATION Spec
CONSTANTS
  USDY = USDY
  USDC = USDC
  EURX = EURX
  Bond = Bond
  Assets = {USDY, USDC, EURX, Bond}
  Currencies = {USDY, USDC, EURX}
  Decimals <- MCDecimals
  Prices <- MCPrices
  CollateralWeights <- MCWeights
  LiquidationThresholds <- MCThresholds
  Starts <- MCStarts
  Amounts = {1, 3, 13}
  MaxRequests = 2
INVARIANTS SseqSumsToZero SseqExplainsOwned ActivateFills
PROPERTY ConversionKeepsSolvent
CHECK_DEADLOCK FALSE
