CONSTANTS
  Base = 256
  Width = 16
  MaxInt32 = 5
  MaxUint8 = 3
  MinimumAmount = 1
  AccPubKey = "key"
  ClaimantHelperAddr = "helper"
  Usdc = "usdc"
  Request <- MCRequest
SPECIFICATION Spec
INVARIANT MsTsBigEndian
