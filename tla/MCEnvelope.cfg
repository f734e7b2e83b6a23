CONSTANTS
  Base = 2
  Width = 3
  MaxInt32 = 5
  MaxUint8 = 3
  MinimumAmount = 1
  AccPubKey = "key"
  ClaimantHelperAddr = "helper"
  Usdc = "usdc"
  Request <- MCRequest
SPECIFICATION Spec
INVARIANTS SignedAsAsked RefusedIfMalformed SignatureBinds MintsDoNotClash
