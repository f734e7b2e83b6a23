CONSTANTS
  alice = alice  bob = bob  r1 = r1  r2 = r2  r3 = r3  k1 = k1  k2 = k2
  Req <- MCReq
  Eoa <- MCEoa
  SenderKey <- MCKeys
  MsTs = {1, 2}
  Nonce = {1, 2, 3}
  Body <- MCBodyNonces
  NoBearer = NoBearer
  NoKey = NoKey
  InitCode = {}
  OldUser = {}
  DirectCall = {}
  FeatureClaimDisabled = FALSE
  FeatureMintDisabled = FALSE
  FeatureCheckCode = FALSE
  UrlAlarm = FALSE
  MaxCrashes = 0
SPECIFICATION Spec
INVARIANT NoncesIncrease
CHECK_DEADLOCK FALSE
