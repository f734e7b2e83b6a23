CONSTANTS
  alice = alice  bob = bob  r1 = r1  r2 = r2  r3 = r3  k1 = k1  k2 = k2
  Req <- MCReq
  Eoa <- MCEoa
  SenderKey <- MCKeys
  MsTs = {1, 2}
  Nonce = {1, 2, 3}
  Body <- MCBody
  NoBearer = NoBearer
  NoKey = NoKey
  InitCode = {bob}
  OldUser = {bob}
  DirectCall <- MCDirectCreate
  FeatureClaimDisabled = FALSE
  FeatureMintDisabled = FALSE
  FeatureCheckCode = TRUE
  UrlAlarm = FALSE
  MaxCrashes = 0
SYMMETRY Symmetry
SPECIFICATION SafetySpec
INVARIANTS TypeOK SentForOwner DryrunInert  NoNonceGap
  HasCreatedMeansAccount
CHECK_DEADLOCK FALSE
