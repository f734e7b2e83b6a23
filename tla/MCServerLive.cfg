CONSTANTS
  alice = alice  bob = bob  r1 = r1  r2 = r2  r3 = r3  k1 = k1  k2 = k2
  Req = {r1, r2}
  Eoa = {alice}
  SenderKey = {k1}
  MsTs = {1, 2}
  Nonce = {1, 2, 3}
  Body <- MCBodyLive
  NoBearer = NoBearer
  NoKey = NoKey
  InitCode = {}
  OldUser = {}
  DirectCall <- MCDirect
  FeatureClaimDisabled = FALSE
  FeatureMintDisabled = FALSE
  FeatureCheckCode = FALSE
  UrlAlarm = TRUE
  MaxCrashes = 1
SPECIFICATION Spec
INVARIANTS OneSecretPerSignature AnswersHold
PROPERTIES EveryRequestEnds HashesSettle
CHECK_DEADLOCK FALSE
