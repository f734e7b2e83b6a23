CONSTANTS
  usdc = usdc  self = self  eoa = eoa  house = house  market = market
  router = router  k1 = k1  k2 = k2
  Asset <- MCAsset
  Addr <- MCAddr
  Contract <- MCContract
  CodeHash <- MCCodeHash
  Self = self
  EthOwner = eoa
  Clearinghouse = house
  HasAuthority = TRUE
  Nonce <- MCNonce
  Key <- MCKey
  EdKey = k1
  PermitId = {1}
  SignedPermit <- MCPermit
  SignedSolve <- MCSolve
  SignedSolveV2 <- MCSolveV2
  SignedSolveV3 <- MCSolveV3
  SignedTransferOnly <- MCTransfer
  SignedStatement <- MCStatement
  InitBal <- MCBal
  InitApproved = {}
  MaxBatch = 2
  MaxDepth = 7
SPECIFICATION Spec
INVARIANTS TypeOK GuardInv EffectsOnce OneOperationPerNonce AllOrNothing
  AllowancesVetted DebitsAreSigned AllowancesBacked
PROPERTY KeepsPromise
