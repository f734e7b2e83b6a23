CONSTANTS
  alice = alice  bob = bob  k = k  t1 = t1  t2 = t2
  Owner = {alice, bob}
  Operator = {k}
  Nonce = {1, 2}
  Target = {t1, t2}
  Absent = absent
  MaxDepth = 4
  Signed <- MCSigned
SPECIFICATION Spec
INVARIANTS ForwardedOnce NoncesAccounted
PROPERTY KeepsPromise
