CONSTANTS
  e1 = e1
  e2 = e2
  e3 = e3
  Eoa = {e1, e2, e3}
  Key = {k1, k2}
  Authority = {a1}
  Release = {r1, r2}
  Foreign = {f1}
  Admin = admin
  Other = other
  Zero = zero
  Absent = absent
  Left = left
  FirstImpl = r1
  FactoryKey = k1
  Legacy = {e1}
  LegacyKey = k1
  MaxDepth = 2
  MaxSigned = 3
SPECIFICATION Spec
INVARIANTS TypeOK SetUpAsSigned RunsWhatWasChosen
PROPERTY KeptOnceSet
SYMMETRY Newcomers
CHECK_DEADLOCK FALSE
