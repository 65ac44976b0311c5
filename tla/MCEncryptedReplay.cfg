CONSTANTS
  r1 = r1
  r2 = r2
  sA = sA
  aa = aa
  ab = ab
  ma = ma
  mb = mb
  ia = ia
  ib = ib
  None = None
  Requests = {r1, r2}
  Sessions = {sA}
  SessionOf <- MCSessionOf
  Addresses = {aa, ab}
  Models = {ma, mb}
  Items = {ia, ib}
  MintedBy <- MCMintedBy
  MaxTurns = 2
  MaxSwitches = 2
  MaxRestarts = 1
  Disturbances = {"batch"}
SYMMETRY Exchange
SPECIFICATION Spec
INVARIANT TypeOK
INVARIANT RecordsAreTrue
INVARIANT NoReplayError
INVARIANT DeliveredIsRecorded
CHECK_DEADLOCK FALSE
