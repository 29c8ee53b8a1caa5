SPECIFICATION Spec
CONSTANTS
  ann = ann
  bob = bob
  login = login
  ask = ask
  inv = inv
  r1 = r1
  r2 = r2
  r3 = r3
  r4 = r4
  Request = {login, ask, inv, r1, r2, r3, r4}
  Past = {login, ask, inv}
  Email = {ann, bob}
  None = None
  PastOp <- MCPastOp
  PastEmail <- MCPastEmail
  Known = {ann}
  MaxFaults = 1
SYMMETRY Symmetric
CONSTRAINT Few
CHECK_DEADLOCK FALSE
INVARIANTS
  EndedUnlessBetween
  InviteOnce
  VerifiedByProof
