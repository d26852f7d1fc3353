CONSTANTS
  c1 = c1
  c2 = c2
  c3 = c3
  f1 = f1
  Clients = {c1, c2, c3}
  Files = {f1}
  Uploaded = Uploaded
  Startup <- OneFile
  MaxOps = 4
SPECIFICATION Spec
SYMMETRY ClientSymmetry
INVARIANTS SingleFlight ProofIsKept FailureIsForgotten StaleIsFinal PageIsConsistent
PROPERTIES GoneIsNotProved OriginIsKept ImplementsMap
