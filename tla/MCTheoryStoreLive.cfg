CONSTANTS
  c1 = c1
  c2 = c2
  c3 = c3
  f1 = f1
  Clients = {c1, c2}
  Files = {f1}
  Uploaded = Uploaded
  Startup <- OneFile
  MaxOps = 4
SPECIFICATION FairSpec
PROPERTY RequestsEnd
