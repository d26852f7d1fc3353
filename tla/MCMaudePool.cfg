SPECIFICATION FairSpec
CONSTANTS
  Threads = {w1, w2, w3}
  Tasks <- FileTasks
  Kind <- FileKind
  Parent <- FileParent
  Size = 2
  None = None
  r1 = r1
  r2 = r2
  r3 = r3
  l1 = l1
  a = a
  b = b
  a1 = a1
  a2 = a2
  c = c
INVARIANTS OneOwner SlotsAddUp NoHoldAndWait NoLostWakeup MaudeIsHeld
PROPERTY AllEnd
