CONSTANTS
  p1 = p1  p2 = p2  p3 = p3
  o1 = o1  o2 = o2
  g1 = g1
  l1 = l1  l2 = l2
  a1 = a1  a2 = a2  a3 = a3  a4 = a4
  NoObj = NoObj
  NoAddr = NoAddr
  Ptrs = {p1, p2, p3}
  Objs = {o1, o2}
  Guards = {g1}
  Loaders = {l1}
  Addrs = {a1, a2, a3}
  InitAddr <- MCInitAddr
  MaxRef = 6
SPECIFICATION Spec
INVARIANT TypeOK
INVARIANT NoDanglingHandle
PROPERTY LoadTerminates
CHECK_DEADLOCK FALSE
