SPECIFICATION Spec
CONSTANTS
  Threads = {t1, t2, t3}
  Content = {empty, c1, c2}
  Empty = empty
  Torn = torn
  NoThread = nobody
  MaxFaults = 2
SYMMETRY Symmetry
INVARIANTS
  TypeOK
  NoTornRead
PROPERTY
  ImplementsAtomic
