SPECIFICATION Spec
CONSTANTS
  Promotes = {p1, p2, p3}
  Dirs = {d1, d2}
  NoDir = nodir
INVARIANTS
  TypeOK
  LinkIsRelease
