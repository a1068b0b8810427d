SPECIFICATION ShrinkSpec
CONSTANTS
  Threads = {t1, t2}
  Bitmaps = {b1, b2, b3}
  Elements = {e1, e2}
  Containers = {c1, c2, c3, c4}
  Wrappers = {w1, w2}
  NULL = NULL
SYMMETRY Symmetry
INVARIANT NoDataRace
