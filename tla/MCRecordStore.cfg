\* Two threads on one store; times 1 and 2 are in range and 3 is not.
SPECIFICATION Spec
CONSTANTS
  Uris = {u1}
  Cids = {a, b}
  NoCid = NoCid
  Writers = {w1, w2}
  Nobody = Nobody
  Times = {1, 2, 3}
  MaxI64 = 2
  Cursors = {1}
  MaxBatch = 3
SYMMETRY Symmetry
INVARIANTS TypeOK LwwConverges MirrorAgrees
PROPERTIES NoClobber
