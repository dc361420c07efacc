\* The same store; the delete barrier as README.md states it.
SPECIFICATION Spec
CONSTANTS
  Uris = {u1}
  Cids = {a}
  NoCid = NoCid
  Writers = {w1}
  Nobody = Nobody
  Times = {1, 2, 3}
  MaxI64 = 3
  Cursors = {1}
  MaxBatch = 2
INVARIANT DeleteBarrier
