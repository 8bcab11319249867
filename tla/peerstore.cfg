SPECIFICATION Spec
CONSTANTS
  Workers = {w1, w2}
  Torrents = {1, 10}
  UnknownHash = nohash
  NoRequest = noreq
  PeerIds = {p1, p2}
  Expire = 1
  ErrorCodes = {10}
  MaxTime = 2
  MaxAnnounces = 2
SYMMETRY Symmetry
INVARIANTS TypeOK DuplicatesBounded UpdatesOwnRow CountedOnce
PROPERTY PrunesExpired
