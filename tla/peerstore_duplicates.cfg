SPECIFICATION FairSpec
CONSTANTS
  Workers = {w1, w2}
  Torrents = {1}
  UnknownHash = nohash
  NoRequest = noreq
  PeerIds = {p1}
  Expire = 1
  ErrorCodes = {}
  MaxTime = 0
  MaxAnnounces = 2
INVARIANT OneRowPerPeer
