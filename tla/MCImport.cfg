CONSTANTS
    g = g  a1 = a1  a2 = a2  a3 = a3  a4 = a4  b2 = b2  b3 = b3  b4 = b4
    Hashes = {h1, h2}  Peers = {p1, p2}
    MaxTxAnnounces = 2  MaxTxRetrievals = 2  MaxBatch = 1
    Parts = {"peers", "satellites", "txs", "blocks", "reorgs", "crashes", "bids"}
SPECIFICATION MCSpec
INVARIANTS SendersAwaited SatellitesKept StagesApart StillScheduled BlocksInStep ChainWhole IndexExact SimulatedForReal
PROPERTY BidsTaken
CHECK_DEADLOCK FALSE
