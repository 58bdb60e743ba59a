CONSTANTS
    Offers <- MCOffers
    MaxPeers = 1
SPECIFICATION DemoSpec
INVARIANTS NothingIsLeftOn
PROPERTIES AbandonedPeersGo
CHECK_DEADLOCK FALSE
