SPECIFICATION FairSpec
CONSTANTS
    Host = {h1, h2}
    None = None
    MaxFaults = 2
CHECK_DEADLOCK FALSE
INVARIANTS EachIncarnationHasOneHost NewestRunnerHoldsTheClaim
PROPERTIES SupervisionNeverTraded NoClaimWedges
