SPECIFICATION FairLockSpec
CONSTANTS
  w1 = w1
  w2 = w2
  w3 = w3
  EventLoops = {w1, w2, w3}
  Owner = Owner
  Nobody = Nobody
  MaxWrites = 3
INVARIANTS NoChangeSincePrep
PROPERTIES NobodyWaitsForever
