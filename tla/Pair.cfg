SPECIFICATION Spec
CONSTANTS
  alice = alice
  bob = bob
  carol = carol
  None = None
  Wallets = {alice, bob}
  Offers <- PairOffers
  UpgradeAuthority = alice
  OfferInputs <- PairInputs
  PolicyInputs <- OnePolicy
  MintStates <- OneMint
  Fees = {0}
  MaxGiven = 0
  MaxTime = 2
  MaxVersion = 1
  InitialUsdc = 4
  InitialShares = 1
PROPERTY
  KeepsPromise
CHECK_DEADLOCK FALSE
