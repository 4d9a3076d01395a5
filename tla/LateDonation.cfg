SPECIFICATION Spec
CONSTANTS
  alice = alice
  bob = bob
  carol = carol
  None = None
  Wallets = {alice, bob}
  Offers <- SoloOffers
  UpgradeAuthority = alice
  OfferInputs <- SoloInputs
  PolicyInputs <- OnePolicy
  MintStates <- OneMint
  Fees = {0, 1}
  MaxGiven = 1
  MaxTime = 2
  MaxVersion = 1
  InitialUsdc = 2
  InitialShares = 1
INVARIANT
  LateDonationsRecoverable
CHECK_DEADLOCK FALSE
