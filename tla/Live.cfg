SPECIFICATION FairSpec
CONSTANTS
  alice = alice
  bob = bob
  carol = carol
  None = None
  Wallets = {alice, bob}
  Offers <- SoloOffers
  UpgradeAuthority = alice
  OfferInputs <- SoloInputs
  PolicyInputs <- OnePolicy
  MintStates <- OneMint
  Fees = {0, 1}
  MaxGiven = 1
  MaxTime = 2
  MaxVersion = 1
  InitialUsdc = 2
  InitialShares = 1
PROPERTIES
  KeepsFairPromise
  DonationsSwept
  HandoffRetried
  HandedToBeneficiary
INVARIANTS
  Backed
  Custody
  DeliveryRecorded
CHECK_DEADLOCK FALSE
