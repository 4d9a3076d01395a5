SPECIFICATION ReviewSpec
CONSTANTS
  alice = alice
  bob = bob
  carol = carol
  None = None
  Wallets = {alice, bob, carol}
  Offers <- SoloOffers
  UpgradeAuthority = alice
  OfferInputs <- SoloInputs
  PolicyInputs <- OnePolicy
  MintStates <- OneMint
  Fees = {0}
  MaxGiven = 0
  MaxTime = 2
  MaxVersion = 1
  InitialUsdc = 2
  InitialShares = 1
PROPERTIES
  AsReviewed
CHECK_DEADLOCK FALSE
INVARIANTS
  EffectProved
  Decided
  RolesAgree
