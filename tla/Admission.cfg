SPECIFICATION Spec
CONSTANTS
  alice = alice
  bob = bob
  carol = carol
  None = None
  Wallets = {alice, bob, carol}
  Offers <- SoloOffers
  UpgradeAuthority = alice
  OfferInputs <- AdmissionInputs
  PolicyInputs <- Reviews
  MintStates <- Mints
  Fees = {0, 1}
  MaxGiven = 0
  MaxTime = 2
  MaxVersion = 2
  InitialUsdc = 3
  InitialShares = 1
  Minute = 1
  FormQuantities = {0, 1}
  FormPayouts = {1, 2}
  FormRates = {1, 5000, 10001}
  FormPremiums = {0, 1, 3}
  FormDurations = {0, 1, 2, 3}
INVARIANTS
  TypeOK
  FundsReachable
  CanDisable
  PlanAccepted
  RightsOffered
  SaysTrue
  FormAccepted
  SuggestionKept
PROPERTIES
  Irrevocable
CHECK_DEADLOCK FALSE
