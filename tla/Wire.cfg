SPECIFICATION WireSpec
CONSTANTS
  Admin <- McAdmin
  Wallets <- McWallets
  Mints <- McMints
  Senders = {"app", "plugin", "other"}
  Nonces = {1}
  MaxVersion = 2
  MaxOffers = 1
INVARIANTS
  SameReading
  OneMessage
  ReadAsMeant
  Fits
  IntentTrue
