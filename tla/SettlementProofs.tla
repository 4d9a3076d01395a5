-------------------------- MODULE SettlementProofs --------------------------
(* What holds of Settlement for every choice of its constants. *)
EXTENDS Settlement, TLAPS

IInv == TypeOK /\ Backed /\ Parties /\ Timeline /\ Custody

\* The types of the clock and the policy's fields, apart from the rest of TypeOK.
LEMMA ScalarTypes ==
  TypeOK => now \in Int /\ policy.version \in Nat /\ policy.enabled \in BOOLEAN
BY DEF TypeOK, Policy

\* The three ways a handler rewrites an Agreement account keep it well formed.
LEMMA RecordActivationType ==
  ASSUME NEW a \in Agreement, NEW w \in Wallets, now \in Int, policy.version \in Nat
  PROVE  RecordActivation(a, w) \in Agreement
BY DEF Agreement, Statuses, RecordActivation

LEMMA ExercisedType ==
  ASSUME NEW a \in Agreement, NEW at \in Int, NEW net \in Nat
  PROVE  [a EXCEPT !.status = "Exercised", !.settledAt = at, !.netReceived = net] \in Agreement
BY DEF Agreement, Statuses

LEMMA RefundedType ==
  ASSUME NEW a \in Agreement, NEW at \in Int, NEW expired \in BOOLEAN
  PROVE  [a EXCEPT !.status = IF expired THEN "Expired" ELSE "Cancelled",
                   !.settledAt = at] \in Agreement
BY DEF Agreement, Statuses

\* The settlement account exercise leaves behind is well formed.
LEMMA DeliveredType ==
  ASSUME NEW s \in SettlementAccount, NEW amount \in Nat, NEW w \in Wallets
  PROVE  [s EXCEPT !.amount = amount, !.title = w] \in SettlementAccount
BY DEF SettlementAccount

\* IInv holds before initialize.
LEMMA InitIInv == Init => IInv
<1> SUFFICES ASSUME Init PROVE IInv
  OBVIOUS
<1> USE DEF Init
<1>1. TypeOK
  BY WalletsAssumption, InputsAssumption, BoundsAssumption
  DEF TypeOK, Policy, MintState, Agreement, SettlementAccount, Blank, FreshSettlement, OfferTerms, Statuses, Sides, Never
<1>2. Backed
  BY DEF Backed, Owed, Status, Terms, Blank
<1>3. Parties
  BY DEF Parties, Status, Blank
<1>4. Timeline
  BY DEF Timeline, Status, Blank
<1>5. Custody
  BY DEF Custody, Status, Blank
<1>6. QED
  BY <1>1, <1>2, <1>3, <1>4, <1>5 DEF IInv

\* create_offer: IInv is kept.
LEMMA CreateOfferKeeps ==
  ASSUME IInv, NEW o \in Offers, NEW t \in OfferInputs, CreateOffer(o, t)
  PROVE  IInv'
<1> USE DEF IInv
<1> USE DEF CreateOffer, CanCreateOffer
<1>o. o[1] \in Wallets
  BY WalletsAssumption
<1>t. t \in OfferTerms
  BY InputsAssumption
<1>n. NewAgreement(o[1], t) \in Agreement
  BY <1>o, <1>t DEF NewAgreement, TypeOK, Agreement, Policy, Statuses, OfferTerms, Never
<1>s. Stake(t) \in Nat
  BY <1>t DEF Stake, OfferTerms
<1>1. TypeOK'
  BY <1>o, <1>n, <1>s DEF TypeOK, FreshSettlement, SettlementAccount
<1>2. Backed'
  BY <1>o, <1>t, <1>n DEF TypeOK, Backed, Owed, Status, Terms, Stake, NewAgreement, OfferTerms, Sides
<1>3. Parties'
  BY <1>o, <1>t, <1>n DEF TypeOK, Parties, Status, NewAgreement, OfferTerms, Sides
<1>4. Timeline'
  BY <1>o, <1>t, <1>n DEF TypeOK, Timeline, Status, NewAgreement
<1>5. Custody'
  BY <1>o, <1>t, <1>n DEF TypeOK, Custody, Status, NewAgreement, ValidSettlement, FreshSettlement
<1>6. QED
  BY <1>1, <1>2, <1>3, <1>4, <1>5

\* initialize: IInv is kept.
LEMMA InitializeKeeps ==
  ASSUME IInv, NEW w \in Wallets, Initialize(w)
  PROVE  IInv'
<1> USE DEF IInv, Initialize, ledger
<1>1. TypeOK'
  BY DEF TypeOK
<1>2. Backed'
  BY DEF TypeOK, Backed, Owed, Status, Terms
<1>3. Parties'
  BY DEF TypeOK, Parties, Status
<1>4. Timeline'
  BY DEF TypeOK, Timeline, Status
<1>5. Custody'
  BY DEF TypeOK, Custody, Status, ValidSettlement
<1>6. QED
  BY <1>1, <1>2, <1>3, <1>4, <1>5

\* create_asset_policy: IInv is kept.
LEMMA CreateAssetPolicyKeeps ==
  ASSUME IInv, NEW w \in Wallets, NEW t \in PolicyInputs, CreateAssetPolicy(w, t)
  PROVE  IInv'
<1> USE DEF IInv, CreateAssetPolicy, WritePolicy, Writable, ledger
<1>t. t \in PolicyTerms
  BY InputsAssumption
<1>1. TypeOK'
  BY <1>t, BoundsAssumption DEF TypeOK, Policy, PolicyTerms
<1>2. Backed'
  BY <1>t DEF TypeOK, Backed, Owed, Status, Terms
<1>3. Parties'
  BY <1>t DEF TypeOK, Parties, Status
<1>4. Timeline'
  BY <1>t DEF TypeOK, Timeline, Status
<1>5. Custody'
  BY <1>t DEF TypeOK, Custody, Status, ValidSettlement
<1>6. QED
  BY <1>1, <1>2, <1>3, <1>4, <1>5

\* update_asset_policy: IInv is kept.
LEMMA UpdateAssetPolicyKeeps ==
  ASSUME IInv, NEW w \in Wallets, NEW t \in PolicyInputs, UpdateAssetPolicy(w, t)
  PROVE  IInv'
<1> USE DEF IInv, UpdateAssetPolicy, CanUpdatePolicy, WritePolicy, Writable, ledger
<1>t. t \in PolicyTerms
  BY InputsAssumption
<1>1. TypeOK'
  BY <1>t, BoundsAssumption DEF TypeOK, Policy, PolicyTerms
<1>2. Backed'
  BY <1>t DEF TypeOK, Backed, Owed, Status, Terms
<1>3. Parties'
  BY <1>t DEF TypeOK, Parties, Status
<1>4. Timeline'
  BY <1>t DEF TypeOK, Timeline, Status
<1>5. Custody'
  BY <1>t DEF TypeOK, Custody, Status, ValidSettlement
<1>6. QED
  BY <1>1, <1>2, <1>3, <1>4, <1>5

\* activate: IInv is kept.
LEMMA ActivateKeeps ==
  ASSUME IInv, NEW o \in Offers, NEW w \in Wallets, Activate(o, w)
  PROVE  IInv'
<1> USE DEF IInv, Activate, CanActivate
<1>o. o[1] \in Wallets
  BY WalletsAssumption
<1>a. agreements[o] \in Agreement /\ agreements[o].terms \in OfferTerms
  BY DEF TypeOK, Agreement
<1>r. RecordActivation(agreements[o], w) \in Agreement
  BY <1>a, ScalarTypes, RecordActivationType
<1>p. Terms(o).payout \in Nat /\ Terms(o).premium \in Nat
  BY <1>a DEF Terms, OfferTerms
<1>1. TypeOK'
  <2>1. agreements' \in [Offers -> Agreement]
    BY <1>r DEF TypeOK
  <2>2. usdc' \in [Wallets -> Nat]
    <3>1. usdc \in [Wallets -> Nat] /\ usdc[w] >= Terms(o).premium
      BY DEF TypeOK, Terms
    <3>2. agreements[o].writer = o[1] /\ o[1] # w
      BY <1>a DEF Parties, CheckAcceptance, Status, Terms
    <3>3. usdc' = [usdc EXCEPT ![w] = @ - Terms(o).premium, ![o[1]] = @ + Terms(o).premium]
      BY <3>2 DEF Terms
    <3>4. QED
      BY <3>1, <3>2, <3>3, <1>o, <1>p
  <2>3. reserve' \in [Offers -> Nat]
    BY DEF TypeOK
  <2>4. QED
    BY <2>1, <2>2, <2>3 DEF TypeOK
<1>2. Backed'
  BY <1>o, <1>a DEF TypeOK, Backed, Owed, Status, Terms, RecordActivation, CheckAcceptance, Agreement
<1>3. Parties'
  BY <1>o, <1>a DEF TypeOK, Parties, Status, RecordActivation, CheckAcceptance, Agreement, Terms
<1>4. Timeline'
  BY <1>o, <1>a DEF TypeOK, Timeline, Status, RecordActivation, CheckAcceptance, Agreement, OfferTerms, Terms
<1>5. Custody'
  BY <1>o, <1>a DEF TypeOK, Custody, Status, ValidSettlement, RecordActivation, CheckAcceptance, Agreement
<1>6. QED
  BY <1>1, <1>2, <1>3, <1>4, <1>5

\* accept_request: IInv is kept.
LEMMA AcceptRequestKeeps ==
  ASSUME IInv, NEW o \in Offers, NEW w \in Wallets, AcceptRequest(o, w)
  PROVE  IInv'
<1> USE DEF IInv, AcceptRequest, CanAcceptRequest
<1>o. o[1] \in Wallets
  BY WalletsAssumption
<1>a. agreements[o] \in Agreement /\ agreements[o].terms \in OfferTerms
  BY DEF TypeOK, Agreement
<1>r. RecordActivation(agreements[o], w) \in Agreement
  BY <1>a, ScalarTypes, RecordActivationType
<1>p. Terms(o).payout \in Nat /\ Terms(o).premium \in Nat
  BY <1>a DEF Terms, OfferTerms
<1>1. TypeOK'
  <2>1. agreements' \in [Offers -> Agreement]
    BY <1>r DEF TypeOK
  <2>2. usdc' \in [Wallets -> Nat]
    <3>1. usdc[w] \in Nat /\ usdc[w] >= Terms(o).payout
      BY DEF TypeOK, Terms
    <3>2. usdc[w] - Terms(o).payout + Terms(o).premium \in Nat
      BY <3>1, <1>p
    <3>3. QED
      BY <3>2 DEF TypeOK, Terms
  <2>3. reserve' \in [Offers -> Nat]
    <3>1. reserve[o] \in Nat /\ reserve[o] >= Terms(o).premium
      BY DEF TypeOK, Terms
    <3>2. reserve[o] + Terms(o).payout - Terms(o).premium \in Nat
      BY <3>1, <1>p
    <3>3. QED
      BY <3>2 DEF TypeOK, Terms
  <2>4. QED
    BY <2>1, <2>2, <2>3 DEF TypeOK
<1>2. Backed'
  BY <1>o, <1>a DEF TypeOK, Backed, Owed, Status, Terms, RecordActivation, CheckAcceptance, Agreement, OfferTerms
<1>3. Parties'
  BY <1>o, <1>a DEF TypeOK, Parties, Status, RecordActivation, CheckAcceptance, Agreement, Terms
<1>4. Timeline'
  BY <1>o, <1>a DEF TypeOK, Timeline, Status, RecordActivation, CheckAcceptance, Agreement, OfferTerms, Terms
<1>5. Custody'
  BY <1>o, <1>a DEF TypeOK, Custody, Status, ValidSettlement, RecordActivation, CheckAcceptance, Agreement
<1>6. QED
  BY <1>1, <1>2, <1>3, <1>4, <1>5

\* exercise: IInv is kept.
LEMMA ExerciseKeeps ==
  ASSUME IInv, NEW o \in Offers, NEW w \in Wallets, NEW fee \in Fees, Exercise(o, w, fee)
  PROVE  IInv'
<1>k. now \in Int
  BY ScalarTypes DEF IInv
<1>a. agreements[o] \in Agreement /\ agreements[o].terms \in OfferTerms
  BY DEF IInv, TypeOK, Agreement
<1>f. fee \in Nat
  BY InputsAssumption
<1>q. /\ settlement[o] \in SettlementAccount /\ settlement[o].amount \in Nat
      /\ Terms(o).quantity \in Nat /\ Terms(o).quantity - fee \in Nat
  BY <1>a, <1>f DEF IInv, TypeOK, SettlementAccount, OfferTerms, Terms, Exercise, CanExercise
<1>c. Credited(settlement[o].amount, settlement[o].amount + Terms(o).quantity - fee) \in Nat
  BY <1>f, <1>q DEF Credited
<1>r. [agreements[o] EXCEPT !.status = "Exercised", !.settledAt = now,
                         !.netReceived = Credited(settlement[o].amount,
                            settlement[o].amount + Terms(o).quantity - fee)] \in Agreement
  BY <1>a, <1>c, <1>k, ExercisedType
<1>s. [settlement[o] EXCEPT !.amount = settlement[o].amount + Terms(o).quantity - fee,
                         !.title = agreements[o].writer] \in SettlementAccount
  <2>1. settlement[o].amount + Terms(o).quantity - fee \in Nat
    BY <1>f, <1>q
  <2>2. agreements[o].writer \in Wallets
    BY <1>a DEF Agreement, Exercise, CanExercise
  <2>3. QED
    BY <2>1, <2>2, <1>q, DeliveredType
<1> USE DEF IInv, Exercise, CanExercise
<1>1. TypeOK'
  <2>1. agreements' \in [Offers -> Agreement]
    BY <1>r DEF TypeOK
  <2>2. usdc' \in [Wallets -> Nat] /\ reserve' \in [Offers -> Nat] /\ shares' \in [Wallets -> Nat]
    BY <1>a DEF TypeOK, Pays, Terms, OfferTerms
  <2>3. settlement' \in [Offers -> SettlementAccount]
    BY <1>s DEF TypeOK, Terms
  <2>4. QED
    BY <2>1, <2>2, <2>3 DEF TypeOK
<1>2. Backed'
  BY <1>a, <1>f DEF TypeOK, Backed, Owed, Status, Terms, Pays, Agreement, OfferTerms
<1>3. Parties'
  BY <1>a, <1>f DEF TypeOK, Parties, Status, Agreement
<1>4. Timeline'
  BY <1>a, <1>f DEF TypeOK, Timeline, Status, InTime, Terms, Agreement, OfferTerms
<1>5. Custody'
  BY <1>a, <1>f DEF TypeOK, Custody, Status, ValidSettlement, Agreement
<1>6. QED
  BY <1>1, <1>2, <1>3, <1>4, <1>5

\* cancel_offer and reclaim_expired: IInv is kept.
LEMMA RefundKeeps ==
  ASSUME IInv, NEW o \in Offers, NEW w \in Wallets, NEW expired \in BOOLEAN, Refund(o, w, expired)
  PROVE  IInv'
<1>k. now \in Int
  BY ScalarTypes DEF IInv
<1>a. agreements[o] \in Agreement /\ agreements[o].terms \in OfferTerms
  BY DEF IInv, TypeOK, Agreement
<1>r. [agreements[o] EXCEPT !.status = IF expired THEN "Expired" ELSE "Cancelled",
                         !.settledAt = now] \in Agreement
  BY <1>a, <1>k, RefundedType
<1>p. RefundAmount(agreements[o], expired) \in Nat
  BY <1>a DEF RefundAmount, OfferTerms
<1> USE DEF IInv, Refund, CanRefund
<1>1. TypeOK'
  <2>1. agreements' \in [Offers -> Agreement]
    BY <1>r DEF TypeOK
  <2>2. usdc' \in [Wallets -> Nat] /\ reserve' \in [Offers -> Nat]
    BY <1>p DEF TypeOK, Pays
  <2>3. QED
    BY <2>1, <2>2 DEF TypeOK
<1>2. Backed'
  BY <1>a DEF TypeOK, Backed, Owed, Status, Terms, Pays, RefundAmount, Agreement, OfferTerms, Sides
<1>3. Parties'
  BY <1>a DEF TypeOK, Parties, Status, Agreement
<1>4. Timeline'
  BY <1>a DEF TypeOK, Timeline, Status, Agreement, OfferTerms
<1>5. Custody'
  BY <1>a DEF TypeOK, Custody, Status, ValidSettlement, Agreement
<1>6. QED
  BY <1>1, <1>2, <1>3, <1>4, <1>5

\* cleanup_terminal: IInv is kept.
LEMMA CleanupTerminalKeeps ==
  ASSUME IInv, NEW o \in Offers, NEW w \in Wallets, CleanupTerminal(o, w)
  PROVE  IInv'
<1> USE DEF IInv, CleanupTerminal, CanCleanUp
<1>a. agreements[o] \in Agreement /\ agreements[o].terms \in OfferTerms
  BY DEF TypeOK, Agreement
<1>1. TypeOK'
  BY <1>a DEF TypeOK, Backed, Owed, SettlementAccount, Pays, Cleanable, Terminal, Status, Terms
<1>2. Backed'
  BY <1>a DEF TypeOK, Backed, Owed, Status, Terms, Pays, Cleanable, Terminal
<1>3. Parties'
  BY <1>a DEF TypeOK, Parties, Status
<1>4. Timeline'
  BY <1>a DEF TypeOK, Timeline, Status
<1>5. Custody'
  BY <1>a DEF TypeOK, Custody, Status, ValidSettlement, Cleanable, Terminal, SettlementAccount, GivesUp
<1>6. QED
  BY <1>1, <1>2, <1>3, <1>4, <1>5

\* The clock: IInv is kept.
LEMMA TickKeeps ==
  ASSUME IInv, Tick
  PROVE  IInv'
<1> USE DEF IInv, Tick, ledger
<1>b. MaxTime \in Nat
  BY BoundsAssumption
<1>1. TypeOK'
  BY <1>b DEF TypeOK
<1>2. Backed'
  BY <1>b DEF TypeOK, Backed, Owed, Status, Terms
<1>3. Parties'
  BY <1>b DEF TypeOK, Parties, Status
<1>4. Timeline'
  BY <1>b DEF TypeOK, Timeline, Status
<1>5. Custody'
  BY <1>b DEF TypeOK, Custody, Status, ValidSettlement
<1>6. QED
  BY <1>1, <1>2, <1>3, <1>4, <1>5

\* A change of the mint: IInv is kept.
LEMMA IssuerSetsMintKeeps ==
  ASSUME IInv, NEW m \in MintStates, IssuerSetsMint(m)
  PROVE  IInv'
<1> USE DEF IInv, IssuerSetsMint, ledger
<1>m. m \in MintState
  BY InputsAssumption
<1>1. TypeOK'
  BY <1>m DEF TypeOK
<1>2. Backed'
  BY <1>m DEF TypeOK, Backed, Owed, Status, Terms
<1>3. Parties'
  BY <1>m DEF TypeOK, Parties, Status
<1>4. Timeline'
  BY <1>m DEF TypeOK, Timeline, Status
<1>5. Custody'
  BY <1>m DEF TypeOK, Custody, Status, ValidSettlement
<1>6. QED
  BY <1>1, <1>2, <1>3, <1>4, <1>5

\* Freezing or thawing a settlement account: IInv is kept.
LEMMA IssuerSetsFreezeKeeps ==
  ASSUME IInv, NEW o \in Offers, IssuerSetsFreeze(o)
  PROVE  IInv'
<1> USE DEF IInv, IssuerSetsFreeze
<1>1. TypeOK'
  BY DEF TypeOK, SettlementAccount
<1>2. Backed'
  BY DEF TypeOK, Backed, Owed, Status, Terms
<1>3. Parties'
  BY DEF TypeOK, Parties, Status
<1>4. Timeline'
  BY DEF TypeOK, Timeline, Status
<1>5. Custody'
  BY DEF TypeOK, Custody, Status, ValidSettlement, SettlementAccount
<1>6. QED
  BY <1>1, <1>2, <1>3, <1>4, <1>5

\* A permanent delegate: IInv is kept.
LEMMA IssuerSeizesKeeps ==
  ASSUME IInv, NEW o \in Offers, IssuerSeizes(o)
  PROVE  IInv'
<1> USE DEF IInv, IssuerSeizes
<1>1. TypeOK'
  BY DEF TypeOK, SettlementAccount
<1>2. Backed'
  BY DEF TypeOK, Backed, Owed, Status, Terms
<1>3. Parties'
  BY DEF TypeOK, Parties, Status
<1>4. Timeline'
  BY DEF TypeOK, Timeline, Status
<1>5. Custody'
  BY DEF TypeOK, Custody, Status, ValidSettlement, SettlementAccount
<1>6. QED
  BY <1>1, <1>2, <1>3, <1>4, <1>5

\* A donation to a reserve: IInv is kept.
LEMMA DonateUsdcKeeps ==
  ASSUME IInv, NEW o \in Offers, NEW w \in Wallets, DonateUsdc(w, o)
  PROVE  IInv'
<1> USE DEF IInv, DonateUsdc
<1>1. TypeOK'
  BY DEF TypeOK
<1>2. Backed'
  <2>1. \A x \in Offers : Owed(x)' = Owed(x) /\ Owed(x) \in Nat
    BY DEF TypeOK, Owed, Status, Terms, Agreement, OfferTerms
  <2>2. QED
    BY <2>1 DEF TypeOK, Backed
<1>3. Parties'
  BY DEF TypeOK, Parties, Status
<1>4. Timeline'
  BY DEF TypeOK, Timeline, Status
<1>5. Custody'
  BY DEF TypeOK, Custody, Status, ValidSettlement
<1>6. QED
  BY <1>1, <1>2, <1>3, <1>4, <1>5

\* A donation to a settlement account: IInv is kept.
LEMMA DonateSharesKeeps ==
  ASSUME IInv, NEW o \in Offers, NEW w \in Wallets, DonateShares(w, o)
  PROVE  IInv'
<1> USE DEF IInv, DonateShares
<1>1. TypeOK'
  BY DEF TypeOK, SettlementAccount
<1>2. Backed'
  BY DEF TypeOK, Backed, Owed, Status, Terms
<1>3. Parties'
  BY DEF TypeOK, Parties, Status
<1>4. Timeline'
  BY DEF TypeOK, Timeline, Status
<1>5. Custody'
  BY DEF TypeOK, Custody, Status, ValidSettlement, SettlementAccount
<1>6. QED
  BY <1>1, <1>2, <1>3, <1>4, <1>5

\* Emptying a handed-over account: IInv is kept.
LEMMA OwnerWithdrawsKeeps ==
  ASSUME IInv, NEW o \in Offers, NEW w \in Wallets, OwnerWithdraws(o, w)
  PROVE  IInv'
<1> USE DEF IInv, OwnerWithdraws
<1>w. w \notin {"absent", "agreement", "closed"}
  BY WalletsAssumption
<1>1. TypeOK'
  BY <1>w DEF TypeOK, SettlementAccount
<1>2. Backed'
  BY <1>w DEF TypeOK, Backed, Owed, Status, Terms
<1>3. Parties'
  BY <1>w DEF TypeOK, Parties, Status
<1>4. Timeline'
  BY <1>w DEF TypeOK, Timeline, Status
<1>5. Custody'
  BY <1>w DEF TypeOK, Custody, Status, ValidSettlement, SettlementAccount
<1>6. QED
  BY <1>1, <1>2, <1>3, <1>4, <1>5

\* Closing a handed-over account: IInv is kept.
LEMMA OwnerClosesKeeps ==
  ASSUME IInv, NEW o \in Offers, NEW w \in Wallets, OwnerCloses(o, w)
  PROVE  IInv'
<1> USE DEF IInv, OwnerCloses
<1>w. w \notin {"absent", "agreement", "closed"}
  BY WalletsAssumption
<1>1. TypeOK'
  BY <1>w DEF TypeOK, SettlementAccount, FreshSettlement
<1>2. Backed'
  BY <1>w DEF TypeOK, Backed, Owed, Status, Terms
<1>3. Parties'
  BY <1>w DEF TypeOK, Parties, Status
<1>4. Timeline'
  BY <1>w DEF TypeOK, Timeline, Status
<1>5. Custody'
  BY <1>w DEF TypeOK, Custody, Status, ValidSettlement, SettlementAccount
<1>6. QED
  BY <1>1, <1>2, <1>3, <1>4, <1>5

\* Giving a handed-over account away: IInv is kept.
LEMMA OwnerTransfersKeeps ==
  ASSUME IInv, NEW o \in Offers, NEW w \in Wallets, NEW title \in Wallets \cup {"agreement"}, NEW encumbered \in BOOLEAN,
         OwnerTransfers(o, w, title, encumbered)
  PROVE  IInv'
<1> USE DEF IInv, OwnerTransfers
<1>w. w \notin {"absent", "agreement", "closed"}
  BY WalletsAssumption
<1>1. TypeOK'
  BY <1>w DEF TypeOK, SettlementAccount
<1>2. Backed'
  BY <1>w DEF TypeOK, Backed, Owed, Status, Terms
<1>3. Parties'
  BY <1>w DEF TypeOK, Parties, Status
<1>4. Timeline'
  BY <1>w DEF TypeOK, Timeline, Status
<1>5. Custody'
  BY <1>w DEF TypeOK, Custody, Status, ValidSettlement, SettlementAccount
<1>6. QED
  BY <1>1, <1>2, <1>3, <1>4, <1>5

\* No instruction and nothing the environment does breaks IInv.
LEMMA NextKeeps == IInv /\ [Next]_vars => IInv'
<1> SUFFICES ASSUME IInv, [Next]_vars PROVE IInv'
  OBVIOUS
<1>1. CASE Instruction
  BY <1>1, InitializeKeeps, CreateAssetPolicyKeeps, UpdateAssetPolicyKeeps, CreateOfferKeeps,
     ActivateKeeps, AcceptRequestKeeps, ExerciseKeeps, RefundKeeps, CleanupTerminalKeeps
  DEF Instruction
<1>2. CASE Environment
  BY <1>2, TickKeeps, IssuerSetsMintKeeps, IssuerSetsFreezeKeeps, IssuerSeizesKeeps,
     DonateUsdcKeeps, DonateSharesKeeps, OwnerWithdrawsKeeps, OwnerClosesKeeps,
     OwnerTransfersKeeps
  DEF Environment
<1>3. CASE UNCHANGED vars
  BY <1>3 DEF IInv, TypeOK, Backed, Owed, Parties, Timeline, Custody, ValidSettlement,
     Status, Terms, vars
<1>4. QED
  BY <1>1, <1>2, <1>3 DEF Next


\* The inductive invariant: types, exact reserves, roles, times and custody together.
THEOREM Inductive == Spec => []IInv
BY InitIInv, NextKeeps, PTL DEF Spec

\* Every account stays well formed: no balance goes below zero (the reserve transfers of
\* accept_request, exercise, refund and cleanup_terminal never overdraw).
THEOREM TypeCorrect == Spec => []TypeOK
<1>1. IInv => TypeOK
  BY DEF IInv
<1>2. QED
  BY <1>1, Inductive, PTL

\* Each reserve holds exactly what its agreement owes plus unswept donations, for any
\* number of agreements, wallets and amounts.
THEOREM ReservesBacked == Spec => []Backed
<1>1. IInv => Backed
  BY DEF IInv
<1>2. QED
  BY <1>1, Inductive, PTL

\* The roles of every agreement fit its stage (create_offer, record_activation).
THEOREM RolesSettled == Spec => []Parties
<1>1. IInv => Parties
  BY DEF IInv
<1>2. QED
  BY <1>1, Inductive, PTL

\* Acceptance, delivery and recovery happened inside their windows (check_acceptance,
\* exercise, refund).
THEOREM TimesInOrder == Spec => []Timeline
<1>1. IInv => Timeline
  BY DEF IInv
<1>2. QED
  BY <1>1, Inductive, PTL

\* An open or active agreement's settlement account is the PDA's alone (validate_settlement
\* cannot refuse an exercise).
THEOREM CustodyKept == Spec => []Custody
<1>1. IInv => Custody
  BY DEF IInv
<1>2. QED
  BY <1>1, Inductive, PTL

-----------------------------------------------------------------------------
(* Steps that rewrite an Agreement account *)

RewritesAgreement ==
  \E o \in Offers :
    \/ \E t \in OfferInputs : CreateOffer(o, t)
    \/ \E w \in Wallets :
         \/ Activate(o, w)
         \/ AcceptRequest(o, w)
         \/ \E fee \in Fees : Exercise(o, w, fee)
         \/ \E expired \in BOOLEAN : Refund(o, w, expired)

\* Only the five handlers that write the account change an agreement.
LEMMA OthersLeaveAgreements ==
  [Next]_vars => RewritesAgreement \/ UNCHANGED agreements
BY DEF Next, Instruction, Environment, RewritesAgreement, vars, ledger, Initialize,
  CreateAssetPolicy, UpdateAssetPolicy, CleanupTerminal, Tick, IssuerSetsMint,
  IssuerSetsFreeze, IssuerSeizes, DonateUsdc, DonateShares, OwnerWithdraws, OwnerCloses,
  OwnerTransfers

\* Each of those five handlers makes one of the allowed moves of the status machine and
\* leaves alone what is final by then.
LEMMA RewritesKeepRights == IInv /\ RewritesAgreement => RightStep
<1> SUFFICES ASSUME IInv, NEW o \in Offers,
                    \/ \E t \in OfferInputs : CreateOffer(o, t)
                    \/ \E w \in Wallets :
                         \/ Activate(o, w)
                         \/ AcceptRequest(o, w)
                         \/ \E fee \in Fees : Exercise(o, w, fee)
                         \/ \E expired \in BOOLEAN : Refund(o, w, expired)
             PROVE  RightStep
  BY DEF RewritesAgreement
<1> USE DEF IInv, TypeOK, RightStep, Status
<1>1. ASSUME NEW t \in OfferInputs, CreateOffer(o, t) PROVE RightStep
  BY <1>1 DEF CreateOffer, CanCreateOffer, NewAgreement
<1>2. ASSUME NEW w \in Wallets, Activate(o, w) PROVE RightStep
  <2>1. /\ agreements[o].status = "Open"
        /\ agreements' = [agreements EXCEPT ![o] = RecordActivation(@, w)]
    BY <1>2 DEF Activate, CanActivate, CheckAcceptance
  <2>2. QED
    BY <2>1 DEF RecordActivation, Agreement
<1>3. ASSUME NEW w \in Wallets, AcceptRequest(o, w) PROVE RightStep
  <2>1. /\ agreements[o].status = "Open"
        /\ agreements' = [agreements EXCEPT ![o] = RecordActivation(@, w)]
    BY <1>3 DEF AcceptRequest, CanAcceptRequest, CheckAcceptance
  <2>2. QED
    BY <2>1 DEF RecordActivation, Agreement
<1>4. ASSUME NEW w \in Wallets, NEW fee \in Fees, Exercise(o, w, fee) PROVE RightStep
  <2>1. /\ agreements[o].status = "Active"
        /\ \E net : agreements' = [agreements EXCEPT
             ![o] = [@ EXCEPT !.status = "Exercised", !.settledAt = now, !.netReceived = net]]
    BY <1>4 DEF Exercise, CanExercise
  <2>2. QED
    BY <2>1 DEF Agreement
<1>5. ASSUME NEW w \in Wallets, NEW expired \in BOOLEAN, Refund(o, w, expired) PROVE RightStep
  <2>1. CASE expired
    <3>1. /\ agreements[o].status = "Active"
          /\ agreements' = [agreements EXCEPT
               ![o] = [@ EXCEPT !.status = "Expired", !.settledAt = now]]
      BY <1>5, <2>1 DEF Refund, CanRefund
    <3>2. QED
      BY <3>1 DEF Agreement
  <2>2. CASE ~expired
    <3>1. /\ agreements[o].status = "Open"
          /\ agreements' = [agreements EXCEPT
               ![o] = [@ EXCEPT !.status = "Cancelled", !.settledAt = now]]
      BY <1>5, <2>2 DEF Refund, CanRefund
    <3>2. QED
      BY <3>1 DEF Agreement
  <2>3. QED
    BY <2>1, <2>2
<1>6. QED
  BY <1>1, <1>2, <1>3, <1>4, <1>5

\* Nothing done by anyone, in any number of agreements and in any order, rewrites the terms
\* of an agreement, the parties of an active one or anything of a settled one.
THEOREM RightsAreFinal == Spec => Irrevocable
<1>1. IInv /\ [Next]_vars => [RightStep]_vars
  BY OthersLeaveAgreements, RewritesKeepRights DEF RightStep
<1>2. QED
  BY <1>1, Inductive, PTL DEF Spec, Irrevocable

\* cleanup_terminal and exercise are the only handlers that give a settlement account up;
\* a step of anybody else leaves the PDA's accounts with the PDA.
LEMMA HandoverStep == IInv /\ [Next]_vars => HandoffStep
<1> SUFFICES ASSUME IInv, [Next]_vars PROVE HandoffStep
  OBVIOUS
<1> USE DEF IInv, TypeOK, HandoffStep
<1>1. ASSUME NEW o \in Offers, NEW w \in Wallets, CleanupTerminal(o, w) PROVE HandoffStep
  BY <1>1 DEF CleanupTerminal, CanCleanUp, Cleanable, GivesUp, Beneficiary, Status, SettlementAccount
<1>2. ASSUME NEW o \in Offers, NEW w \in Wallets, NEW fee \in Fees, Exercise(o, w, fee)
      PROVE HandoffStep
  BY <1>2 DEF Exercise, Status, SettlementAccount, Agreement, Terminal
<1>3. ASSUME NEW o \in Offers, NEW t \in OfferInputs, CreateOffer(o, t) PROVE HandoffStep
  BY <1>3 DEF CreateOffer, FreshSettlement, SettlementAccount
<1>4. ASSUME NEW o \in Offers,
             \/ IssuerSetsFreeze(o) \/ IssuerSeizes(o)
             \/ \E w \in Wallets : DonateShares(w, o)
      PROVE HandoffStep
  BY <1>4 DEF IssuerSetsFreeze, IssuerSeizes, DonateShares, SettlementAccount
<1>5. ASSUME NEW o \in Offers, NEW w \in Wallets,
             \/ OwnerWithdraws(o, w) \/ OwnerCloses(o, w)
             \/ \E title \in Wallets \cup {"agreement"}, encumbered \in BOOLEAN :
                  OwnerTransfers(o, w, title, encumbered)
      PROVE HandoffStep
  BY <1>5, WalletsAssumption
  DEF OwnerWithdraws, OwnerCloses, OwnerTransfers, FreshSettlement, SettlementAccount
<1>6. CASE UNCHANGED settlement
  BY <1>6
<1>7. QED
  BY <1>1, <1>2, <1>3, <1>4, <1>5, <1>6
  DEF Next, Instruction, Environment, vars, ledger, Initialize, CreateAssetPolicy,
    UpdateAssetPolicy, Activate, AcceptRequest, Refund, Tick, IssuerSetsMint, DonateUsdc

\* The PDA gives a settlement account up only when the agreement is over, never frozen, and
\* only to the wallet its outcome names.
THEOREM HandoffIsRight == Spec => HandedToBeneficiary
<1>1. IInv /\ [Next]_vars => [HandoffStep]_vars
  BY HandoverStep
<1>2. QED
  BY <1>1, Inductive, PTL DEF Spec, HandedToBeneficiary

-----------------------------------------------------------------------------
(* The delivery record *)

\* What DeliveryRecorded says of one agreement record.
Recorded(b) ==
  IF b.status = "Exercised"
  THEN \E fee \in Fees : b.netReceived + fee = b.terms.quantity
  ELSE b.netReceived = 0

\* One rewritten record that is right keeps the others right.
LEMMA OneRecord ==
  ASSUME agreements \in [Offers -> Agreement], DeliveryRecorded, NEW o \in Offers,
         NEW b, Recorded(b), agreements' = [agreements EXCEPT ![o] = b]
  PROVE  DeliveryRecorded'
<1>1. \A x \in Offers : agreements'[x] = IF x = o THEN b ELSE agreements[x]
  OBVIOUS
<1>2. ASSUME NEW x \in Offers PROVE Recorded(agreements'[x])
  <2>1. CASE x = o
    BY <2>1, <1>1
  <2>2. CASE x # o
    BY <2>2, <1>1 DEF DeliveryRecorded, Recorded, Status, Terms
  <2>3. QED
    BY <2>1, <2>2
<1>3. QED
  BY <1>2 DEF DeliveryRecorded, Recorded, Status, Terms

\* A delivery of quantity less the fee raises the settlement account by as much, whatever
\* was in it; no other handler writes the record.
LEMMA DeliveryStep ==
  IInv /\ DeliveryRecorded /\ [Next]_vars => DeliveryRecorded'
<1> SUFFICES ASSUME IInv, DeliveryRecorded, [Next]_vars PROVE DeliveryRecorded'
  OBVIOUS
<1>a. agreements \in [Offers -> Agreement]
  BY DEF IInv, TypeOK
<1>1. ASSUME NEW o \in Offers, NEW t \in OfferInputs, CreateOffer(o, t)
      PROVE  DeliveryRecorded'
  <2>1. Recorded(NewAgreement(o[1], t))
    BY DEF Recorded, NewAgreement
  <2>2. QED
    BY <1>a, <1>1, <2>1, OneRecord DEF CreateOffer
<1>2. ASSUME NEW o \in Offers, NEW w \in Wallets, Activate(o, w) \/ AcceptRequest(o, w)
      PROVE  DeliveryRecorded'
  <2> DEFINE b == RecordActivation(agreements[o], w)
  <2>1. agreements[o].status = "Open" /\ agreements' = [agreements EXCEPT ![o] = b]
    BY <1>2, <1>a DEF Activate, CanActivate, AcceptRequest, CanAcceptRequest, CheckAcceptance, Status
  <2>2. agreements[o].netReceived = 0
    BY <2>1 DEF DeliveryRecorded, Status
  <2>3. b.netReceived = agreements[o].netReceived /\ b.status = "Active"
    BY <1>a DEF RecordActivation, Agreement
  <2>4. Recorded(b)
    BY <2>2, <2>3 DEF Recorded
  <2> HIDE DEF b
  <2>5. QED
    BY <1>a, <2>1, <2>4, OneRecord
<1>3. ASSUME NEW o \in Offers, NEW w \in Wallets, NEW fee \in Fees, Exercise(o, w, fee)
      PROVE  DeliveryRecorded'
  <2> DEFINE before == settlement[o].amount
             net == Credited(before, before + Terms(o).quantity - fee)
             b == [agreements[o] EXCEPT !.status = "Exercised", !.settledAt = now,
                                        !.netReceived = net]
  <2>1. agreements' = [agreements EXCEPT ![o] = b]
    BY <1>3, <1>a DEF Exercise
  <2>2. before \in Nat /\ fee \in Nat /\ Terms(o).quantity \in Nat
    BY <1>a, InputsAssumption DEF IInv, TypeOK, SettlementAccount, Agreement, OfferTerms, Terms
  <2>3. net + fee = Terms(o).quantity
    BY <2>2 DEF Credited
  <2> HIDE DEF net
  <2>4. b.status = "Exercised" /\ b.netReceived = net /\ b.terms = agreements[o].terms
    BY <1>a DEF Agreement
  <2> HIDE DEF b
  <2>5. Recorded(b)
    BY <2>3, <2>4 DEF Recorded, Terms
  <2>6. QED
    BY <1>a, <2>1, <2>5, OneRecord
<1>4. ASSUME NEW o \in Offers, NEW w \in Wallets, NEW expired \in BOOLEAN, Refund(o, w, expired)
      PROVE  DeliveryRecorded'
  <2> DEFINE b == [agreements[o] EXCEPT !.status = IF expired THEN "Expired" ELSE "Cancelled",
                                        !.settledAt = now]
  <2>1. /\ agreements[o].status # "Exercised"
        /\ agreements' = [agreements EXCEPT ![o] = b]
    BY <1>4, <1>a DEF Refund, CanRefund, Status
  <2>2. agreements[o].netReceived = 0
    BY <2>1 DEF DeliveryRecorded, Status
  <2>3. b.netReceived = agreements[o].netReceived /\ b.status \in {"Expired", "Cancelled"}
    BY <1>a DEF Agreement
  <2>4. Recorded(b)
    BY <2>2, <2>3 DEF Recorded
  <2> HIDE DEF b
  <2>5. QED
    BY <1>a, <2>1, <2>4, OneRecord
<1>5. CASE UNCHANGED agreements
  BY <1>5 DEF DeliveryRecorded, Status, Terms
<1>6. QED
  BY <1>1, <1>2, <1>3, <1>4, <1>5, OthersLeaveAgreements DEF RewritesAgreement

\* The recorded delivery is the quantity less the issuer's fee, for any fee, and nothing
\* sent to the settlement account beforehand is in it.
THEOREM DeliveriesRecorded == Spec => []DeliveryRecorded
<1>1. Init => DeliveryRecorded
  BY DEF Init, DeliveryRecorded, Status, Blank
<1>2. IInv /\ DeliveryRecorded /\ [Next]_vars => DeliveryRecorded'
  BY DeliveryStep
<1>3. QED
  BY <1>1, <1>2, Inductive, PTL DEF Spec
-----------------------------------------------------------------------------
(* What the code promises that is not a matter of one transition *)

\* Every locked-up dollar can be taken out now by the wallet it is due to: the reserve holds
\* what is owed, the settlement account is the PDA's, and both parties are known, so no
\* check of cancel_offer, reclaim_expired or exercise can refuse.
THEOREM FundsAlwaysReachable == Spec => []FundsReachable
<1>1. ASSUME IInv, NEW o \in Offers
      PROVE  LET a == agreements[o] IN
             /\ Status(o) = "Open" => CanRefund(o, o[1], FALSE)
             /\ Status(o) = "Active" /\ now >= a.terms.expiresAt =>
                  a.writer \in Wallets /\ CanRefund(o, a.writer, TRUE)
             /\ /\ Status(o) = "Active" /\ now < a.terms.expiresAt
                /\ shares[a.holder] >= a.terms.quantity
                /\ ~mint.hooked /\ ~mint.paused /\ ~settlement[o].frozen
                => \A fee \in Fees : fee <= a.terms.quantity => CanExercise(o, a.holder, fee)
  <2> DEFINE a == agreements[o]
  <2>1. /\ a \in Agreement /\ a.terms.side \in Sides /\ surplus[o] \in Nat /\ reserve[o] \in Nat
        /\ a.terms.payout \in Nat /\ a.terms.premium \in Nat
    BY <1>1 DEF IInv, TypeOK, Agreement, OfferTerms
  <2>2. reserve[o] = Owed(o) + surplus[o]
    BY <1>1 DEF IInv, Backed
  <2>3. CASE Status(o) = "Open"
    <3>1. reserve[o] >= RefundAmount(a, FALSE)
      BY <2>1, <2>2, <2>3 DEF Owed, RefundAmount, Terms, Sides
    <3>2. QED
      BY <2>3, <3>1 DEF CanRefund
  <2>4. CASE Status(o) = "Active"
    <3>1. /\ a.writer \in Wallets
          /\ o[1] \in Wallets
      BY <1>1, <2>1, <2>4, WalletsAssumption DEF IInv, Parties, Sides
    <3>2. reserve[o] >= a.terms.payout
      BY <2>1, <2>2, <2>4 DEF Owed, Terms
    <3>3. ValidSettlement(o)
      BY <1>1, <2>4 DEF IInv, Custody
    <3>4. now >= a.terms.expiresAt => CanRefund(o, a.writer, TRUE)
      BY <2>4, <3>2 DEF CanRefund, RefundAmount
    <3>5. a.writer # None
      BY <3>1, WalletsAssumption
    <3>6. ASSUME now < a.terms.expiresAt, shares[a.holder] >= a.terms.quantity, ~mint.hooked,
                 ~mint.paused, ~settlement[o].frozen, NEW fee \in Fees, fee <= a.terms.quantity
          PROVE  CanExercise(o, a.holder, fee)
      BY <2>4, <3>2, <3>3, <3>5, <3>6 DEF CanExercise, InTime, ValidMint, Terms
    <3>7. QED
      BY <2>4, <3>1, <3>4, <3>6
  <2>5. QED
    BY <2>3, <2>4
<1>2. IInv => FundsReachable
  BY <1>1 DEF FundsReachable
<1>3. QED
  BY <1>2, Inductive, PTL

\* What must have come first: an address nobody used has no settlement account, and there is
\* a policy, let alone an enabled one, only under a configured authority.
Founded ==
  /\ \A o \in Offers : Status(o) = "Absent" => settlement[o].title = "absent"
  /\ policy.version > 0 => config \in Wallets
  /\ policy.version = 0 => ~policy.enabled

\* Of a fresh address no step but create_offer makes anything.
LEMMA FreshStays ==
  ASSUME IInv, Founded, [Next]_vars, NEW o \in Offers, Status(o)' = "Absent"
  PROVE  settlement'[o].title = "absent"
<1>1. /\ TypeOK /\ \A x \in Offers : Status(x) = "Absent" => settlement[x].title = "absent"
  BY DEF IInv, Founded
<1>2. Status(o) = "Absent" /\ settlement[o].title = "absent"
  <2>1. RightStep \/ UNCHANGED agreements
    BY OthersLeaveAgreements, RewritesKeepRights
  <2>2. Status(o) = "Absent"
    BY <2>1 DEF RightStep, Status
  <2>3. QED
    BY <1>1, <2>2
<1>3. ASSUME NEW x \in Offers, NEW t \in OfferInputs, CreateOffer(x, t)
      PROVE  settlement'[o] = settlement[o]
  <2>1. x # o
    BY <1>1, <1>3 DEF CreateOffer, NewAgreement, Status, TypeOK
  <2>2. QED
    BY <1>1, <1>3, <2>1 DEF CreateOffer, TypeOK
<1>4. ASSUME NEW x \in Offers, NEW w \in Wallets, NEW fee \in Fees, Exercise(x, w, fee)
      PROVE  settlement'[o] = settlement[o]
  BY <1>1, <1>2, <1>4 DEF Exercise, CanExercise, TypeOK
<1>5. ASSUME NEW x \in Offers, NEW w \in Wallets, CleanupTerminal(x, w)
      PROVE  settlement'[o] = settlement[o]
  BY <1>1, <1>2, <1>5 DEF CleanupTerminal, CanCleanUp, Cleanable, Terminal, TypeOK
<1>6. ASSUME NEW x \in Offers,
             \/ IssuerSetsFreeze(x) \/ IssuerSeizes(x)
             \/ \E w \in Wallets : DonateShares(w, x)
      PROVE  settlement'[o] = settlement[o]
  BY <1>1, <1>2, <1>6 DEF IssuerSetsFreeze, IssuerSeizes, DonateShares, Movable, Exists, TypeOK
<1>7. ASSUME NEW x \in Offers, NEW w \in Wallets,
             \/ OwnerWithdraws(x, w) \/ OwnerCloses(x, w)
             \/ \E title \in Wallets \cup {"agreement"}, encumbered \in BOOLEAN :
                  OwnerTransfers(x, w, title, encumbered)
      PROVE  settlement'[o] = settlement[o]
  BY <1>1, <1>2, <1>7, WalletsAssumption DEF OwnerWithdraws, OwnerCloses, OwnerTransfers, TypeOK
<1>8. settlement'[o] = settlement[o]
  BY <1>3, <1>4, <1>5, <1>6, <1>7
  DEF Next, Instruction, Environment, vars, ledger, Initialize, CreateAssetPolicy,
    UpdateAssetPolicy, Activate, AcceptRequest, Refund, Tick, IssuerSetsMint, DonateUsdc
<1>9. QED
  BY <1>2, <1>8

\* The authority is named once, and the policy counts up from what a configured one wrote.
LEMMA AuthorityStep ==
  ASSUME IInv, Founded, [Next]_vars
  PROVE  /\ policy'.version > 0 => config' \in Wallets
         /\ policy'.version = 0 => ~policy'.enabled
<1>1. policy.version \in Nat /\ policy \in Policy
  BY DEF IInv, TypeOK, Policy
<1>2. ASSUME NEW w \in Wallets, Initialize(w)
      PROVE  config' \in Wallets /\ policy' = policy
  BY <1>2 DEF Initialize
<1>3. ASSUME NEW w \in Wallets, NEW t \in PolicyInputs,
             CreateAssetPolicy(w, t) \/ UpdateAssetPolicy(w, t)
      PROVE  config' \in Wallets /\ policy'.version > 0
  <2>1. config = w /\ config' = config /\ WritePolicy(t)
    BY <1>3 DEF CreateAssetPolicy, UpdateAssetPolicy, CanUpdatePolicy
  <2>2. QED
    BY <1>1, <2>1 DEF WritePolicy
<1>4. \/ \E w \in Wallets :
           \/ Initialize(w)
           \/ \E t \in PolicyInputs : CreateAssetPolicy(w, t) \/ UpdateAssetPolicy(w, t)
      \/ config' = config /\ policy' = policy
  <2> DEFINE Same == config' = config /\ policy' = policy
  <2>1. ASSUME NEW o \in Offers,
               \/ \E t \in OfferInputs : CreateOffer(o, t)
               \/ \E w \in Wallets :
                    \/ Activate(o, w)
                    \/ AcceptRequest(o, w)
                    \/ \E fee \in Fees : Exercise(o, w, fee)
                    \/ \E expired \in BOOLEAN : Refund(o, w, expired)
                    \/ CleanupTerminal(o, w)
        PROVE  Same
    BY <2>1 DEF CreateOffer, Activate, AcceptRequest, Exercise, Refund, CleanupTerminal
  <2>2. Environment => Same
    BY DEF Environment, ledger, Tick, IssuerSetsMint, IssuerSetsFreeze, IssuerSeizes,
      DonateUsdc, DonateShares, OwnerWithdraws, OwnerCloses, OwnerTransfers
  <2>3. UNCHANGED vars => Same
    BY DEF vars
  <2> HIDE DEF Same
  <2>4. QED
    BY <2>1, <2>2, <2>3, Zenon DEF Next, Instruction, Same
<1>5. QED
  BY <1>1, <1>2, <1>3, <1>4 DEF Founded

THEOREM FoundedAlways == Spec => []Founded
<1>1. Init => Founded
  BY DEF Init, Founded, FreshSettlement
<1>2. IInv /\ Founded /\ [Next]_vars => Founded'
  BY FreshStays, AuthorityStep DEF Founded
<1>3. QED
  BY <1>1, <1>2, Inductive, PTL DEF Spec

\* The configured authority can disable the policy with any disabling terms: no state of the
\* mint and nothing the authority wrote before stands in the way (update_asset_policy).
THEOREM DisableAlwaysPossible == Spec => []CanDisable
<1>1. ASSUME TypeOK, Founded, policy.version \in 1..MaxVersion - 1
      PROVE  config \in Wallets /\ \A t \in PolicyInputs : ~t.enabled => CanUpdatePolicy(config, t)
  <2>1. policy.version > 0 /\ policy.version < MaxVersion /\ config \in Wallets
    BY <1>1, BoundsAssumption DEF Founded
  <2>2. QED
    BY <2>1 DEF CanUpdatePolicy, Writable
<1>2. TypeOK /\ Founded => CanDisable
  BY <1>1 DEF CanDisable
<1>3. QED
  BY <1>2, TypeCorrect, FoundedAlways, PTL
=============================================================================
