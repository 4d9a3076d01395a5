---------------------------- MODULE PromiseProofs ----------------------------
(* Settlement implements Protection, for every choice of the constants. *)
EXTENDS SettlementProofs

\* Protection's variables as Settlement's state shows them.
Phases == [x \in Offers |-> Phase(Status(x))]
Dealt  == [x \in Offers |-> IF Status(x) = "Absent" THEN None ELSE Terms(x)]
Writer == [x \in Offers |-> agreements[x].writer]
Holder == [x \in Offers |-> agreements[x].holder]
Escrow == [x \in Offers |-> reserve[x] - surplus[x]]
Cash   == [x \in Wallets |-> usdc[x] - outside[x]]

\* Before initialize nothing is promised.
LEMMA PromiseInit == Init => Promise!Init
<1> SUFFICES ASSUME Init PROVE Promise!Init
  OBVIOUS
<1>1. \A o \in Offers : reserve[o] - surplus[o] = 0
  BY DEF Init
<1>2. ASSUME NEW w \in Wallets PROVE usdc[w] - outside[w] = InitialUsdc
  <2>1. InitialUsdc \in Nat
    BY BoundsAssumption
  <2>2. usdc[w] = InitialUsdc /\ outside[w] = 0
    BY DEF Init
  <2>3. QED
    BY <2>1, <2>2
<1>3. QED
  BY <1>1, <1>2 DEF Init, Promise!Init, Blank, Status, Phase

\* Rewriting one Agreement account shows as a move of that right alone.
LEMMA OneRight ==
  ASSUME NEW o \in Offers, NEW b \in Agreement, b.status # "Absent",
         agreements \in [Offers -> Agreement],
         agreements' = [agreements EXCEPT ![o] = b]
  PROVE  /\ Phases' = [Phases EXCEPT ![o] = Phase(b.status)]
         /\ Dealt' = [Dealt EXCEPT ![o] = b.terms]
         /\ Writer' = [Writer EXCEPT ![o] = b.writer]
         /\ Holder' = [Holder EXCEPT ![o] = b.holder]
<1>1. \A x \in Offers : agreements'[x] = IF x = o THEN b ELSE agreements[x]
  OBVIOUS
<1>2. Phases' = [Phases EXCEPT ![o] = Phase(b.status)]
  BY <1>1 DEF Phases, Phase, Status
<1>3. Dealt' = [Dealt EXCEPT ![o] = b.terms]
  BY <1>1 DEF Dealt, Status, Terms
<1>4. Writer' = [Writer EXCEPT ![o] = b.writer]
  BY <1>1 DEF Writer
<1>5. Holder' = [Holder EXCEPT ![o] = b.holder]
  BY <1>1 DEF Holder
<1>6. QED
  BY <1>2, <1>3, <1>4, <1>5

\* Moving one reserve, the donations aside, is a move of that escrow alone.
LEMMA OneEscrow ==
  ASSUME NEW o \in Offers, NEW e \in Int,
         reserve \in [Offers -> Nat], surplus \in [Offers -> Nat],
         reserve' = [reserve EXCEPT ![o] = e + surplus[o]], surplus' = surplus
  PROVE  Escrow' = [Escrow EXCEPT ![o] = e]
<1>1. ASSUME NEW x \in Offers
      PROVE  reserve'[x] - surplus'[x] = IF x = o THEN e ELSE reserve[x] - surplus[x]
  <2>1. reserve[x] \in Int /\ surplus[x] \in Int
    OBVIOUS
  <2>2. QED
    BY <2>1
<1>2. QED
  BY <1>1 DEF Escrow

\* A payment to or from one wallet, the donations aside, is a move of its cash alone.
LEMMA OneWallet ==
  ASSUME NEW w \in Wallets, NEW d \in Int,
         usdc \in [Wallets -> Nat], outside \in [Wallets -> Int],
         usdc' = [usdc EXCEPT ![w] = @ + d], outside' = outside
  PROVE  Cash' = [Cash EXCEPT ![w] = @ + d]
<1>1. ASSUME NEW x \in Wallets
      PROVE  usdc'[x] - outside'[x]
               = IF x = w THEN (usdc[x] - outside[x]) + d ELSE usdc[x] - outside[x]
  <2>1. usdc[x] \in Int /\ outside[x] \in Int
    OBVIOUS
  <2>2. QED
    BY <2>1
<1>2. QED
  BY <1>1 DEF Cash

-----------------------------------------------------------------------------
(* Each handler that moves money is the abstract step of its name *)

\* create_offer locks the creator's stake up and opens the right.
LEMMA CreateOfferOffers ==
  ASSUME IInv, NEW o \in Offers, NEW t \in OfferInputs, CreateOffer(o, t)
  PROVE  Promise!Offer(o, t)
<1> DEFINE b == NewAgreement(o[1], t)
<1>o. o[1] \in Wallets
  BY WalletsAssumption
<1>t. t \in OfferTerms /\ t.payout \in Nat /\ t.premium \in Nat /\ t.side \in Sides
  BY InputsAssumption DEF OfferTerms
<1>s. Stake(t) \in Nat
  BY <1>t DEF Stake
<1>b. b \in Agreement
  BY <1>o, <1>t, ScalarTypes DEF IInv, NewAgreement, Agreement, Statuses, Never
<1>a. /\ agreements \in [Offers -> Agreement]
      /\ agreements' = [agreements EXCEPT ![o] = b]
      /\ agreements[o].status = "Absent" /\ now < t.acceptBefore
      /\ now' = now /\ surplus' = surplus /\ outside' = outside
  BY DEF IInv, TypeOK, CreateOffer, CanCreateOffer, Status
<1>n. agreements[o].writer = None /\ agreements[o].holder = None
  BY <1>a DEF IInv, Parties, Status
<1>c. /\ reserve \in [Offers -> Nat] /\ surplus \in [Offers -> Nat]
      /\ usdc \in [Wallets -> Nat] /\ outside \in [Wallets -> Int]
  BY DEF IInv, TypeOK
<1>r. reserve[o] = surplus[o]
  <2>1. Owed(o) = 0
    BY <1>a DEF Owed, Status
  <2>2. reserve[o] = Owed(o) + surplus[o] /\ surplus[o] \in Nat
    BY <1>c DEF IInv, Backed
  <2>3. QED
    BY <2>1, <2>2
<1>1. /\ Phases' = [Phases EXCEPT ![o] = "offered"] /\ Dealt' = [Dealt EXCEPT ![o] = t]
      /\ Writer' = [Writer EXCEPT ![o] = b.writer] /\ Holder' = [Holder EXCEPT ![o] = b.holder]
  <2>1. b.status = "Open" /\ b.terms = t
    BY DEF NewAgreement
  <2> HIDE DEF b
  <2>2. QED
    BY <1>a, <1>b, <2>1, OneRight DEF Phase
<1>2. Escrow' = [Escrow EXCEPT ![o] = Stake(t)]
  <2>1. reserve' = [reserve EXCEPT ![o] = @ + Stake(t)]
    BY DEF CreateOffer
  <2>2. reserve' = [reserve EXCEPT ![o] = Stake(t) + surplus[o]]
    <3>1. reserve[o] + Stake(t) = Stake(t) + surplus[o]
      BY <1>r, <1>s, <1>c
    <3>2. QED
      BY <2>1, <3>1
  <2>3. QED
    <3>1. Stake(t) \in Int
      BY <1>s
    <3>2. QED
      BY <2>2, <3>1, <1>a, <1>c, OneEscrow
<1>3. Cash' = [Cash EXCEPT ![o[1]] = @ - Stake(t)]
  <2>1. usdc' = [usdc EXCEPT ![o[1]] = @ - Stake(t)]
    BY DEF CreateOffer
  <2>2. usdc' = [usdc EXCEPT ![o[1]] = @ + (-Stake(t))]
    BY <2>1, <1>s, <1>c, <1>o
  <2>3. Cash' = [Cash EXCEPT ![o[1]] = @ + (-Stake(t))]
    <3>1. -Stake(t) \in Int
      BY <1>s
    <3>2. QED
      BY <2>2, <3>1, <1>a, <1>c, <1>o, OneWallet
  <2>4. Cash[o[1]] \in Int
    BY <1>c, <1>o DEF Cash
  <2>5. QED
    BY <2>3, <2>4, <1>s
<1>4. /\ Phases[o] = "unborn" /\ Writer[o] = None /\ Holder[o] = None
  BY <1>a, <1>n DEF Phases, Phase, Status, Writer, Holder
<1>5. IF t.side = "Writer" THEN Writer' = [Writer EXCEPT ![o] = o[1]] /\ Holder' = Holder
                           ELSE Holder' = [Holder EXCEPT ![o] = o[1]] /\ Writer' = Writer
  <2>1. CASE t.side = "Writer"
    <3>1. b.writer = o[1] /\ b.holder = None
      BY <2>1 DEF NewAgreement
    <3>2. QED
      BY <2>1, <3>1, <1>1, <1>4 DEF Holder
  <2>2. CASE t.side = "Holder"
    <3>1. b.writer = None /\ b.holder = o[1]
      BY <2>2 DEF NewAgreement
    <3>2. QED
      BY <2>2, <3>1, <1>1, <1>4 DEF Writer
  <2>3. QED
    BY <1>t, <2>1, <2>2 DEF Sides
<1>6. QED
  BY <1>a, <1>1, <1>2, <1>3, <1>4, <1>5
  DEF Promise!Offer, Phases, Dealt, Writer, Holder, Escrow, Cash, Stake

\* What every step on an existing agreement starts from.
LEMMA Ledgers ==
  ASSUME IInv, NEW o \in Offers
  PROVE  /\ agreements \in [Offers -> Agreement] /\ agreements[o] \in Agreement
         /\ Terms(o) \in OfferTerms
         /\ Terms(o).payout \in Nat /\ Terms(o).premium \in Nat /\ Terms(o).side \in Sides
         /\ reserve \in [Offers -> Nat] /\ surplus \in [Offers -> Nat]
         /\ usdc \in [Wallets -> Nat] /\ outside \in [Wallets -> Int]
         /\ reserve[o] = Owed(o) + surplus[o]
         /\ o[1] \in Wallets
BY WalletsAssumption DEF IInv, TypeOK, Agreement, OfferTerms, Backed, Terms

\* activate takes the holder's side: the escrow is the payout already.
LEMMA ActivateTakes ==
  ASSUME IInv, NEW o \in Offers, NEW w \in Wallets, Activate(o, w)
  PROVE  Promise!Take(o, w)
<1> DEFINE b == RecordActivation(agreements[o], w)
<1>l. /\ agreements \in [Offers -> Agreement] /\ agreements[o] \in Agreement
      /\ Terms(o).payout \in Nat /\ Terms(o).premium \in Nat
      /\ reserve \in [Offers -> Nat] /\ surplus \in [Offers -> Nat]
      /\ usdc \in [Wallets -> Nat] /\ outside \in [Wallets -> Int]
      /\ reserve[o] = Owed(o) + surplus[o] /\ o[1] \in Wallets
  BY Ledgers
<1>a. /\ Status(o) = "Open" /\ Terms(o).side = "Writer"
      /\ w # o[1] /\ now < Terms(o).acceptBefore /\ Terms(o).designated \in {None, w}
      /\ agreements' = [agreements EXCEPT ![o] = b]
      /\ now' = now /\ surplus' = surplus /\ outside' = outside /\ reserve' = reserve
  BY DEF Activate, CanActivate, CheckAcceptance
<1>w. agreements[o].writer = o[1]
  BY <1>a DEF IInv, Parties, Status, Terms
<1>b. /\ b \in Agreement /\ b.status = "Active" /\ b.terms = Terms(o)
      /\ b.writer = o[1] /\ b.holder = w
  <2>1. b \in Agreement
    BY <1>l, ScalarTypes, RecordActivationType DEF IInv
  <2>2. QED
    BY <2>1, <1>l, <1>a, <1>w DEF RecordActivation, Agreement, Terms
<1> HIDE DEF b
<1>1. /\ Phases' = [Phases EXCEPT ![o] = "protected"] /\ Dealt' = [Dealt EXCEPT ![o] = Terms(o)]
      /\ Writer' = [Writer EXCEPT ![o] = o[1]] /\ Holder' = [Holder EXCEPT ![o] = w]
  <2>1. Phase(b.status) = "protected"
    BY <1>b DEF Phase
  <2>2. b \in Agreement /\ b.status # "Absent"
    BY <1>b
  <2>3. /\ Phases' = [Phases EXCEPT ![o] = Phase(b.status)]
        /\ Dealt' = [Dealt EXCEPT ![o] = b.terms]
        /\ Writer' = [Writer EXCEPT ![o] = b.writer]
        /\ Holder' = [Holder EXCEPT ![o] = b.holder]
    BY <1>a, <1>l, <2>2, OneRight
  <2>4. QED
    BY <1>b, <2>1, <2>3
<1>2. /\ Phases[o] = "offered" /\ Dealt[o] = Terms(o) /\ Writer[o] = o[1]
  BY <1>a, <1>w DEF Phases, Phase, Dealt, Writer
<1>3. Dealt' = Dealt /\ Writer' = Writer
  BY <1>1, <1>2 DEF Dealt, Writer
<1>4. Escrow' = [Escrow EXCEPT ![o] = Terms(o).payout]
  <2>1. Owed(o) = Terms(o).payout
    BY <1>a DEF Owed
  <2>2. Escrow[o] = Terms(o).payout
    BY <2>1, <1>l DEF Escrow
  <2>3. Escrow' = Escrow
    BY <1>a DEF Escrow
  <2>4. QED
    BY <2>2, <2>3 DEF Escrow
<1>5. Cash' = [Cash EXCEPT ![w] = @ - Terms(o).premium, ![o[1]] = @ + Terms(o).premium]
  <2>1. usdc' = [usdc EXCEPT ![w] = @ - Terms(o).premium, ![o[1]] = @ + Terms(o).premium]
    BY <1>w DEF Activate, Terms
  <2>2. ASSUME NEW x \in Wallets
        PROVE  usdc'[x] - outside'[x]
                 = IF x = w THEN (usdc[x] - outside[x]) - Terms(o).premium
                   ELSE IF x = o[1] THEN (usdc[x] - outside[x]) + Terms(o).premium
                   ELSE usdc[x] - outside[x]
    <3>1. usdc[x] \in Int /\ outside[x] \in Int /\ Terms(o).premium \in Int
      BY <1>l
    <3>2. usdc'[x] = IF x = w THEN usdc[x] - Terms(o).premium
                     ELSE IF x = o[1] THEN usdc[x] + Terms(o).premium ELSE usdc[x]
      BY <2>1, <1>a, <1>l
    <3>3. QED
      BY <3>1, <3>2, <1>a
  <2>3. QED
    BY <2>2, <1>a, <1>l DEF Cash
<1>6. QED
  BY <1>a, <1>1, <1>2, <1>3, <1>4, <1>5
  DEF Promise!Take, Phases, Dealt, Writer, Holder, Escrow, Cash

\* accept_request takes the writer's side: the payout comes in, the premium goes out.
LEMMA AcceptRequestTakes ==
  ASSUME IInv, NEW o \in Offers, NEW w \in Wallets, AcceptRequest(o, w)
  PROVE  Promise!Take(o, w)
<1> DEFINE b == RecordActivation(agreements[o], w)
<1>l. /\ agreements \in [Offers -> Agreement] /\ agreements[o] \in Agreement
      /\ Terms(o).payout \in Nat /\ Terms(o).premium \in Nat
      /\ reserve \in [Offers -> Nat] /\ surplus \in [Offers -> Nat]
      /\ usdc \in [Wallets -> Nat] /\ outside \in [Wallets -> Int]
      /\ reserve[o] = Owed(o) + surplus[o]
  BY Ledgers
<1>a. /\ Status(o) = "Open" /\ Terms(o).side = "Holder"
      /\ w # o[1] /\ now < Terms(o).acceptBefore /\ Terms(o).designated \in {None, w}
      /\ agreements' = [agreements EXCEPT ![o] = b]
      /\ reserve' = [reserve EXCEPT ![o] = @ + Terms(o).payout - Terms(o).premium]
      /\ usdc' = [usdc EXCEPT ![w] = @ - Terms(o).payout + Terms(o).premium]
      /\ now' = now /\ surplus' = surplus /\ outside' = outside
  BY DEF AcceptRequest, CanAcceptRequest, CheckAcceptance
<1>w. agreements[o].holder = o[1]
  BY <1>a DEF IInv, Parties, Status, Terms
<1>b. /\ b \in Agreement /\ b.status = "Active" /\ b.terms = Terms(o)
      /\ b.holder = o[1] /\ b.writer = w
  <2>1. b \in Agreement
    BY <1>l, ScalarTypes, RecordActivationType DEF IInv
  <2>2. QED
    BY <2>1, <1>l, <1>a, <1>w DEF RecordActivation, Agreement, Terms
<1> HIDE DEF b
<1>1. /\ Phases' = [Phases EXCEPT ![o] = "protected"] /\ Dealt' = [Dealt EXCEPT ![o] = Terms(o)]
      /\ Writer' = [Writer EXCEPT ![o] = w] /\ Holder' = [Holder EXCEPT ![o] = o[1]]
  <2>1. Phase(b.status) = "protected"
    BY <1>b DEF Phase
  <2>2. b \in Agreement /\ b.status # "Absent"
    BY <1>b
  <2>3. /\ Phases' = [Phases EXCEPT ![o] = Phase(b.status)]
        /\ Dealt' = [Dealt EXCEPT ![o] = b.terms]
        /\ Writer' = [Writer EXCEPT ![o] = b.writer]
        /\ Holder' = [Holder EXCEPT ![o] = b.holder]
    BY <1>a, <1>l, <2>2, OneRight
  <2>4. QED
    BY <1>b, <2>1, <2>3
<1>2. /\ Phases[o] = "offered" /\ Dealt[o] = Terms(o) /\ Holder[o] = o[1]
  BY <1>a, <1>w DEF Phases, Phase, Dealt, Holder
<1>3. Dealt' = Dealt /\ Holder' = Holder
  BY <1>1, <1>2 DEF Dealt, Holder
<1>4. Escrow' = [Escrow EXCEPT ![o] = Terms(o).payout]
  <2>1. Owed(o) = Terms(o).premium
    BY <1>a DEF Owed
  <2>2. reserve[o] + Terms(o).payout - Terms(o).premium = Terms(o).payout + surplus[o]
    BY <2>1, <1>l
  <2>3. reserve' = [reserve EXCEPT ![o] = Terms(o).payout + surplus[o]]
    BY <2>2, <1>a
  <2>4. Terms(o).payout \in Int
    BY <1>l
  <2>5. QED
    BY <2>3, <2>4, <1>a, <1>l, OneEscrow
<1>5. Cash' = [Cash EXCEPT ![w] = @ - Terms(o).payout + Terms(o).premium]
  <2>1. Terms(o).premium - Terms(o).payout \in Int /\ usdc[w] \in Int /\ Cash[w] \in Int
    BY <1>l DEF Cash
  <2>2. /\ usdc[w] - Terms(o).payout + Terms(o).premium
             = usdc[w] + (Terms(o).premium - Terms(o).payout)
        /\ Cash[w] - Terms(o).payout + Terms(o).premium
             = Cash[w] + (Terms(o).premium - Terms(o).payout)
    BY <2>1, <1>l
  <2>3. usdc' = [usdc EXCEPT ![w] = @ + (Terms(o).premium - Terms(o).payout)]
    BY <2>2, <1>a
  <2>4. Cash' = [Cash EXCEPT ![w] = @ + (Terms(o).premium - Terms(o).payout)]
    BY <2>1, <2>3, <1>a, <1>l, OneWallet
  <2>5. QED
    BY <2>2, <2>4
<1>6. QED
  BY <1>a, <1>1, <1>2, <1>3, <1>4, <1>5
  DEF Promise!Take, Phases, Dealt, Writer, Holder, Escrow, Cash

\* Paying out exactly what is owed and closing the record settles the right.
LEMMA PayingOwedSettles ==
  ASSUME IInv, NEW o \in Offers, NEW w \in Wallets,
         Status(o) # "Absent",
         agreements' = [agreements EXCEPT ![o] = agreements'[o]],
         agreements'[o] \in Agreement, agreements'[o].status # "Absent",
         agreements'[o].terms = Terms(o),
         agreements'[o].writer = agreements[o].writer,
         agreements'[o].holder = agreements[o].holder,
         Owed(o) \in Nat,
         reserve' = [reserve EXCEPT ![o] = @ - Owed(o)],
         usdc' = [usdc EXCEPT ![w] = @ + Owed(o)],
         now' = now, surplus' = surplus, outside' = outside
  PROVE  /\ Phases' = [Phases EXCEPT ![o] = Phase(agreements'[o].status)]
         /\ Escrow' = [Escrow EXCEPT ![o] = 0]
         /\ Cash' = [Cash EXCEPT ![w] = @ + Escrow[o]]
         /\ Dealt' = Dealt /\ Writer' = Writer /\ Holder' = Holder
<1>l. /\ agreements \in [Offers -> Agreement]
      /\ reserve \in [Offers -> Nat] /\ surplus \in [Offers -> Nat]
      /\ usdc \in [Wallets -> Nat] /\ outside \in [Wallets -> Int]
      /\ reserve[o] = Owed(o) + surplus[o]
  BY Ledgers
<1>1. /\ Phases' = [Phases EXCEPT ![o] = Phase(agreements'[o].status)]
      /\ Dealt' = [Dealt EXCEPT ![o] = agreements'[o].terms]
      /\ Writer' = [Writer EXCEPT ![o] = agreements'[o].writer]
      /\ Holder' = [Holder EXCEPT ![o] = agreements'[o].holder]
  BY <1>l, OneRight
<1>2. Dealt' = Dealt /\ Writer' = Writer /\ Holder' = Holder
  <2>1. Dealt[o] = agreements'[o].terms /\ Writer[o] = agreements'[o].writer /\ Holder[o] = agreements'[o].holder
    BY DEF Dealt, Writer, Holder
  <2>2. QED
    <3>1. Dealt' = Dealt
      BY <1>1, <2>1 DEF Dealt
    <3>2. Writer' = Writer
      BY <1>1, <2>1 DEF Writer
    <3>3. Holder' = Holder
      BY <1>1, <2>1 DEF Holder
    <3>4. QED
      BY <3>1, <3>2, <3>3
<1>3. Escrow[o] = Owed(o)
  BY <1>l DEF Escrow
<1>4. Escrow' = [Escrow EXCEPT ![o] = 0]
  <2>1. reserve[o] - Owed(o) = surplus[o]
    BY <1>l
  <2>2. ASSUME NEW x \in Offers
        PROVE  reserve'[x] - surplus'[x] = IF x = o THEN 0 ELSE reserve[x] - surplus[x]
    <3>1. surplus[x] \in Int /\ reserve'[x] = IF x = o THEN surplus[x] ELSE reserve[x]
      BY <1>l, <2>1
    <3>2. QED
      BY <3>1
  <2>3. QED
    BY <2>2 DEF Escrow
<1>5. Cash' = [Cash EXCEPT ![w] = @ + Escrow[o]]
  <2>1. Owed(o) \in Int
    OBVIOUS
  <2>2. Cash' = [Cash EXCEPT ![w] = @ + Owed(o)]
    BY <2>1, <1>l, OneWallet
  <2>3. QED
    BY <2>2, <1>3
<1>6. QED
  BY <1>1, <1>2, <1>4, <1>5

\* exercise delivers the right to its holder, in time.
LEMMA ExerciseDelivers ==
  ASSUME IInv, NEW o \in Offers, NEW w \in Wallets, NEW fee \in Fees, Exercise(o, w, fee)
  PROVE  Promise!Deliver(o)
<1> DEFINE net == Credited(settlement[o].amount, settlement[o].amount + Terms(o).quantity - fee)
           b == [agreements[o] EXCEPT !.status = "Exercised", !.settledAt = now,
                                      !.netReceived = net]
<1>l. agreements \in [Offers -> Agreement] /\ agreements[o] \in Agreement
      /\ Terms(o) \in OfferTerms /\ Terms(o).payout \in Nat
  BY Ledgers
<1>a. /\ Status(o) = "Active" /\ agreements[o].holder = w /\ now < Terms(o).expiresAt
      /\ agreements' = [agreements EXCEPT ![o] = b]
      /\ reserve' = [reserve EXCEPT ![o] = @ - Terms(o).payout]
      /\ usdc' = [usdc EXCEPT ![w] = @ + Terms(o).payout]
      /\ fee <= Terms(o).quantity
      /\ now' = now /\ surplus' = surplus /\ outside' = outside
  BY DEF Exercise, CanExercise, InTime, Pays
<1>n. net \in Nat
  <2>1. settlement[o].amount \in Nat /\ fee \in Nat /\ Terms(o).quantity \in Nat
    BY <1>l, InputsAssumption DEF IInv, TypeOK, SettlementAccount, OfferTerms
  <2>2. QED
    BY <2>1, <1>a DEF Credited
<1> HIDE DEF net
<1>b. /\ b \in Agreement /\ b.status = "Exercised" /\ b.terms = Terms(o)
      /\ b.writer = agreements[o].writer /\ b.holder = agreements[o].holder
  <2>1. b \in Agreement
    <3>1. now \in Int
      BY ScalarTypes DEF IInv
    <3>2. QED
      BY <1>l, <1>n, <3>1, ExercisedType
  <2>2. QED
    BY <2>1, <1>l DEF Agreement, Terms
<1> HIDE DEF b
<1>o. Owed(o) = Terms(o).payout
  BY <1>a DEF Owed
<1>1. /\ Phases' = [Phases EXCEPT ![o] = Phase(b.status)]
      /\ Escrow' = [Escrow EXCEPT ![o] = 0]
      /\ Cash' = [Cash EXCEPT ![w] = @ + Escrow[o]]
      /\ Dealt' = Dealt /\ Writer' = Writer /\ Holder' = Holder
  <2>1. /\ b.status # "Absent" /\ Status(o) # "Absent" /\ Owed(o) \in Nat
        /\ reserve' = [reserve EXCEPT ![o] = @ - Owed(o)]
        /\ usdc' = [usdc EXCEPT ![w] = @ + Owed(o)]
    BY <1>a, <1>b, <1>o, <1>l
  <2>2. agreements'[o] = b /\ agreements' = [agreements EXCEPT ![o] = agreements'[o]]
    BY <1>a, <1>l
  <2>3. QED
    BY <2>1, <2>2, <1>a, <1>b, PayingOwedSettles
<1>2. Phase(b.status) = "delivered"
  BY <1>b DEF Phase
<1>3. Phases[o] = "protected" /\ Dealt[o] = Terms(o) /\ Holder[o] = w
  BY <1>a DEF Phases, Phase, Dealt, Holder
<1>4. QED
  BY <1>1, <1>2, <1>3, <1>a DEF Promise!Deliver, Promise!Settle, Phases, Dealt, Writer, Holder, Escrow, Cash

\* cancel_offer withdraws an offer.
LEMMA CancelWithdraws ==
  ASSUME IInv, NEW o \in Offers, NEW w \in Wallets, Refund(o, w, FALSE)
  PROVE  Promise!Withdraw(o)
<1> DEFINE b == [agreements[o] EXCEPT !.status = "Cancelled", !.settledAt = now]
<1>l. agreements \in [Offers -> Agreement] /\ agreements[o] \in Agreement
      /\ Terms(o).payout \in Nat /\ Terms(o).premium \in Nat /\ Terms(o).side \in Sides
  BY Ledgers
<1>a. /\ Status(o) = "Open" /\ w = o[1]
      /\ agreements' = [agreements EXCEPT ![o] = b]
      /\ reserve' = [reserve EXCEPT ![o] = @ - RefundAmount(agreements[o], FALSE)]
      /\ usdc' = [usdc EXCEPT ![w] = @ + RefundAmount(agreements[o], FALSE)]
      /\ now' = now /\ surplus' = surplus /\ outside' = outside
  BY DEF Refund, CanRefund, Pays
<1>b. /\ b \in Agreement /\ b.status = "Cancelled" /\ b.terms = Terms(o)
      /\ b.writer = agreements[o].writer /\ b.holder = agreements[o].holder
  <2>1. now \in Int
    BY ScalarTypes DEF IInv
  <2>2. b \in Agreement
    BY <1>l, <2>1 DEF Agreement, Statuses
  <2>3. QED
    BY <2>2, <1>l DEF Agreement, Terms
<1> HIDE DEF b
<1>o. Owed(o) \in Nat /\ RefundAmount(agreements[o], FALSE) = Owed(o)
  BY <1>a, <1>l DEF Owed, RefundAmount, Terms, Status, Sides
<1>1. /\ Phases' = [Phases EXCEPT ![o] = Phase(b.status)]
      /\ Escrow' = [Escrow EXCEPT ![o] = 0]
      /\ Cash' = [Cash EXCEPT ![w] = @ + Escrow[o]]
      /\ Dealt' = Dealt /\ Writer' = Writer /\ Holder' = Holder
  <2>1. /\ b.status # "Absent" /\ Status(o) # "Absent"
        /\ reserve' = [reserve EXCEPT ![o] = @ - Owed(o)]
        /\ usdc' = [usdc EXCEPT ![w] = @ + Owed(o)]
    BY <1>a, <1>b, <1>o
  <2>2. agreements'[o] = b /\ agreements' = [agreements EXCEPT ![o] = agreements'[o]]
    BY <1>a, <1>l
  <2>3. QED
    BY <2>1, <2>2, <1>a, <1>b, <1>o, PayingOwedSettles
<1>2. Phase(b.status) = "withdrawn"
  BY <1>b DEF Phase
<1>3. Phases[o] = "offered"
  BY <1>a DEF Phases, Phase
<1>4. QED
  BY <1>1, <1>2, <1>3, <1>a DEF Promise!Withdraw, Promise!Settle, Phases, Dealt, Writer, Holder, Escrow, Cash

\* reclaim_expired lapses a right.
LEMMA ReclaimLapses ==
  ASSUME IInv, NEW o \in Offers, NEW w \in Wallets, Refund(o, w, TRUE)
  PROVE  Promise!Lapse(o)
<1> DEFINE b == [agreements[o] EXCEPT !.status = "Expired", !.settledAt = now]
<1>l. agreements \in [Offers -> Agreement] /\ agreements[o] \in Agreement
      /\ Terms(o).payout \in Nat
  BY Ledgers
<1>a. /\ Status(o) = "Active" /\ w = agreements[o].writer /\ now >= Terms(o).expiresAt
      /\ agreements' = [agreements EXCEPT ![o] = b]
      /\ reserve' = [reserve EXCEPT ![o] = @ - RefundAmount(agreements[o], TRUE)]
      /\ usdc' = [usdc EXCEPT ![w] = @ + RefundAmount(agreements[o], TRUE)]
      /\ now' = now /\ surplus' = surplus /\ outside' = outside
  BY DEF Refund, CanRefund, Terms, Pays
<1>b. /\ b \in Agreement /\ b.status = "Expired" /\ b.terms = Terms(o)
      /\ b.writer = agreements[o].writer /\ b.holder = agreements[o].holder
  <2>1. now \in Int
    BY ScalarTypes DEF IInv
  <2>2. b \in Agreement
    BY <1>l, <2>1 DEF Agreement, Statuses
  <2>3. QED
    BY <2>2, <1>l DEF Agreement, Terms
<1> HIDE DEF b
<1>o. Owed(o) \in Nat /\ RefundAmount(agreements[o], TRUE) = Owed(o)
  BY <1>a, <1>l DEF Owed, RefundAmount, Terms, Status
<1>1. /\ Phases' = [Phases EXCEPT ![o] = Phase(b.status)]
      /\ Escrow' = [Escrow EXCEPT ![o] = 0]
      /\ Cash' = [Cash EXCEPT ![w] = @ + Escrow[o]]
      /\ Dealt' = Dealt /\ Writer' = Writer /\ Holder' = Holder
  <2>1. /\ b.status # "Absent" /\ Status(o) # "Absent"
        /\ reserve' = [reserve EXCEPT ![o] = @ - Owed(o)]
        /\ usdc' = [usdc EXCEPT ![w] = @ + Owed(o)]
    BY <1>a, <1>b, <1>o
  <2>2. agreements'[o] = b /\ agreements' = [agreements EXCEPT ![o] = agreements'[o]]
    BY <1>a, <1>l
  <2>3. QED
    BY <2>1, <2>2, <1>a, <1>b, <1>o, PayingOwedSettles
<1>2. Phase(b.status) = "lapsed"
  BY <1>b DEF Phase
<1>3. Phases[o] = "protected" /\ Dealt[o] = Terms(o) /\ Writer[o] = w
  BY <1>a DEF Phases, Phase, Dealt, Writer
<1>4. QED
  BY <1>1, <1>2, <1>3, <1>a DEF Promise!Lapse, Promise!Settle, Phases, Dealt, Writer, Holder, Escrow, Cash

-----------------------------------------------------------------------------
(* Everything else is invisible *)

\* The clock passes.
LEMMA TickPasses == IInv /\ Tick => Promise!Pass
<1> SUFFICES ASSUME IInv, Tick PROVE Promise!Pass
  OBVIOUS
<1>1. now \in Int /\ MaxTime \in Int /\ now < MaxTime /\ now' = now + 1
  BY ScalarTypes, BoundsAssumption DEF IInv, Tick
<1>2. now' \in now + 1 .. MaxTime
  BY <1>1
<1>3. UNCHANGED ledger
  BY DEF Tick
<1>4. QED
  BY <1>2, <1>3 DEF Promise!Pass, ledger, Status, Terms

\* A cleanup sweeps donations and nothing else: escrow and cash stay what they were.
LEMMA CleanupInvisible ==
  ASSUME IInv, NEW o \in Offers, NEW w \in Wallets, CleanupTerminal(o, w)
  PROVE  Escrow' = Escrow /\ Cash' = Cash
<1>l. /\ reserve \in [Offers -> Nat] /\ surplus \in [Offers -> Nat]
      /\ usdc \in [Wallets -> Nat] /\ outside \in [Wallets -> Int]
  BY DEF IInv, TypeOK
<1>a. /\ reserve' = [reserve EXCEPT ![o] = @ - reserve[o]]
      /\ surplus' = [surplus EXCEPT ![o] = @ - reserve[o]]
      /\ usdc' = [usdc EXCEPT ![w] = @ + reserve[o]]
      /\ outside' = [outside EXCEPT ![w] = @ + reserve[o]]
  BY DEF CleanupTerminal, Pays
<1>1. ASSUME NEW x \in Offers PROVE reserve'[x] - surplus'[x] = reserve[x] - surplus[x]
  BY <1>l, <1>a
<1>2. ASSUME NEW x \in Wallets PROVE usdc'[x] - outside'[x] = usdc[x] - outside[x]
  BY <1>l, <1>a
<1>3. QED
  BY <1>1, <1>2 DEF Escrow, Cash

\* A donation is outside the escrow and the cash alike.
LEMMA DonationInvisible ==
  ASSUME IInv, NEW o \in Offers, NEW w \in Wallets, DonateUsdc(w, o)
  PROVE  Escrow' = Escrow /\ Cash' = Cash
<1>l. /\ reserve \in [Offers -> Nat] /\ surplus \in [Offers -> Nat]
      /\ usdc \in [Wallets -> Nat] /\ outside \in [Wallets -> Int]
  BY DEF IInv, TypeOK
<1>a. /\ reserve' = [reserve EXCEPT ![o] = @ + 1]
      /\ surplus' = [surplus EXCEPT ![o] = @ + 1]
      /\ usdc' = [usdc EXCEPT ![w] = @ - 1]
      /\ outside' = [outside EXCEPT ![w] = @ - 1]
  BY DEF DonateUsdc
<1>1. ASSUME NEW x \in Offers PROVE reserve'[x] - surplus'[x] = reserve[x] - surplus[x]
  BY <1>l, <1>a
<1>2. ASSUME NEW x \in Wallets PROVE usdc'[x] - outside'[x] = usdc[x] - outside[x]
  BY <1>l, <1>a
<1>3. QED
  BY <1>1, <1>2 DEF Escrow, Cash

\* A step that leaves agreements, escrow and cash alone is a stutter of the promise.
LEMMA Invisible ==
  ASSUME now' = now, agreements' = agreements, Escrow' = Escrow, Cash' = Cash
  PROVE  UNCHANGED Promise!vars
BY DEF Promise!vars, Escrow, Cash, Status, Terms

\* Every step of the program or its environment is a step of the promise or a stutter.
LEMMA PromiseStep == IInv /\ [Next]_vars => [Promise!Next]_(Promise!vars)
<1> SUFFICES ASSUME IInv, [Next]_vars PROVE [Promise!Next]_(Promise!vars)
  OBVIOUS
<1>1. ASSUME NEW o \in Offers, NEW t \in OfferInputs, CreateOffer(o, t)
      PROVE  Promise!Next
  BY <1>1, CreateOfferOffers DEF Promise!Next
<1>2. ASSUME NEW o \in Offers, NEW w \in Wallets, Activate(o, w) \/ AcceptRequest(o, w)
      PROVE  Promise!Next
  BY <1>2, ActivateTakes, AcceptRequestTakes DEF Promise!Next
<1>3. ASSUME NEW o \in Offers, NEW w \in Wallets, NEW fee \in Fees, Exercise(o, w, fee)
      PROVE  Promise!Next
  BY <1>3, ExerciseDelivers DEF Promise!Next
<1>4. ASSUME NEW o \in Offers, NEW w \in Wallets, NEW expired \in BOOLEAN, Refund(o, w, expired)
      PROVE  Promise!Next
  <2>1. CASE expired = TRUE
    BY <1>4, <2>1, ReclaimLapses DEF Promise!Next
  <2>2. CASE expired = FALSE
    BY <1>4, <2>2, CancelWithdraws DEF Promise!Next
  <2>3. QED
    BY <2>1, <2>2
<1>5. ASSUME NEW o \in Offers, NEW w \in Wallets, CleanupTerminal(o, w)
      PROVE  UNCHANGED Promise!vars
  BY <1>5, CleanupInvisible, Invisible DEF CleanupTerminal
<1>6. ASSUME NEW o \in Offers, NEW w \in Wallets, DonateUsdc(w, o)
      PROVE  UNCHANGED Promise!vars
  BY <1>6, DonationInvisible, Invisible DEF DonateUsdc
<1>7. CASE Tick
  BY <1>7, TickPasses DEF Promise!Next
<1>8. CASE UNCHANGED <<now, agreements, reserve, surplus, usdc, outside>>
  <2>1. Escrow' = Escrow /\ Cash' = Cash
    BY <1>8 DEF Escrow, Cash
  <2>2. QED
    BY <1>8, <2>1, Invisible
<1>9. QED
  BY <1>1, <1>2, <1>3, <1>4, <1>5, <1>6, <1>7, <1>8
  DEF Next, Instruction, Environment, vars, ledger, Initialize, CreateAssetPolicy,
    UpdateAssetPolicy, IssuerSetsMint, IssuerSetsFreeze, IssuerSeizes, DonateShares,
    OwnerWithdraws, OwnerCloses, OwnerTransfers

\* The program implements the promise: whatever the wallets, the authority, the issuer and
\* donors do, USDC moves between the parties exactly as their deal says, and only once.
THEOREM PromiseKept == Spec => KeepsPromise
<1>1. QED
  BY PromiseInit, PromiseStep, Inductive, PTL DEF Spec, KeepsPromise, Promise!Spec
=============================================================================
