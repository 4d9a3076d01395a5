----------------------------- MODULE PlanProofs ------------------------------
(***************************************************************************)
(* What the browser decides about an agreement, and what the form of a new *)
(* offer promises, agrees with the program for every choice of constants.  *)
(***************************************************************************)
EXTENDS Terms, SettlementProofs

\* The types that the comparisons of this module need of one agreement.
LEMMA AgreementTypes ==
  ASSUME IInv, NEW o \in Offers
  PROVE  /\ agreements[o] \in Agreement /\ agreements[o].terms \in OfferTerms
         /\ Status(o) \in Statuses /\ Terms(o).side \in Sides
         /\ Terms(o).payout \in Nat /\ Terms(o).premium \in Nat
         /\ o[1] \in Wallets /\ o[1] # None
BY WalletsAssumption DEF IInv, TypeOK, Agreement, OfferTerms, Status, Terms

-----------------------------------------------------------------------------
(* What can be built is accepted *)

\* buildAction's creation checks are create_offer's, but for the accounts of an address
\* nobody used, which are absent.
LEMMA CreateAccepted ==
  ASSUME IInv, Founded, NEW o \in Offers, NEW w \in Wallets, NEW t \in OfferInputs,
         BuildCreate(o, w, t)
  PROVE  CanCreateOffer(o, t)
<1>1. policy.version > 0 /\ config # None
  BY WalletsAssumption DEF BuildCreate, PolicyPermits, Founded
<1>2. settlement[o].title = "absent"
  BY DEF BuildCreate, Founded
<1>3. Admit(t.expiresAt) /\ ValidMint(TRUE)
  BY DEF BuildCreate, PolicyPermits, MintUsable, Admit, ValidMint
<1>4. QED
  BY <1>1, <1>2, <1>3 DEF BuildCreate, CanCreateOffer

LEMMA ActivateAccepted ==
  ASSUME IInv, NEW o \in Offers, NEW w \in Wallets, BuildActivate(o, w)
  PROVE  IF Terms(o).side = "Holder" THEN CanAcceptRequest(o, w) ELSE CanActivate(o, w)
<1>1. Terms(o).side \in Sides
  BY AgreementTypes
<1>2. Admit(Terms(o).expiresAt) /\ ValidMint(TRUE)
  BY DEF BuildActivate, PolicyPermits, MintUsable, Admit, ValidMint
<1>3. CheckAcceptance(o, Terms(o).side, w)
  BY DEF BuildActivate, CheckAcceptance
<1>4. CASE Terms(o).side = "Holder"
  BY <1>2, <1>3, <1>4 DEF BuildActivate, RequiredReserve, CanAcceptRequest
<1>5. CASE Terms(o).side = "Writer"
  BY <1>2, <1>3, <1>5 DEF BuildActivate, RequiredReserve, CanActivate
<1>6. QED
  BY <1>1, <1>4, <1>5 DEF Sides

\* A delivery needs, beyond buildAction's checks, an unfrozen account.
LEMMA ExerciseAccepted ==
  ASSUME IInv, NEW o \in Offers, NEW w \in Wallets, BuildExercise(o, w), ~settlement[o].frozen
  PROVE  CanExercise(o, w, 0)
<1>1. /\ Status(o) = "Active" /\ agreements[o].holder = w /\ reserve[o] >= Terms(o).payout
      /\ InTime(Terms(o)) /\ shares[w] >= Terms(o).quantity
  BY DEF BuildExercise, RequiredReserve, InTime
<1>2. agreements[o].writer # None
  BY <1>1, WalletsAssumption, AgreementTypes DEF IInv, Parties, Sides, Terms
<1>3. ValidSettlement(o)
  BY <1>1 DEF IInv, Custody
<1>4. ValidMint(FALSE) /\ ~mint.paused
  BY DEF BuildExercise, MintUsable, ValidMint
<1>5. 0 <= Terms(o).quantity
  BY DEF IInv, TypeOK, Agreement, OfferTerms, Terms
<1>6. QED
  BY <1>1, <1>2, <1>3, <1>4, <1>5 DEF CanExercise

LEMMA RefundAccepted ==
  ASSUME IInv, NEW o \in Offers, NEW w \in Wallets, NEW op \in {"cancel", "reclaim"},
         BuildRefund(o, w, op)
  PROVE  CanRefund(o, w, op = "reclaim")
<1>1. CASE op = "cancel"
  <2>1. /\ Status(o) = "Open" /\ w = o[1]
        /\ reserve[o] >= RefundAmount(agreements[o], FALSE)
    BY <1>1 DEF BuildRefund, RefundOwner, RequiredReserve, RefundAmount, Terms
  <2>2. QED
    BY <1>1, <2>1 DEF CanRefund
<1>2. CASE op = "reclaim"
  <2>1. /\ Status(o) = "Active" /\ w = agreements[o].writer /\ now >= Terms(o).expiresAt
        /\ reserve[o] >= RefundAmount(agreements[o], TRUE)
    BY <1>2 DEF BuildRefund, RefundOwner, RequiredReserve, RefundAmount, Terms
  <2>2. QED
    BY <1>2, <2>1 DEF CanRefund, Terms
<1>3. QED
  BY <1>1, <1>2

LEMMA CleanupAccepted ==
  ASSUME NEW o \in Offers, NEW w \in Wallets, BuildRefund(o, w, "cleanup"),
         ~settlement[o].encumbered
  PROVE  CanCleanUp(o, w)
BY DEF BuildRefund, RefundOwner, CanCleanUp, Cleanable, Beneficiary, GivesUp, ValidSettlement

\* Whatever buildAction agrees to build the program accepts, if nothing moves in between:
\* every check of the five handlers and of the cleanup is either one of buildAction's or
\* follows from what is invariant of the accounts.
THEOREM PlansAccepted == Spec => []PlanAccepted
<1>1. ASSUME IInv, Founded, NEW o \in Offers, NEW w \in Wallets, NEW op \in Operations,
             NEW t \in IF op = "create" THEN OfferInputs ELSE {Terms(o)},
             CanBuild(o, w, op, t),
             op = "exercise" => ~settlement[o].frozen,
             op = "cleanup" => ~settlement[o].encumbered
      PROVE  Accepts(o, w, op, t)
  <2>1. CASE op = "create"
    <3>1. t \in OfferInputs /\ BuildCreate(o, w, t)
      BY <1>1, <2>1 DEF CanBuild
    <3>2. o[1] = w /\ CanCreateOffer(o, t)
      BY <1>1, <3>1, CreateAccepted DEF BuildCreate
    <3>3. QED
      BY <2>1, <3>2 DEF Accepts
  <2>2. CASE op = "activate"
    <3>1. BuildActivate(o, w)
      BY <1>1, <2>2 DEF CanBuild
    <3>2. QED
      BY <1>1, <2>2, <3>1, ActivateAccepted DEF Accepts
  <2>3. CASE op = "exercise"
    <3>1. BuildExercise(o, w) /\ ~settlement[o].frozen
      BY <1>1, <2>3 DEF CanBuild
    <3>2. 0 \in Fees /\ CanExercise(o, w, 0)
      BY <1>1, <3>1, ExerciseAccepted, InputsAssumption
    <3>3. QED
      BY <2>3, <3>2 DEF Accepts
  <2>4. CASE op = "cancel"
    <3>1. BuildRefund(o, w, op)
      BY <1>1, <2>4 DEF CanBuild
    <3>2. CanRefund(o, w, FALSE)
      BY <1>1, <2>4, <3>1, RefundAccepted
    <3>3. QED
      BY <2>4, <3>2 DEF Accepts
  <2>5. CASE op = "reclaim"
    <3>1. BuildRefund(o, w, op)
      BY <1>1, <2>5 DEF CanBuild
    <3>2. CanRefund(o, w, TRUE)
      BY <1>1, <2>5, <3>1, RefundAccepted
    <3>3. QED
      BY <2>5, <3>2 DEF Accepts
  <2>6. CASE op = "cleanup"
    <3>1. BuildRefund(o, w, "cleanup") /\ ~settlement[o].encumbered
      BY <1>1, <2>6 DEF CanBuild
    <3>2. CanCleanUp(o, w)
      BY <3>1, CleanupAccepted
    <3>3. QED
      BY <2>6, <3>2 DEF Accepts
  <2>7. QED
    BY <1>1, <2>1, <2>2, <2>3, <2>4, <2>5, <2>6 DEF Operations
<1>2. IInv /\ Founded => PlanAccepted
  BY <1>1 DEF PlanAccepted
<1>3. QED
  BY <1>2, Inductive, FoundedAlways, PTL

-----------------------------------------------------------------------------
(* What is accepted is offered and can be built *)

\* An acceptance the program would take is on the panel, in the offer list and built.
LEMMA AcceptanceOffered ==
  ASSUME IInv, Founded, NEW o \in Offers, NEW w \in Wallets,
         IF Terms(o).side = "Holder" THEN CanAcceptRequest(o, w) ELSE CanActivate(o, w)
  PROVE  /\ PanelOffers(o, w, "activate", agreements[o], now, TRUE, None) /\ BuildActivate(o, w)
         /\ OnOffer(o, agreements[o], now) /\ EligibleFor(o, w, agreements[o])
<1> DEFINE t == Terms(o)
<1>t. /\ t.side \in Sides /\ policy.version \in Nat /\ policy \in Policy
      /\ now \in Nat /\ t.acceptBefore \in Int /\ t.expiresAt \in Int
  BY AgreementTypes, ScalarTypes DEF IInv, TypeOK, OfferTerms, Terms
<1>1. CheckAcceptance(o, t.side, w) /\ Admit(t.expiresAt) /\ ValidMint(TRUE)
  BY <1>t DEF CanAcceptRequest, CanActivate, Sides
<1>2. /\ reserve[o] >= RequiredReserve(o)
      /\ usdc[w] >= IF t.side = "Holder" THEN t.payout ELSE t.premium
  BY <1>1 DEF CanAcceptRequest, CanActivate, RequiredReserve, CheckAcceptance
<1>3. policy.version > 0
  BY <1>t, <1>1 DEF Admit, Founded
<1>4. now < policy.maxExpiry
  <2>1. t.acceptBefore <= t.expiresAt
    BY <1>1 DEF IInv, Timeline, CheckAcceptance, Status, Terms
  <2>2. QED
    BY <1>t, <1>1, <2>1 DEF Admit, CheckAcceptance, Policy
<1>5. MintUsable(TRUE) /\ ServerAdmits /\ PolicyPermits(t.expiresAt)
  BY <1>1, <1>3, <1>4 DEF Admit, ValidMint, MintUsable, ServerAdmits, PolicyPermits
<1>6. BuildActivate(o, w)
  BY <1>1, <1>2, <1>5 DEF BuildActivate, CheckAcceptance
<1>7. PanelOffers(o, w, "activate", agreements[o], now, TRUE, None) /\ EligibleFor(o, w, agreements[o])
  BY <1>t, <1>1, <1>2 DEF PanelOffers, AgreementAction, MadeFrom, RequiredUsdc, EligibleFor,
    CheckAcceptance, Status, Terms, Never
<1>8. OnOffer(o, agreements[o], now)
  BY <1>t, <1>1, <1>2 DEF OnOffer, RequiredReserve, CheckAcceptance, Status, Terms
<1>9. QED
  BY <1>6, <1>7, <1>8

LEMMA DeliveryOffered ==
  ASSUME now \in Nat, NEW o \in Offers, NEW w \in Wallets, NEW fee \in Fees, CanExercise(o, w, fee)
  PROVE  PanelOffers(o, w, "exercise", agreements[o], now, TRUE, None) /\ BuildExercise(o, w)
BY DEF CanExercise, InTime, ValidMint, MintUsable, PanelOffers, AgreementAction, MadeFrom,
  BuildExercise, RequiredReserve, Status, Terms, Never

LEMMA RefundOffered ==
  ASSUME now \in Nat, NEW o \in Offers, NEW w \in Wallets, NEW op \in {"cancel", "reclaim"},
         CanRefund(o, w, op = "reclaim")
  PROVE  PanelOffers(o, w, op, agreements[o], now, TRUE, None) /\ BuildRefund(o, w, op)
<1>1. CASE op = "cancel"
  BY <1>1 DEF CanRefund, RefundAmount, PanelOffers, AgreementAction, MadeFrom, BuildRefund,
    RefundOwner, RequiredReserve, Status, Terms, Never
<1>2. CASE op = "reclaim"
  BY <1>2 DEF CanRefund, RefundAmount, PanelOffers, AgreementAction, MadeFrom, BuildRefund,
    RefundOwner, RequiredReserve, Status, Terms, Never
<1>3. QED
  BY <1>1, <1>2

LEMMA CleanupOffered ==
  ASSUME NEW o \in Offers, NEW w \in Wallets, CanCleanUp(o, w)
  PROVE  PanelOffers(o, w, "cleanup", agreements[o], now, TRUE, None) /\ BuildRefund(o, w, "cleanup")
BY DEF CanCleanUp, Cleanable, Beneficiary, Terminal, PanelOffers, AgreementAction, MadeFrom,
  BuildRefund, RefundOwner, Status

\* What the panel offers a wallet that never tried anything it offers after any attempt, but
\* for one that is undecided and competes, or that has not had the effect it is said to have.
LEMMA AttemptsStandAside ==
  ASSUME NEW o \in Offers, NEW w \in Wallets, NEW op \in Operations \ {"create"},
         NEW last \in LastAttempts, PanelOffers(o, w, op, agreements[o], now, TRUE, None)
  PROVE  \/ PanelOffers(o, w, op, agreements[o], now, TRUE, last)
         \/ /\ last # None
            /\ \/ last.status \in Undecided /\ MadeFrom[last.operation] = MadeFrom[op]
               \/ last.status \in Achieved /\ Status(o) \notin MadeInto[last.operation]
<1> DEFINE a == agreements[o]
<1>1. CASE ~AgreementAction(last, a)
  BY <1>1 DEF PanelOffers
<1>2. CASE AgreementAction(last, a)
  <2>1. /\ last # None /\ last.operation \in Operations \ {"create"}
        /\ a.status \in MadeFrom[last.operation]
        /\ last.status \in Undecided \/ (last.status \in Achieved /\ last.operation # "cleanup")
    BY <1>2 DEF AgreementAction, LastAttempts
  <2>2. a.status \in MadeFrom[op]
    BY DEF PanelOffers
  <2>3. MadeFrom[last.operation] = MadeFrom[op]
    BY <2>1, <2>2 DEF MadeFrom, Operations, Terminal
  <2>4. last.operation # "cleanup" => Status(o) \notin MadeInto[last.operation]
    BY <2>1 DEF MadeFrom, MadeInto, Operations, Terminal, Status
  <2> QED BY <2>1, <2>3, <2>4
<1> QED BY <1>1, <1>2

\* Whatever the program would pay or let a wallet accept now has a plan, with the policy
\* disabled and the mint unsupported for a refund, and an enabled button on a current row,
\* unless an attempt whose fate is open competes with it.
THEOREM RightsAlwaysOffered == Spec => []RightsOffered
<1>1. ASSUME IInv, Founded, NEW o \in Offers, NEW w \in Wallets,
             NEW op \in Operations \ {"create"}, Accepts(o, w, op, Terms(o))
      PROVE  /\ PanelOffers(o, w, op, agreements[o], now, TRUE, None) /\ CanBuild(o, w, op, Terms(o))
             /\ op = "activate" =>
                  OnOffer(o, agreements[o], now) /\ EligibleFor(o, w, agreements[o])
  <2>0. now \in Nat
    BY <1>1 DEF IInv, TypeOK
  <2>1. CASE op = "activate"
    <3>1. IF Terms(o).side = "Holder" THEN CanAcceptRequest(o, w) ELSE CanActivate(o, w)
      BY <1>1, <2>1 DEF Accepts
    <3>2. QED
      BY <1>1, <2>1, <3>1, AcceptanceOffered DEF CanBuild
  <2>2. CASE op = "exercise"
    <3>1. PICK fee \in Fees : CanExercise(o, w, fee)
      BY <1>1, <2>2 DEF Accepts
    <3>2. QED
      BY <2>0, <2>2, <3>1, DeliveryOffered DEF CanBuild
  <2>3. CASE op = "cancel"
    <3>1. CanRefund(o, w, FALSE)
      BY <1>1, <2>3 DEF Accepts
    <3>2. QED
      BY <2>0, <2>3, <3>1, RefundOffered DEF CanBuild
  <2>4. CASE op = "reclaim"
    <3>1. CanRefund(o, w, TRUE)
      BY <1>1, <2>4 DEF Accepts
    <3>2. QED
      BY <2>0, <2>4, <3>1, RefundOffered DEF CanBuild
  <2>5. CASE op = "cleanup"
    <3>1. CanCleanUp(o, w)
      BY <1>1, <2>5 DEF Accepts
    <3>2. QED
      BY <2>5, <3>1, CleanupOffered DEF CanBuild
  <2>6. QED
    BY <1>1, <2>1, <2>2, <2>3, <2>4, <2>5 DEF Operations
<1>2. IInv /\ Founded => RightsOffered
  BY <1>1, AttemptsStandAside DEF RightsOffered
<1>3. QED
  BY <1>2, Inductive, FoundedAlways, PTL

-----------------------------------------------------------------------------
(* What the panel says of a wallet's money is so *)

\* A displayed protection can be exercised, unless the issuer or the holder's own balance
\* stands in the way.
LEMMA ProtectedTrue ==
  ASSUME IInv, NEW o \in Offers, NEW w \in Wallets,
         Perspective(o, w, agreements[o], now) = "protected"
  PROVE  \/ ~MintUsable(FALSE) \/ settlement[o].frozen \/ shares[w] < Terms(o).quantity
         \/ Accepts(o, w, "exercise", Terms(o))
<1> SUFFICES ASSUME MintUsable(FALSE), ~settlement[o].frozen, ~(shares[w] < Terms(o).quantity)
             PROVE  Accepts(o, w, "exercise", Terms(o))
  OBVIOUS
<1>1. Lifecycle(agreements[o], now) = "active" /\ agreements[o].holder = w
  BY DEF Perspective
<1>2. Status(o) = "Active" /\ now < Terms(o).expiresAt
  BY <1>1 DEF Lifecycle, Status, Terms
<1>3. shares[w] >= Terms(o).quantity
  BY DEF IInv, TypeOK, Agreement, OfferTerms, Terms
<1>4. reserve[o] >= RequiredReserve(o)
  BY <1>2, AgreementTypes DEF IInv, TypeOK, Backed, Owed, RequiredReserve
<1>5. BuildExercise(o, w)
  BY <1>1, <1>2, <1>3, <1>4 DEF BuildExercise
<1>6. 0 \in Fees /\ CanExercise(o, w, 0)
  BY <1>5, ExerciseAccepted, InputsAssumption
<1>7. QED
  BY <1>6 DEF Accepts

\* Displayed recoverable or reclaimable USDC can be had at once.
LEMMA RefundTrue ==
  ASSUME IInv, NEW o \in Offers, NEW w \in Wallets
  PROVE  LET says == Perspective(o, w, agreements[o], now) IN
         /\ says = "recoverable" => Accepts(o, w, "cancel", Terms(o))
         /\ says = "reclaimable" => Accepts(o, w, "reclaim", Terms(o))
<1> DEFINE says == Perspective(o, w, agreements[o], now)
<1>t. now \in Int /\ Terms(o).expiresAt \in Int
  BY AgreementTypes, ScalarTypes DEF IInv, OfferTerms, Terms
<1>1. ASSUME says = "recoverable" PROVE Accepts(o, w, "cancel", Terms(o))
  <2>1. Status(o) = "Open" /\ w = o[1]
    BY <1>1 DEF Perspective, Lifecycle, Status
  <2>2. reserve[o] >= RefundAmount(agreements[o], FALSE)
    BY <2>1, AgreementTypes DEF IInv, TypeOK, Backed, Owed, RefundAmount, Terms, Sides
  <2>3. QED
    BY <2>1, <2>2 DEF Accepts, CanRefund
<1>2. ASSUME says = "reclaimable" PROVE Accepts(o, w, "reclaim", Terms(o))
  <2>1. Status(o) = "Active" /\ agreements[o].writer = w /\ ~(now < Terms(o).expiresAt)
    BY <1>2 DEF Perspective, Lifecycle, Status, Terms
  <2>2. reserve[o] >= RefundAmount(agreements[o], TRUE)
    BY <2>1, AgreementTypes DEF IInv, TypeOK, Backed, Owed, RefundAmount, Terms
  <2>3. now >= Terms(o).expiresAt
    BY <1>t, <2>1
  <2>4. QED
    BY <2>1, <2>2, <2>3 DEF Accepts, CanRefund, Terms
<1>3. QED
  BY <1>1, <1>2

\* USDC said to be paid or returned has left the reserve, which holds donations at most.
LEMMA SettledTrue ==
  ASSUME IInv, NEW o \in Offers, NEW w \in Wallets,
         Perspective(o, w, agreements[o], now) \in {"paid", "returned"}
  PROVE  reserve[o] = surplus[o]
<1>1. Status(o) \in Terminal
  BY DEF Perspective, Status, Terminal
<1>2. Owed(o) = 0
  BY <1>1 DEF Owed, Terminal
<1>3. QED
  BY <1>2 DEF IInv, TypeOK, Backed

\* What GET /offers lists for a wallet that has the USDC has an enabled button on its panel.
LEMMA ListedCanAccept ==
  ASSUME IInv, NEW o \in Offers, NEW w \in Wallets,
         OnOffer(o, agreements[o], now), EligibleFor(o, w, agreements[o]),
         usdc[w] >= RequiredUsdc(agreements[o])
  PROVE  PanelOffers(o, w, "activate", agreements[o], now, TRUE, None)
<1>1. now \in Nat /\ agreements[o].terms.acceptBefore \in Int
  BY AgreementTypes, ScalarTypes DEF IInv, TypeOK, OfferTerms
<1>2. QED
  BY <1>1 DEF OnOffer, EligibleFor, PanelOffers, AgreementAction, MadeFrom, Never

\* Every existing agreement is listed under exactly one lifecycle, the one its badge shows.
LEMMA ListedOnce ==
  ASSUME IInv, NEW o \in Offers, Status(o) # "Absent"
  PROVE  {l \in Lifecycles : Listed(l, agreements[o], now)}
           = {IF Lifecycle(agreements[o], now) = "closed" THEN Closed[Status(o)]
              ELSE IF Lifecycle(agreements[o], now) = "awaiting-reclaim" THEN "expired"
              ELSE Lifecycle(agreements[o], now)}
<1> DEFINE a == agreements[o]
           shown == IF Lifecycle(a, now) = "closed" THEN Closed[Status(o)]
                    ELSE IF Lifecycle(a, now) = "awaiting-reclaim" THEN "expired"
                    ELSE Lifecycle(a, now)
<1>1. /\ now \in Int /\ a.terms.acceptBefore \in Int /\ a.terms.expiresAt \in Int
      /\ a.status = Status(o)
  BY AgreementTypes, ScalarTypes DEF IInv, OfferTerms, Status
<1>2. Status(o) \in {"Open", "Active"} \cup Terminal
  BY AgreementTypes DEF Statuses, Terminal
<1>3. shown \in Lifecycles
  BY <1>1, <1>2 DEF Lifecycle, Lifecycles, Closed, Terminal
<1>4. ASSUME NEW l \in Lifecycles PROVE Listed(l, a, now) <=> l = shown
  <2>0. /\ l = "available" => (Listed(l, a, now) <=> a.status = "Open" /\ a.terms.acceptBefore > now)
        /\ l = "acceptance-ended" =>
             (Listed(l, a, now) <=> a.status = "Open" /\ a.terms.acceptBefore <= now)
        /\ l = "active" => (Listed(l, a, now) <=> a.status = "Active" /\ a.terms.expiresAt > now)
        /\ l = "expired" =>
             (Listed(l, a, now) <=> \/ a.status = "Expired"
                                    \/ a.status = "Active" /\ a.terms.expiresAt <= now)
        /\ l = "exercised" => (Listed(l, a, now) <=> a.status = "Exercised")
        /\ l = "cancelled" => (Listed(l, a, now) <=> a.status = "Cancelled")
    BY DEF Listed
  <2>1. CASE Status(o) = "Open"
    BY <1>1, <2>0, <2>1 DEF Lifecycle, Lifecycles
  <2>2. CASE Status(o) = "Active"
    BY <1>1, <2>0, <2>2 DEF Lifecycle, Lifecycles
  <2>3. CASE Status(o) \in Terminal
    BY <1>1, <2>0, <2>3 DEF Lifecycle, Lifecycles, Closed, Terminal
  <2>4. QED
    BY <1>2, <2>1, <2>2, <2>3
<1> HIDE DEF shown
<1>5. {l \in Lifecycles : Listed(l, a, now)} = {shown}
  BY <1>3, <1>4
<1>6. QED
  BY <1>5 DEF shown

\* What the panel and the lists say on a current row and clock is what the program will do.
THEOREM PanelSaysTrue == Spec => []SaysTrue
<1>1. ASSUME IInv, NEW o \in Offers, NEW w \in Wallets
      PROVE  LET says == Perspective(o, w, agreements[o], now) IN
             /\ says = "protected" =>
                  \/ ~MintUsable(FALSE) \/ settlement[o].frozen \/ shares[w] < Terms(o).quantity
                  \/ Accepts(o, w, "exercise", Terms(o))
             /\ says = "recoverable" => Accepts(o, w, "cancel", Terms(o))
             /\ says = "reclaimable" => Accepts(o, w, "reclaim", Terms(o))
             /\ says \in {"paid", "returned"} => reserve[o] = surplus[o]
             /\ /\ OnOffer(o, agreements[o], now) /\ EligibleFor(o, w, agreements[o])
                /\ usdc[w] >= RequiredUsdc(agreements[o])
                => PanelOffers(o, w, "activate", agreements[o], now, TRUE, None)
             /\ Status(o) # "Absent" =>
                  {l \in Lifecycles : Listed(l, agreements[o], now)}
                    = {IF Lifecycle(agreements[o], now) = "closed" THEN Closed[Status(o)]
                       ELSE IF Lifecycle(agreements[o], now) = "awaiting-reclaim" THEN "expired"
                       ELSE Lifecycle(agreements[o], now)}
  BY <1>1, ProtectedTrue, RefundTrue, SettledTrue, ListedCanAccept, ListedOnce
<1>2. IInv => SaysTrue
  BY <1>1 DEF SaysTrue
<1>3. QED
  BY <1>2, Inductive, PTL

-----------------------------------------------------------------------------
(* The form of a new offer *)

\* A premium given as a rate is the least whole amount that is not below the rate: at
\* least one unit, at most the payout (premiumForRate in offers/terms.ts).
THEOREM PremiumRoundsUp ==
  ASSUME NEW payout \in Nat \ {0}, NEW rate \in Nat \ {0}, rate <= Whole
  PROVE  LET premium == PremiumForRate(payout, rate)
         IN  /\ premium \in Nat \ {0} /\ premium <= payout
             /\ premium * Whole >= payout * rate
             /\ (premium - 1) * Whole < payout * rate
<1> DEFINE x == payout * rate
           q == (x + 9999) \div 10000
<1>1. x \in Nat /\ x >= 1 /\ x <= payout * 10000
  <2>1. x \in Nat
    OBVIOUS
  <2>2. x >= 1
    BY <2>1
  <2>3. payout * rate <= payout * 10000
    BY DEF Whole
  <2> QED BY <2>1, <2>2, <2>3
<1>2. q \in Nat /\ q * 10000 <= x + 9999 /\ x + 9999 < q * 10000 + 10000
  <2> HIDE DEF x
  <2> QED BY <1>1
<1>3. q >= 1 /\ q <= payout /\ q * 10000 >= x /\ (q - 1) * 10000 < x
  <2> HIDE DEF x, q
  <2> QED BY <1>1, <1>2
<1> QED BY <1>2, <1>3 DEF PremiumForRate, Whole

LEMMA PricingSound ==
  ASSUME NEW payout \in FormPayouts, NEW input \in PremiumInputs, OfferPricing(payout, input).ok
  PROVE  payout > 0 /\ OfferPricing(payout, input).premium > 0
<1>1. payout \in Nat /\ input.value \in Nat /\ input.kind \in {"rate", "amount"}
  BY TermsAssumption DEF PremiumInputs
<1>2. CASE input.kind = "rate"
  <2>1. /\ payout > 0 /\ input.value > 0 /\ input.value <= Whole
        /\ OfferPricing(payout, input).premium = PremiumForRate(payout, input.value)
    BY <1>2 DEF OfferPricing
  <2>2. PremiumForRate(payout, input.value) > 0
    BY <1>1, <2>1, PremiumRoundsUp
  <2> QED BY <2>1, <2>2
<1>3. CASE input.kind # "rate"
  BY <1>3 DEF OfferPricing
<1> QED BY <1>2, <1>3

LEMMA FormAcceptedHere == ASSUME TypeOK PROVE FormAccepted
<1> SUFFICES
      ASSUME NEW o \in Offers, NEW side \in Sides, NEW designated \in Wallets \cup {None},
             NEW quantity \in FormQuantities, NEW payout \in FormPayouts, NEW input \in PremiumInputs,
             NEW acceptBefore \in 0..MaxTime, NEW expiresAt \in 0..MaxTime
      PROVE  LET pricing == OfferPricing(payout, input)
                 t == FormTerms(side, designated, quantity, payout, pricing.premium, acceptBefore, expiresAt)
             IN  policy.version > 0 /\ Submits(o[1], t, pricing) /\ Status(o) = "Absent" /\ MintUsable(TRUE)
                   => (BuildCreate(o, o[1], t) <=> quantity > 0)
  BY Zenon DEF FormAccepted
<1> DEFINE premium == OfferPricing(payout, input).premium
           t == FormTerms(side, designated, quantity, payout, premium, acceptBefore, expiresAt)
<1> SUFFICES ASSUME policy.version > 0, Submits(o[1], t, OfferPricing(payout, input)),
                    Status(o) = "Absent", MintUsable(TRUE)
             PROVE  BuildCreate(o, o[1], t) <=> quantity > 0
  BY Zenon
<1>1. payout > 0 /\ premium > 0
  BY PricingSound DEF Submits
<1>2. /\ t.side = side /\ t.designated = designated /\ t.quantity = quantity /\ t.payout = payout
      /\ t.premium = premium /\ t.acceptBefore = acceptBefore /\ t.expiresAt = expiresAt
  BY DEF FormTerms
<1>3. now \in Nat /\ acceptBefore \in Nat /\ expiresAt \in Nat
      /\ policy.reviewedUntil \in Int /\ policy.maxExpiry \in Int
  BY BoundsAssumption DEF TypeOK, Policy
<1>4. DatesFit(now, policy, acceptBefore, expiresAt)
  BY <1>2 DEF Submits
<1>5. /\ policy.enabled /\ now < policy.reviewedUntil /\ now < acceptBefore
      /\ acceptBefore <= expiresAt /\ expiresAt <= policy.maxExpiry /\ now < policy.maxExpiry
  BY <1>3, <1>4 DEF DatesFit
<1>6. ServerAdmits /\ PolicyPermits(t.expiresAt)
  BY <1>2, <1>5 DEF ServerAdmits, PolicyPermits
<1>7. usdc[o[1]] >= Stake(t)
  <2>1. Stake(t) = IF t.side = "Holder" THEN t.premium ELSE t.payout
    BY <1>2 DEF Stake, Sides
  <2>2. (IF t.side = "Holder" THEN t.premium ELSE t.payout) <= usdc[o[1]]
    BY DEF Submits
  <2> QED BY <2>1, <2>2
<1>8. t.designated # o[1]
  BY DEF Submits
<1>9. BuildCreate(o, o[1], t) <=> t.quantity > 0
  <2> HIDE DEF t, premium
  <2>1. t.payout > 0 /\ t.premium > 0
    BY <1>1, <1>2
  <2>2. now < t.acceptBefore /\ t.acceptBefore <= t.expiresAt
    BY <1>2, <1>5
  <2> QED BY <2>1, <2>2, <1>6, <1>7, <1>8, Zenon DEF BuildCreate
<1> QED BY <1>2, <1>9

\* FormAccepted for every set of offers, wallets, policies, amounts and times.
THEOREM FormSound == Spec => []FormAccepted
<1>1. TypeOK => FormAccepted
  BY FormAcceptedHere
<1> QED BY <1>1, TypeCorrect, PTL

LEMMA SuggestionKeptHere == ASSUME TypeOK PROVE SuggestionKept
<1> SUFFICES ASSUME NEW at \in 0..now, NEW duration \in FormDurations, NEW window \in FormDurations,
                    SuggestDates(at, policy, duration, window).ok,
                    now < SuggestDates(at, policy, duration, window).acceptBefore
             PROVE  DatesFit(now, policy, SuggestDates(at, policy, duration, window).acceptBefore,
                             SuggestDates(at, policy, duration, window).expiresAt)
  BY DEF SuggestionKept
<1>1. /\ now \in Nat /\ duration \in Nat /\ window \in Nat /\ at \in Nat
      /\ policy.reviewedUntil \in Int /\ policy.maxExpiry \in Int
  BY BoundsAssumption, TermsAssumption DEF TypeOK, Policy
<1> DEFINE expiry == Earlier(at + duration, policy.maxExpiry)
           acceptance == Earlier(Earlier(at + window, expiry - 1), policy.reviewedUntil - 1)
<1>2. /\ expiry \in Int /\ expiry <= policy.maxExpiry
  BY <1>1 DEF Earlier
<1>3. /\ acceptance \in Int /\ acceptance <= expiry - 1 /\ acceptance <= policy.reviewedUntil - 1
  <2> HIDE DEF expiry
  <2> QED BY <1>1, <1>2 DEF Earlier
<1>4. /\ SuggestDates(at, policy, duration, window).acceptBefore = acceptance
      /\ SuggestDates(at, policy, duration, window).expiresAt = expiry
      /\ policy.enabled
  BY DEF SuggestDates
<1>5. now < acceptance
  BY <1>4
<1> HIDE DEF expiry, acceptance
<1>6. DatesFit(now, policy, acceptance, expiry)
  BY <1>1, <1>2, <1>3, <1>4, <1>5 DEF DatesFit
<1> QED BY <1>4, <1>6

\* SuggestionKept for every policy, duration, window and clock.
THEOREM SuggestionsHold == Spec => []SuggestionKept
<1>1. TypeOK => SuggestionKept
  BY SuggestionKeptHere
<1> QED BY <1>1, TypeCorrect, PTL
=============================================================================
