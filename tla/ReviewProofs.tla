---------------------------- MODULE ReviewProofs ----------------------------
(***************************************************************************)
(* What a wallet signs, for every instance: a signed action does what its  *)
(* review said (Preview), and the agreement account proves what became of  *)
(* a lost signature (Outcome).                                             *)
(***************************************************************************)
EXTENDS Preview, Outcome, SettlementProofs

(***************************************************************************)
(* A signed action does what its review said.                              *)
(***************************************************************************)

\* a is what b was some steps ago.
Before(a, b) ==
  \/ a = b
  \/ a.status = "Absent"
  \/ a.status = "Open" /\ b.status # "Absent" /\ b.terms = a.terms
  \/ a.status = "Active" /\ b.status \in {"Exercised", "Expired"} /\ b.terms = a.terms

\* What a review says, and what of it is still so of the account b.
Sound(r, b) ==
  /\ r.offer \in Offers /\ r.owner \in Wallets /\ r.op \in Operations
  /\ r.role = ActionRole(r.op, r.terms.side, r.shownStatus)
  /\ r.op = "create" => r.terms \in OfferInputs
  /\ r.op # "create" => b.status # "Absent" /\ b.terms = r.terms
  /\ r.op # "cleanup" =>
       r.escrow = IF r.terms.side = "Holder" /\ (r.op = "create" \/ r.shownStatus = "Open")
                  THEN r.terms.premium ELSE r.terms.payout
  /\ r.op \in {"activate", "cancel"} => r.shownStatus = "Open"
  /\ r.op \in {"exercise", "reclaim"} => r.shownStatus = "Active"
  /\ r.op = "cleanup" => r.shownStatus = b.status /\ b.status \in Terminal

PageOK ==
  /\ connected \in Wallets
  /\ row \in [Offers -> Agreement] /\ \A o \in Offers : Before(row[o], agreements[o])
  /\ review # None => Sound(review, agreements[review.offer])
  /\ signed # None => Sound(signed, agreements[signed.offer])

PreviewInv == IInv /\ PageOK

-----------------------------------------------------------------------------
(* The chain moves under the page *)

LEMMA InitPreview == PreviewInit => PreviewInv
<1> SUFFICES ASSUME PreviewInit PROVE PreviewInv
  OBVIOUS
<1>1. IInv
  BY InitIInv DEF PreviewInit
<1>2. PageOK
  <2>1. agreements \in [Offers -> Agreement] /\ agreements = [o \in Offers |-> Blank]
    BY <1>1 DEF IInv, TypeOK, PreviewInit, Init
  <2> QED BY <2>1 DEF PreviewInit, PageOK, Before
<1> QED BY <1>1, <1>2 DEF PreviewInv

\* What every step of the program allows of one agreement.
LEMMA OneMoves ==
  ASSUME IInv, [Next]_vars, NEW o \in Offers
  PROVE  \/ agreements'[o] = agreements[o]
         \/ /\ <<agreements[o].status, agreements'[o].status>> \in
                 {<<"Absent", "Open">>, <<"Open", "Active">>, <<"Open", "Cancelled">>,
                  <<"Active", "Exercised">>, <<"Active", "Expired">>}
            /\ agreements[o].status # "Absent" => agreements'[o].terms = agreements[o].terms
<1>1. RightStep \/ UNCHANGED agreements
  BY OthersLeaveAgreements, RewritesKeepRights
<1> QED BY <1>1 DEF RightStep

LEMMA BeforeStays ==
  ASSUME IInv, [Next]_vars, NEW o \in Offers, NEW a \in Agreement, Before(a, agreements[o])
  PROVE  Before(a, agreements'[o])
BY OneMoves DEF Before

LEMMA SoundStays ==
  ASSUME IInv, [Next]_vars, NEW r, Sound(r, agreements[r.offer])
  PROVE  Sound(r, agreements'[r.offer])
<1>1. r.offer \in Offers
  BY DEF Sound
<1>2. PICK a, b : a = agreements[r.offer] /\ b = agreements'[r.offer]
  OBVIOUS
<1>3. \/ b = a
      \/ /\ a.status \notin Terminal /\ b.status # "Absent"
         /\ a.status # "Absent" => b.terms = a.terms
  BY <1>1, <1>2, OneMoves DEF Terminal
<1>4. Sound(r, a)
  BY <1>2
<1>5. Sound(r, b)
  BY <1>3, <1>4 DEF Sound
<1> QED BY <1>2, <1>5

\* A step of the program, the page keeping what it shows or dropping a signature.
LEMMA ChainKeepsPage ==
  ASSUME PreviewInv, [Next]_vars, UNCHANGED <<connected, row, review>>, signed' \in {signed, None}
  PROVE  PreviewInv'
<1>1. IInv /\ IInv' /\ PageOK
  BY NextKeeps DEF PreviewInv
<1>2. \A o \in Offers : Before(row'[o], agreements'[o])
  BY <1>1, BeforeStays DEF PageOK
<1>3. review' # None => Sound(review', agreements'[review'.offer])
  BY <1>1, SoundStays DEF PageOK
<1>4. signed' # None => Sound(signed', agreements'[signed'.offer])
  BY <1>1, SoundStays DEF PageOK
<1> QED BY <1>1, <1>2, <1>3, <1>4 DEF PreviewInv, PageOK

\* A signed action is an instruction of the program.
LEMMA LandIsNext ==
  ASSUME PageOK, Land PROVE Next
<1>1. /\ signed.offer \in Offers /\ signed.owner \in Wallets /\ signed.op \in Operations
      /\ signed.op = "create" => signed.terms \in OfferInputs
  BY DEF Land, PageOK, Sound
<1>2. PICK o, w, op, t :
        /\ o \in Offers /\ w \in Wallets /\ op \in Operations
        /\ o = signed.offer /\ w = signed.owner /\ op = signed.op /\ t = signed.terms
  BY <1>1
<1>3. Executes(o, w, op, t) /\ (op = "create" => t \in OfferInputs)
  BY <1>1, <1>2 DEF Land
<1>4. \/ \E u \in OfferInputs : CreateOffer(o, u)
      \/ Activate(o, w) \/ AcceptRequest(o, w)
      \/ \E fee \in Fees : Exercise(o, w, fee)
      \/ \E expired \in BOOLEAN : Refund(o, w, expired)
      \/ CleanupTerminal(o, w)
  BY <1>2, <1>3 DEF Executes, Operations
<1> QED BY <1>2, <1>4 DEF Next, Instruction

-----------------------------------------------------------------------------
(* Reviewing *)

LEMMA ReviewCreateSound ==
  ASSUME PreviewInv, NEW o \in Offers, NEW t \in OfferInputs, ReviewCreate(o, t)
  PROVE  Sound(review', agreements[review'.offer])
<1>1. review' = ReviewOf(connected, o, "create", t, "Absent") /\ connected \in Wallets
  BY DEF ReviewCreate, PreviewInv, PageOK
<1> QED BY <1>1 DEF ReviewOf, EscrowAmount, Sound, Operations

\* The row offered the button, and the account that was read has the row's terms.
LEMMA ReviewActionSound ==
  ASSUME PreviewInv, NEW o \in Offers, NEW op \in Operations \ {"create"}, ReviewAction(o, op)
  PROVE  Sound(review', agreements[review'.offer])
<1> DEFINE a == row[o]
<1>1. /\ review' = ReviewOf(connected, o, op, a.terms, a.status) /\ connected \in Wallets
      /\ a.status # "Absent" /\ a.terms = agreements[o].terms /\ Before(a, agreements[o])
      /\ a.status \in MadeFrom[op] /\ a \in Agreement /\ agreements[o] \in Agreement
  BY DEF ReviewAction, PanelOffers, PreviewInv, PageOK, Terms, IInv, TypeOK
<1>2. agreements[o].status # "Absent"
  BY <1>1 DEF Before
<1>3. /\ op \in {"activate", "cancel"} => a.status = "Open"
      /\ op \in {"exercise", "reclaim"} => a.status = "Active"
      /\ op = "cleanup" => a.status \in Terminal
  BY <1>1 DEF MadeFrom
<1>4. op = "cleanup" => agreements[o].status = a.status
  BY <1>1, <1>3 DEF Before, Terminal
<1>5. PICK r : r = review'
  OBVIOUS
<1>6. Sound(r, agreements[o]) /\ r.offer = o
  BY <1>1, <1>2, <1>3, <1>4, <1>5 DEF ReviewOf, EscrowAmount, Sound, Operations
<1> QED BY <1>5, <1>6

LEMMA PageKeeps ==
  ASSUME PreviewInv,
         \/ \E o \in Offers : \/ Refresh(o)
                              \/ \E t \in OfferInputs : ReviewCreate(o, t)
                              \/ \E op \in Operations \ {"create"} : ReviewAction(o, op)
         \/ ReadClock \/ (\E w \in Wallets : Switch(w)) \/ Dismiss \/ Confirm
  PROVE  PreviewInv'
<1>1. UNCHANGED vars
  BY DEF Refresh, ReviewCreate, ReviewAction, ReadClock, Switch, Dismiss, Confirm
<1>2. IInv' /\ agreements' = agreements /\ agreements \in [Offers -> Agreement]
  BY <1>1, NextKeeps DEF PreviewInv, vars, IInv, TypeOK
<1>3. connected' \in Wallets
  BY DEF PreviewInv, PageOK, Refresh, ReviewCreate, ReviewAction, ReadClock, Switch, Dismiss, Confirm
<1>4. row' \in [Offers -> Agreement] /\ \A o \in Offers : Before(row'[o], agreements[o])
  <2>1. CASE \E o \in Offers : Refresh(o)
    BY <1>2, <2>1 DEF PreviewInv, PageOK, Refresh, Before
  <2>2. CASE row' = row
    BY <2>2 DEF PreviewInv, PageOK
  <2> QED BY <2>1, <2>2 DEF ReviewCreate, ReviewAction, ReadClock, Switch, Dismiss, Confirm
<1>5. review' # None => Sound(review', agreements[review'.offer])
  <2>1. CASE \E o \in Offers : \/ \E t \in OfferInputs : ReviewCreate(o, t)
                               \/ \E op \in Operations \ {"create"} : ReviewAction(o, op)
    BY <2>1, ReviewCreateSound, ReviewActionSound
  <2>2. CASE review' \in {review, None}
    BY <2>2 DEF PreviewInv, PageOK
  <2> QED BY <2>1, <2>2 DEF Refresh, ReadClock, Switch, Dismiss, Confirm
<1>6. signed' # None => Sound(signed', agreements[signed'.offer])
  <2>1. signed' = signed \/ (signed' = review /\ review # None)
    BY DEF Refresh, ReviewCreate, ReviewAction, ReadClock, Switch, Dismiss, Confirm
  <2> QED BY <2>1 DEF PreviewInv, PageOK
<1> QED BY <1>2, <1>3, <1>4, <1>5, <1>6 DEF PreviewInv, PageOK

LEMMA PreviewKeeps == PreviewInv /\ [PreviewNext]_previewVars => PreviewInv'
<1> SUFFICES ASSUME PreviewInv, [PreviewNext]_previewVars PROVE PreviewInv'
  OBVIOUS
<1>1. CASE Land
  <2>1. Next /\ UNCHANGED <<connected, row, review>> /\ signed' = None
    BY <1>1, LandIsNext DEF PreviewInv, Land
  <2> QED BY <2>1, ChainKeepsPage
<1>2. CASE Elsewhere \/ UNCHANGED previewVars
  <2>1. [Next]_vars /\ UNCHANGED <<connected, row, review, signed>>
    BY <1>2 DEF Elsewhere, pageVars, previewVars
  <2> QED BY <2>1, ChainKeepsPage
<1>3. CASE Lapse
  BY <1>3, ChainKeepsPage DEF Lapse
<1> QED BY <1>1, <1>2, <1>3, PageKeeps DEF PreviewNext

-----------------------------------------------------------------------------
(* Landing *)

\* The body of AsReviewedStep, of one review.
Kept(o, w, op, t, role, announced) ==
  /\ op = "cleanup" \/ usdc'[w] - usdc[w] = announced
  /\ agreements'[o].terms = t
  /\ w = IF role = "Writer" THEN agreements'[o].writer ELSE agreements'[o].holder

LEMMA CreateKept ==
  ASSUME IInv, NEW o \in Offers, NEW w \in Wallets, NEW t \in OfferInputs, o[1] = w, CreateOffer(o, t)
  PROVE  Kept(o, w, "create", t, t.side, -(IF t.side = "Holder" THEN t.premium ELSE t.payout))
<1>1. t \in OfferTerms /\ t.payout \in Nat /\ t.premium \in Nat /\ t.side \in Sides /\ usdc[w] \in Nat
  BY InputsAssumption DEF OfferTerms, IInv, TypeOK
<1>2. usdc'[w] = usdc[w] - Stake(t)
  BY DEF CreateOffer, IInv, TypeOK
<1>3. agreements'[o] = NewAgreement(w, t)
  BY DEF CreateOffer, IInv, TypeOK
<1>4. Stake(t) = IF t.side = "Holder" THEN t.premium ELSE t.payout
  BY <1>1 DEF Stake, Sides
<1> QED BY <1>1, <1>2, <1>3, <1>4 DEF Kept, NewAgreement, Sides

LEMMA ActivateKept ==
  ASSUME IInv, NEW o \in Offers, NEW w \in Wallets, Activate(o, w)
  PROVE  Kept(o, w, "activate", Terms(o), "Holder", -Terms(o).premium)
<1> DEFINE a == agreements[o]
<1>1. /\ a \in Agreement /\ a.terms \in OfferTerms /\ a.terms.premium \in Nat /\ usdc \in [Wallets -> Nat]
      /\ a.terms.side = "Writer" /\ a.status = "Open" /\ o[1] # w
  BY DEF IInv, TypeOK, Agreement, OfferTerms, Activate, CanActivate, CheckAcceptance, Terms, Status
<1>2. a.writer = o[1]
  BY <1>1 DEF IInv, Parties, Status
<1>3. usdc'[w] = usdc[w] - a.terms.premium
  BY <1>1, <1>2 DEF Activate, Terms
<1>4. agreements'[o] = RecordActivation(a, w)
  BY DEF Activate, IInv, TypeOK
<1>5. agreements'[o].terms = a.terms /\ agreements'[o].holder = w
  BY <1>1, <1>4 DEF RecordActivation, Agreement
<1> QED BY <1>1, <1>3, <1>5 DEF Kept, Terms

LEMMA AcceptKept ==
  ASSUME IInv, NEW o \in Offers, NEW w \in Wallets, AcceptRequest(o, w)
  PROVE  Kept(o, w, "activate", Terms(o), "Writer", Terms(o).premium - Terms(o).payout)
<1> DEFINE a == agreements[o]
<1>1. /\ a \in Agreement /\ a.terms \in OfferTerms /\ a.terms.premium \in Nat /\ a.terms.payout \in Nat
      /\ usdc \in [Wallets -> Nat] /\ a.terms.side = "Holder"
  BY DEF IInv, TypeOK, Agreement, OfferTerms, AcceptRequest, CanAcceptRequest, CheckAcceptance, Terms
<1>2. usdc'[w] = usdc[w] - a.terms.payout + a.terms.premium
  BY <1>1 DEF AcceptRequest, Terms
<1>3. agreements'[o] = RecordActivation(a, w)
  BY DEF AcceptRequest, IInv, TypeOK
<1>4. agreements'[o].terms = a.terms /\ agreements'[o].writer = w
  BY <1>1, <1>3 DEF RecordActivation, Agreement
<1> QED BY <1>1, <1>2, <1>4 DEF Kept, Terms

LEMMA ExerciseKept ==
  ASSUME IInv, NEW o \in Offers, NEW w \in Wallets, NEW fee \in Fees, Exercise(o, w, fee)
  PROVE  Kept(o, w, "exercise", Terms(o), "Holder", Terms(o).payout)
<1> DEFINE a == agreements[o]
<1>1. a \in Agreement /\ a.terms.payout \in Nat /\ usdc \in [Wallets -> Nat] /\ a.holder = w
  BY DEF IInv, TypeOK, Agreement, OfferTerms, Exercise, CanExercise
<1>2. usdc'[w] = usdc[w] + a.terms.payout
  BY <1>1 DEF Exercise, Pays, Terms
<1>3. agreements'[o].terms = a.terms /\ agreements'[o].holder = w
  BY <1>1 DEF Exercise, Agreement, IInv, TypeOK
<1> QED BY <1>1, <1>2, <1>3 DEF Kept, Terms

\* A refund pays what the reserve was funded with at that stage.
LEMMA RefundKept ==
  ASSUME IInv, NEW o \in Offers, NEW w \in Wallets, NEW expired \in BOOLEAN, Refund(o, w, expired), NEW op
  PROVE  Kept(o, w, op, Terms(o), IF expired THEN "Writer" ELSE Terms(o).side,
              IF ~expired /\ Terms(o).side = "Holder" THEN Terms(o).premium ELSE Terms(o).payout)
<1> DEFINE a == agreements[o]
<1>1. /\ a \in Agreement /\ a.terms.payout \in Nat /\ a.terms.premium \in Nat /\ a.terms.side \in Sides
      /\ usdc \in [Wallets -> Nat] /\ a.status = (IF expired THEN "Active" ELSE "Open")
      /\ w = IF expired THEN a.writer ELSE o[1]
  BY DEF IInv, TypeOK, Agreement, OfferTerms, Refund, CanRefund, Status
<1>2. usdc'[w] = usdc[w] + RefundAmount(a, expired)
  BY <1>1 DEF Refund, Pays, RefundAmount
<1>3. /\ agreements'[o].terms = a.terms /\ agreements'[o].holder = a.holder
      /\ agreements'[o].writer = a.writer
  BY <1>1 DEF Refund, Agreement, IInv, TypeOK
<1>4. ~expired => w = IF a.terms.side = "Writer" THEN a.writer ELSE a.holder
  BY <1>1 DEF IInv, Parties, Status
<1> QED BY <1>1, <1>2, <1>3, <1>4 DEF Kept, Terms, RefundAmount

LEMMA CleanupKept ==
  ASSUME IInv, NEW o \in Offers, NEW w \in Wallets, CleanupTerminal(o, w), NEW announced
  PROVE  Kept(o, w, "cleanup", Terms(o), IF Status(o) = "Cancelled" THEN Terms(o).side ELSE "Writer", announced)
<1> DEFINE a == agreements[o]
<1>1. agreements' = agreements /\ w = (IF a.status = "Cancelled" THEN o[1] ELSE a.writer)
  BY DEF CleanupTerminal, CanCleanUp, Beneficiary, Status
<1>2. a.status = "Cancelled" => w = IF a.terms.side = "Writer" THEN a.writer ELSE a.holder
  BY <1>1 DEF IInv, Parties, Status
<1> QED BY <1>1, <1>2 DEF Kept, Terms, Status

\* What lands is what the review announced, in the role and on the terms it showed.
LEMMA LandAsReviewed == ASSUME PreviewInv PROVE AsReviewedStep
<1> SUFFICES ASSUME Land
             PROVE  Kept(signed.offer, signed.owner, signed.op, signed.terms, signed.role, Announced(signed))
  BY DEF AsReviewedStep, Kept
<1>0. PICK r : r = signed
  OBVIOUS
<1>1. IInv /\ Sound(r, agreements[r.offer]) /\ Executes(r.offer, r.owner, r.op, r.terms)
  BY <1>0 DEF Land, PreviewInv, PageOK
<1>2. PICK o, w, op, t :
        /\ o \in Offers /\ w \in Wallets /\ op \in Operations
        /\ o = r.offer /\ w = r.owner /\ op = r.op /\ t = r.terms
  BY <1>1 DEF Sound
<1>3. /\ Executes(o, w, op, t) /\ r.role = ActionRole(op, t.side, r.shownStatus)
      /\ op = "create" => t \in OfferInputs
      /\ op # "create" => t = Terms(o)
      /\ op # "cleanup" => r.escrow = IF t.side = "Holder" /\ (op = "create" \/ r.shownStatus = "Open")
                                      THEN t.premium ELSE t.payout
      /\ op \in {"activate", "cancel"} => r.shownStatus = "Open"
      /\ op \in {"exercise", "reclaim"} => r.shownStatus = "Active"
      /\ op = "cleanup" => r.shownStatus = Status(o) /\ Status(o) \in Terminal
  BY <1>1, <1>2 DEF Sound, Terms, Status
<1>4. CASE op = "create"
  <2>1. o[1] = w /\ CreateOffer(o, t) /\ t \in OfferInputs
    BY <1>3, <1>4 DEF Executes
  <2>2. r.role = t.side /\ Announced(r) = -(IF t.side = "Holder" THEN t.premium ELSE t.payout)
    BY <1>2, <1>3, <1>4 DEF ActionRole, Announced
  <2> QED BY <1>0, <1>1, <1>2, <1>4, <2>1, <2>2, CreateKept
<1>5. CASE op = "activate"
  <2>1. CASE t.side = "Holder"
    <3>1. AcceptRequest(o, w)
      BY <1>3, <1>5, <2>1 DEF Executes
    <3>2. r.role = "Writer" /\ Announced(r) = t.premium - t.payout
      BY <1>2, <1>3, <1>5, <2>1 DEF ActionRole, Counterpart, Announced
    <3> QED BY <1>0, <1>1, <1>2, <1>3, <1>5, <3>1, <3>2, AcceptKept
  <2>2. CASE t.side # "Holder"
    <3>1. Activate(o, w)
      BY <1>3, <1>5, <2>2 DEF Executes
    <3>2. t.side = "Writer"
      BY <1>3, <1>5, <3>1 DEF Activate, CanActivate, CheckAcceptance
    <3>3. r.role = "Holder" /\ Announced(r) = -t.premium
      BY <1>2, <1>3, <1>5, <3>2 DEF ActionRole, Counterpart, Announced
    <3> QED BY <1>0, <1>1, <1>2, <1>3, <1>5, <3>1, <3>3, ActivateKept
  <2> QED BY <2>1, <2>2
<1>6. CASE op = "exercise"
  <2>1. PICK fee \in Fees : Exercise(o, w, fee)
    BY <1>3, <1>6 DEF Executes
  <2>2. r.role = "Holder" /\ Announced(r) = t.payout
    BY <1>2, <1>6, <1>3 DEF ActionRole, Announced
  <2> QED BY <1>0, <1>1, <1>2, <1>3, <1>6, <2>1, <2>2, ExerciseKept
<1>7. CASE op = "cancel"
  <2>1. Refund(o, w, FALSE)
    BY <1>3, <1>7 DEF Executes
  <2>2. r.role = t.side /\ Announced(r) = IF t.side = "Holder" THEN t.premium ELSE t.payout
    BY <1>2, <1>7, <1>3 DEF ActionRole, Announced
  <2>3. Kept(o, w, op, Terms(o), Terms(o).side, IF Terms(o).side = "Holder" THEN Terms(o).premium ELSE Terms(o).payout)
    BY <1>1, <1>2, <2>1, RefundKept
  <2> QED BY <1>0, <1>2, <1>3, <1>7, <2>2, <2>3
<1>8. CASE op = "reclaim"
  <2>1. Refund(o, w, TRUE)
    BY <1>3, <1>8 DEF Executes
  <2>2. r.role = "Writer" /\ Announced(r) = t.payout
    BY <1>2, <1>8, <1>3 DEF ActionRole, Announced
  <2>3. Kept(o, w, op, Terms(o), "Writer", Terms(o).payout)
    BY <1>1, <1>2, <2>1, RefundKept
  <2> QED BY <1>0, <1>2, <1>3, <1>8, <2>2, <2>3
<1>9. CASE op = "cleanup"
  <2>1. CleanupTerminal(o, w)
    BY <1>3, <1>9 DEF Executes
  <2>2. r.role = IF Status(o) = "Cancelled" THEN t.side ELSE "Writer"
    BY <1>3, <1>9 DEF ActionRole
  <2>3. Kept(o, w, "cleanup", Terms(o), IF Status(o) = "Cancelled" THEN Terms(o).side ELSE "Writer", Announced(r))
    BY <1>1, <1>2, <2>1, CleanupKept
  <2> QED BY <1>0, <1>2, <1>3, <1>9, <2>2, <2>3
<1> QED BY <1>2, <1>4, <1>5, <1>6, <1>7, <1>8, <1>9 DEF Operations

-----------------------------------------------------------------------------
(* Theorems *)

\* In every reachable state a review, on screen or signed, says what the account's terms
\* and the button's row made of it.
THEOREM ReviewsSound == PreviewSpec => []PreviewInv
BY InitPreview, PreviewKeeps, PTL DEF PreviewSpec

\* However old the row and the clock were, and whatever happened between the review and the
\* execution: the wallet's USDC moves by what the review announced, and the wallet ends in
\* the role and the terms it showed (buildAction.ts, useTransaction.ts, program).
THEOREM ReviewsKept == PreviewSpec => AsReviewed
<1>1. PreviewInv /\ [PreviewNext]_previewVars => [AsReviewedStep]_previewVars
  BY LandAsReviewed
<1> QED BY <1>1, ReviewsSound, PTL DEF PreviewSpec, AsReviewed

(***************************************************************************)
(* What an agreement account proves of a lost signature.                   *)
(***************************************************************************)

Taken == {"Active", "Exercised", "Expired"}

\* The account as it is when the attempt's action has taken effect.
Effect(p, a) ==
  CASE p.op = "create"   -> a.status # "Absent" /\ a.terms = p.terms
    [] p.op = "activate" -> a.status \in Taken /\ PartyOf(a, Counterpart(p.terms.side)) = p.owner
    [] p.op = "exercise" -> a.status = "Exercised"
    [] p.op = "cancel"   -> a.status = "Cancelled"
    [] p.op = "reclaim"  -> a.status = "Expired"
    [] OTHER             -> FALSE

\* What was true of the account at signing and stays true.
Signed(p, a) ==
  /\ p.side = p.terms.side
  /\ p.op \in {"create", "cancel"} => p.owner = p.offer[1] /\ p.role = p.side
  /\ p.op # "create" => a.status # "Absent" /\ a.terms = p.terms
  /\ p.op = "activate" =>
       /\ p.role = Counterpart(p.side) /\ p.owner # p.offer[1]
       /\ p.terms.designated \in {None, p.owner}
  /\ p.op = "exercise" => a.status \in Taken /\ a.holder = p.owner /\ p.role = "Holder"
  /\ p.op = "reclaim" => a.status \in Taken /\ a.writer = p.owner /\ p.role = "Writer"
  /\ p.op = "cleanup" =>
       a.status \in Terminal /\ p.role = IF a.status = "Cancelled" THEN p.side ELSE "Writer"

Traced ==
  attempt # None =>
    /\ Signed(attempt, agreements[attempt.offer])
    /\ attempt.op # "cleanup" => (done <=> Effect(attempt, agreements[attempt.offer]))

OutcomeInv == IInv /\ OutcomeTypeOK /\ Traced

\* Before anything is signed there is nothing to trace.
LEMMA InitOutcome == OutcomeInit => OutcomeInv
BY InitIInv DEF OutcomeInit, OutcomeInv, OutcomeTypeOK, Traced

-----------------------------------------------------------------------------
(* The chain's steps *)

\* What stays true of a signed attempt survives every step the program allows.
LEMMA SignedStays ==
  ASSUME TypeOK, TypeOK', [RightStep]_vars, NEW p \in Attempt, Signed(p, agreements[p.offer])
  PROVE  Signed(p, agreements'[p.offer])
<1> DEFINE a == agreements[p.offer]
           b == agreements'[p.offer]
<1>o. p.offer \in Offers
  BY DEF Attempt
<1>1. CASE a = b
  BY <1>1
<1>2. CASE a # b
  <2>1. /\ <<a.status, b.status>> \in
             {<<"Absent", "Open">>, <<"Open", "Active">>, <<"Open", "Cancelled">>,
              <<"Active", "Exercised">>, <<"Active", "Expired">>}
        /\ a.status # "Absent" => b.terms = a.terms
        /\ a.status = "Active" => b.writer = a.writer /\ b.holder = a.holder
    BY <1>2, <1>o DEF RightStep, vars
  <2>2. QED
    BY <2>1 DEF Signed, Taken, Terminal
<1>3. QED
  BY <1>1, <1>2

\* An effect is never undone.
LEMMA EffectStays ==
  ASSUME TypeOK, TypeOK', [RightStep]_vars, NEW p \in Attempt, Effect(p, agreements[p.offer])
  PROVE  Effect(p, agreements'[p.offer])
<1> DEFINE a == agreements[p.offer]
           b == agreements'[p.offer]
<1>o. p.offer \in Offers
  BY DEF Attempt
<1>1. CASE a = b
  BY <1>1
<1>2. CASE a # b
  <2>1. /\ <<a.status, b.status>> \in
             {<<"Absent", "Open">>, <<"Open", "Active">>, <<"Open", "Cancelled">>,
              <<"Active", "Exercised">>, <<"Active", "Expired">>}
        /\ a.status # "Absent" => b.terms = a.terms
        /\ a.status = "Active" => b.writer = a.writer /\ b.holder = a.holder
    BY <1>2, <1>o DEF RightStep, vars
  <2>2. QED
    BY <2>1 DEF Effect, Taken, PartyOf
<1>3. QED
  BY <1>1, <1>2

\* If the attempt's action executes, the account shows it.
LEMMA ExecutionShows ==
  ASSUME IInv, NEW p \in Attempt, p.op # "cleanup", Signed(p, agreements[p.offer]),
         Executes(p.offer, p.owner, p.op, p.terms)
  PROVE  Effect(p, agreements'[p.offer])
<1> DEFINE o == p.offer
<1> USE DEF IInv, TypeOK
<1>o. o \in Offers /\ p.owner \in Wallets /\ p.op \in Operations
  BY DEF Attempt
<1>1. CASE p.op = "create"
  <2>1. CreateOffer(o, p.terms)
    BY <1>1 DEF Executes
  <2>2. agreements'[o].status = "Open" /\ agreements'[o].terms = p.terms
    BY <2>1, <1>o DEF CreateOffer, NewAgreement
  <2>3. QED
    BY <1>1, <2>2 DEF Effect
<1>2. CASE p.op = "activate"
  <2>t. p.terms = agreements[o].terms
    BY <1>2 DEF Signed
  <2>1. CASE Terms(o).side = "Holder"
    <3>1. AcceptRequest(o, p.owner)
      BY <1>2, <2>1 DEF Executes
    <3>2. agreements'[o].status = "Active" /\ agreements'[o].writer = p.owner
      BY <3>1, <2>1, <1>o DEF AcceptRequest, RecordActivation, Terms, Agreement
    <3>3. QED
      BY <1>2, <2>t, <2>1, <3>2 DEF Effect, Taken, PartyOf, Counterpart, Terms
  <2>2. CASE Terms(o).side # "Holder"
    <3>1. Terms(o).side = "Writer"
      BY <1>o, <2>2 DEF Terms, Agreement, OfferTerms, Sides
    <3>2. Activate(o, p.owner)
      BY <1>2, <2>2 DEF Executes
    <3>3. agreements'[o].status = "Active" /\ agreements'[o].holder = p.owner
      BY <3>1, <3>2, <1>o DEF Activate, RecordActivation, Terms, Agreement
    <3>4. QED
      BY <1>2, <2>t, <3>1, <3>3 DEF Effect, Taken, PartyOf, Counterpart, Terms
  <2>3. QED
    BY <2>1, <2>2
<1>3. CASE p.op = "exercise"
  <2>1. PICK fee \in Fees : Exercise(o, p.owner, fee)
    BY <1>3 DEF Executes
  <2>2. agreements'[o].status = "Exercised"
    BY <2>1, <1>o DEF Exercise, Agreement
  <2>3. QED
    BY <1>3, <2>2 DEF Effect
<1>4. CASE p.op = "cancel"
  <2>1. Refund(o, p.owner, FALSE)
    BY <1>4 DEF Executes
  <2>2. agreements'[o].status = "Cancelled"
    BY <2>1, <1>o DEF Refund, Agreement
  <2>3. QED
    BY <1>4, <2>2 DEF Effect
<1>5. CASE p.op = "reclaim"
  <2>1. Refund(o, p.owner, TRUE)
    BY <1>5 DEF Executes
  <2>2. agreements'[o].status = "Expired"
    BY <2>1, <1>o DEF Refund, Agreement
  <2>3. QED
    BY <1>5, <2>2 DEF Effect
<1>6. QED
  BY <1>o, <1>1, <1>2, <1>3, <1>4, <1>5 DEF Operations

\* And nothing but that action makes it show.
LEMMA OnlyExecutionShows ==
  ASSUME IInv, [Next]_vars, NEW p \in Attempt, p.op # "cleanup",
         Signed(p, agreements[p.offer]), ~Effect(p, agreements[p.offer]),
         Effect(p, agreements'[p.offer])
  PROVE  Executes(p.offer, p.owner, p.op, p.terms)
<1> DEFINE o == p.offer
<1> USE DEF IInv, TypeOK
<1>o. o \in Offers /\ p.owner \in Wallets /\ p.op \in Operations
  BY DEF Attempt
<1>r. PICK q \in Offers :
        \/ \E t \in OfferInputs : CreateOffer(q, t)
        \/ \E w \in Wallets :
             \/ Activate(q, w)
             \/ AcceptRequest(q, w)
             \/ \E fee \in Fees : Exercise(q, w, fee)
             \/ \E expired \in BOOLEAN : Refund(q, w, expired)
  BY OthersLeaveAgreements DEF RewritesAgreement
<1>q. q = o
  BY <1>r, <1>o DEF CreateOffer, Activate, AcceptRequest, Exercise, Refund
<1>1. ASSUME NEW t \in OfferInputs, CreateOffer(o, t)
      PROVE  Executes(o, p.owner, p.op, p.terms)
  <2>1. agreements'[o].status = "Open" /\ agreements'[o].terms = t /\ Status(o) = "Absent"
    BY <1>1, <1>o DEF CreateOffer, CanCreateOffer, NewAgreement
  <2>2. p.op = "create"
    BY <2>1, <1>o DEF Effect, Signed, Status, Operations, Taken
  <2>3. QED
    BY <1>1, <2>1, <2>2 DEF Effect, Executes, Signed
<1>2. ASSUME NEW w \in Wallets, Activate(o, w) PROVE Executes(o, p.owner, p.op, p.terms)
  <2>1. /\ agreements[o].status = "Open" /\ agreements[o].terms.side = "Writer"
        /\ agreements'[o].status = "Active" /\ agreements'[o].terms = agreements[o].terms
        /\ agreements'[o].holder = w
    BY <1>2, <1>o DEF Activate, CanActivate, CheckAcceptance, RecordActivation, Agreement, Status, Terms
  <2>2. p.op = "activate"
    BY <2>1, <1>o DEF Effect, Operations
  <2>3. w = p.owner
    BY <2>1, <2>2 DEF Effect, Signed, PartyOf, Counterpart
  <2>4. QED
    BY <1>2, <2>1, <2>2, <2>3 DEF Executes, Terms
<1>3. ASSUME NEW w \in Wallets, AcceptRequest(o, w) PROVE Executes(o, p.owner, p.op, p.terms)
  <2>1. /\ agreements[o].status = "Open" /\ agreements[o].terms.side = "Holder"
        /\ agreements'[o].status = "Active" /\ agreements'[o].terms = agreements[o].terms
        /\ agreements'[o].writer = w
    BY <1>3, <1>o DEF AcceptRequest, CanAcceptRequest, CheckAcceptance, RecordActivation, Agreement, Status, Terms
  <2>2. p.op = "activate"
    BY <2>1, <1>o DEF Effect, Operations
  <2>3. w = p.owner
    BY <2>1, <2>2 DEF Effect, Signed, PartyOf, Counterpart
  <2>4. QED
    BY <1>3, <2>1, <2>2, <2>3 DEF Executes, Terms
<1>4. ASSUME NEW w \in Wallets, NEW fee \in Fees, Exercise(o, w, fee)
      PROVE  Executes(o, p.owner, p.op, p.terms)
  <2>1. /\ agreements[o].status = "Active" /\ agreements[o].holder = w
        /\ agreements'[o].status = "Exercised" /\ agreements'[o].terms = agreements[o].terms
        /\ agreements'[o].holder = agreements[o].holder
        /\ agreements'[o].writer = agreements[o].writer
    BY <1>4, <1>o DEF Exercise, CanExercise, Agreement, Status
  <2>2. p.op = "exercise"
    BY <2>1, <1>o DEF Effect, Operations, Taken, PartyOf
  <2>3. QED
    BY <1>4, <2>1, <2>2 DEF Executes, Signed
<1>5. ASSUME NEW w \in Wallets, NEW expired \in BOOLEAN, Refund(o, w, expired)
      PROVE  Executes(o, p.owner, p.op, p.terms)
  <2>1. CASE expired
    <3>1. /\ agreements[o].status = "Active" /\ agreements[o].writer = w
          /\ agreements' = [agreements EXCEPT
               ![o] = [@ EXCEPT !.status = "Expired", !.settledAt = now]]
      BY <1>5, <2>1 DEF Refund, CanRefund, Status
    <3>2. /\ agreements'[o].status = "Expired" /\ agreements'[o].terms = agreements[o].terms
          /\ agreements'[o].holder = agreements[o].holder
          /\ agreements'[o].writer = agreements[o].writer
      BY <3>1, <1>o DEF Agreement
    <3>3. p.op = "reclaim"
      BY <3>1, <3>2, <1>o DEF Effect, Operations, Taken, PartyOf
    <3>4. QED
      BY <1>5, <2>1, <3>1, <3>3 DEF Executes, Signed
  <2>2. CASE ~expired
    <3>1. /\ agreements[o].status = "Open" /\ w = o[1]
          /\ agreements' = [agreements EXCEPT
               ![o] = [@ EXCEPT !.status = "Cancelled", !.settledAt = now]]
      BY <1>5, <2>2 DEF Refund, CanRefund, Status
    <3>2. agreements'[o].status = "Cancelled" /\ agreements'[o].terms = agreements[o].terms
      BY <3>1, <1>o DEF Agreement
    <3>3. p.op = "cancel"
      BY <3>1, <3>2, <1>o DEF Effect, Operations, Taken
    <3>4. QED
      BY <1>5, <2>2, <3>1, <3>3 DEF Executes, Signed
  <2>3. QED
    BY <2>1, <2>2
<1>6. QED
  BY <1>r, <1>q, <1>1, <1>2, <1>3, <1>4, <1>5

\* A step of the chain keeps the trace.
LEMMA ChainKeeps == OutcomeInv /\ ChainStep => OutcomeInv'
<1> SUFFICES ASSUME OutcomeInv, ChainStep PROVE OutcomeInv'
  OBVIOUS
<1> USE DEF OutcomeInv, ChainStep
<1>1. IInv' /\ TypeOK' /\ TypeOK
  BY NextKeeps DEF IInv
<1>2. [RightStep]_vars
  BY OthersLeaveAgreements, RewritesKeepRights DEF RightStep
<1>3. OutcomeTypeOK'
  BY DEF OutcomeTypeOK
<1>4. Traced'
  <2> SUFFICES ASSUME attempt # None
               PROVE  /\ Signed(attempt, agreements'[attempt.offer])
                      /\ attempt.op # "cleanup" =>
                           (done' <=> Effect(attempt, agreements'[attempt.offer]))
    BY DEF Traced
  <2>1. attempt \in Attempt
    BY DEF OutcomeTypeOK
  <2>2. /\ Signed(attempt, agreements[attempt.offer])
        /\ attempt.op # "cleanup" => (done <=> Effect(attempt, agreements[attempt.offer]))
    BY DEF Traced
  <2>3. Signed(attempt, agreements'[attempt.offer])
    BY <1>1, <1>2, <2>1, <2>2, SignedStays
  <2>4. attempt.op # "cleanup" /\ done' => Effect(attempt, agreements'[attempt.offer])
    BY <1>1, <1>2, <2>1, <2>2, EffectStays, ExecutionShows
  <2>5. attempt.op # "cleanup" /\ Effect(attempt, agreements'[attempt.offer]) => done'
    BY <2>1, <2>2, OnlyExecutionShows
  <2>6. QED
    BY <2>3, <2>4, <2>5
<1>5. QED
  BY <1>1, <1>3, <1>4

-----------------------------------------------------------------------------
(* Signing *)

\* buildAction's checks establish the trace.
LEMMA SignKeeps ==
  ASSUME OutcomeInv, NEW o \in Offers, NEW w \in Wallets, NEW op \in Operations,
         NEW t \in IF op = "create" THEN OfferInputs ELSE {Terms(o)}, Sign(o, w, op, t)
  PROVE  OutcomeInv'
<1> USE DEF OutcomeInv, IInv, TypeOK
<1> DEFINE p == [op |-> op, owner |-> w, offer |-> o, side |-> t.side,
                 role |-> ActionRole(op, t.side, Status(o)), terms |-> t]
<1>t. t \in OfferTerms
  BY InputsAssumption DEF Terms, Agreement
<1>p. p \in Attempt /\ attempt' = p /\ done' = FALSE /\ p # None
  BY <1>t, AttemptAssumption
  DEF Sign, Attempt, ActionRole, Counterpart, Sides, OfferTerms
<1>u. UNCHANGED vars
  BY DEF Sign
<1>1. IInv'
  BY <1>u, NextKeeps
<1>2. OutcomeTypeOK'
  BY <1>p DEF OutcomeTypeOK
<1>b. CanBuild(o, w, op, t)
  BY DEF Sign
<1>a. agreements' = agreements
  BY <1>u DEF vars
<1>3. Signed(p, agreements[o]) /\ (op # "cleanup" => ~Effect(p, agreements[o]))
  <2>1. CASE op = "create"
    BY <1>b, <2>1 DEF CanBuild, BuildCreate, Signed, Effect, ActionRole, Status
  <2>2. CASE op = "activate"
    BY <1>b, <2>2 DEF CanBuild, BuildActivate, Signed, Effect, ActionRole, Status, Terms, Taken
  <2>3. CASE op = "exercise"
    BY <1>b, <2>3 DEF CanBuild, BuildExercise, Signed, Effect, ActionRole, Status, Terms, Taken
  <2>4. CASE op = "cancel"
    BY <1>b, <2>4 DEF CanBuild, BuildRefund, RefundOwner, Signed, Effect, ActionRole, Status, Terms
  <2>5. CASE op = "reclaim"
    BY <1>b, <2>5
    DEF CanBuild, BuildRefund, RefundOwner, Signed, Effect, ActionRole, Status, Terms, Taken
  <2>6. CASE op = "cleanup"
    BY <1>b, <2>6
    DEF CanBuild, BuildRefund, RefundOwner, Signed, ActionRole, Status, Terms, Terminal
  <2>7. QED
    BY <2>1, <2>2, <2>3, <2>4, <2>5, <2>6 DEF Operations
<1>4. Traced'
  BY <1>p, <1>a, <1>3 DEF Traced
<1>5. QED
  BY <1>1, <1>2, <1>4

\* The trace is kept by every step.
LEMMA OutcomeKeeps == OutcomeInv /\ [OutcomeNext]_outcomeVars => OutcomeInv'
<1> SUFFICES ASSUME OutcomeInv, [OutcomeNext]_outcomeVars PROVE OutcomeInv'
  OBVIOUS
<1>1. CASE ChainStep
  BY <1>1, ChainKeeps
<1>2. CASE UNCHANGED outcomeVars
  <2>1. UNCHANGED vars /\ UNCHANGED <<attempt, done>> /\ agreements' = agreements
    BY <1>2 DEF outcomeVars, vars
  <2>2. IInv'
    BY <2>1, NextKeeps DEF OutcomeInv
  <2>3. QED
    BY <2>1, <2>2 DEF OutcomeInv, OutcomeTypeOK, Traced
<1>3. QED
  BY <1>1, <1>2, SignKeeps DEF OutcomeNext

\* What has taken effect shows in the account, and what shows has taken effect.
THEOREM EffectsTraced == OutcomeSpec => []OutcomeInv
BY InitOutcome, OutcomeKeeps, PTL DEF OutcomeSpec

-----------------------------------------------------------------------------
(* The judges *)

\* Of an attempt that is traced, a verdict other than a decision is possible only for a
\* cleanup or at a taken address, and a decision says whether the account shows the effect.
LEMMA JudgesRight ==
  ASSUME IInv, NEW p \in Attempt, p.op # "cleanup", Signed(p, agreements[p.offer]),
         NEW verdict \in {BrowserVerdict(p, agreements[p.offer]),
                          ServerVerdict(p, agreements[p.offer])}
  PROVE  /\ verdict = "reconciled" => Effect(p, agreements[p.offer])
         /\ verdict = "expired" => ~Effect(p, agreements[p.offer])
         /\ ~Collision(p) => verdict \in {"reconciled", "expired"}
<1> DEFINE o == p.offer
           a == agreements[o]
<1>o. /\ o \in Offers /\ a \in Agreement /\ p.op \in Operations /\ p.owner \in Wallets
      /\ p.terms \in OfferTerms /\ p.side \in Sides /\ o[1] \in Wallets
  BY WalletsAssumption DEF Attempt, IInv, TypeOK
<1>s. a.status \in Statuses
  BY <1>o DEF Agreement
<1>n. a.status \in Taken => a.activatedAt # Never
  BY <1>o DEF IInv, TypeOK, Timeline, Status, Taken, Never, Agreement
<1>m. a.status \in {"Open", "Cancelled"} => a.activatedAt = Never
  BY <1>o DEF IInv, Timeline, Status
<1>k. a.status \in Statuses \ Taken => a.status \in {"Absent", "Open", "Cancelled"}
  BY DEF Statuses, Taken
<1> USE DEF BrowserVerdict, ServerVerdict, Effect, Signed, Proves, Collision, ExpectedRole,
     Status, Terms
<1>1. CASE p.op = "create"
  BY <1>1, <1>o
<1>2. CASE p.op = "activate"
  BY <1>2, <1>o, <1>s, <1>n, <1>m, <1>k DEF Accepted
<1>3. CASE p.op = "exercise"
  BY <1>3, <1>o DEF Taken
<1>4. CASE p.op = "cancel"
  BY <1>4, <1>o
<1>5. CASE p.op = "reclaim"
  BY <1>5, <1>o
<1>6. QED
  BY <1>o, <1>1, <1>2, <1>3, <1>4, <1>5 DEF Operations

\* Neither judge ever claims an effect that did not happen or denies one that did.
THEOREM VerdictsAreRight == OutcomeSpec => []EffectProved
<1>1. OutcomeInv => EffectProved
  <2> SUFFICES ASSUME OutcomeInv, attempt # None,
                      NEW verdict \in {BrowserVerdict(attempt, agreements[attempt.offer]),
                                       ServerVerdict(attempt, agreements[attempt.offer])}
               PROVE  /\ verdict = "reconciled" => done
                      /\ verdict = "expired" => ~done
    BY DEF EffectProved
  <2>1. attempt \in Attempt
    BY DEF OutcomeInv, OutcomeTypeOK
  <2>2. CASE attempt.op # "cleanup"
    BY <2>1, <2>2, JudgesRight DEF OutcomeInv, Traced
  <2>3. CASE attempt.op = "cleanup"
    BY <2>3 DEF BrowserVerdict, ServerVerdict
  <2>4. QED
    BY <2>2, <2>3
<1>2. QED
  BY <1>1, EffectsTraced, PTL

\* A signature is always decided in the end, a cleanup and a used nonce excepted.
THEOREM VerdictsAreReached == OutcomeSpec => []Decided
<1>1. OutcomeInv => Decided
  <2> SUFFICES ASSUME OutcomeInv, attempt # None, attempt.op # "cleanup", ~Collision(attempt)
               PROVE  /\ BrowserVerdict(attempt, agreements[attempt.offer]) \in {"reconciled", "expired"}
                      /\ ServerVerdict(attempt, agreements[attempt.offer]) \in {"reconciled", "expired"}
    BY DEF Decided
  <2>1. attempt \in Attempt /\ Signed(attempt, agreements[attempt.offer])
    BY DEF OutcomeInv, OutcomeTypeOK, Traced
  <2>2. QED
    BY <2>1, JudgesRight DEF OutcomeInv
<1>2. QED
  BY <1>1, EffectsTraced, PTL

\* The role the server would record for a traced attempt, if it records it, is the one the
\* browser saved, and it records every one the program would take.
LEMMA RolesRight ==
  ASSUME IInv, NEW p \in Attempt, Signed(p, agreements[p.offer])
  PROVE  LET role == ServerRole(p, agreements[p.offer]) IN
         /\ Readable(p)
         /\ role \in {p.role, None}
         /\ role = None => ~Accepts(p.offer, p.owner, p.op, p.terms)
<1> DEFINE o == p.offer
           a == agreements[o]
           role == ServerRole(p, a)
<1>o. /\ o \in Offers /\ a \in Agreement /\ p.op \in Operations /\ p.owner \in Wallets
      /\ p.side \in Sides /\ o[1] \in Wallets /\ None \notin Sides /\ a.status \in Statuses
  BY WalletsAssumption, AttemptAssumption DEF Attempt, IInv, TypeOK, Agreement
<1>r. Readable(p)
  BY <1>o DEF Readable, Signed, Counterpart, Sides
<1> USE DEF Signed, Status, Terms
<1>1. CASE p.op = "create"
  BY <1>1, <1>o, <1>r DEF ServerRole
<1>2. CASE p.op = "activate"
  <2>1. role \in {p.role, None}
    BY <1>2, <1>o DEF ServerRole
  <2>2. ASSUME Accepts(o, p.owner, p.op, p.terms) PROVE role # None
    <3>1. a.status = "Open" /\ a.terms.side \in Sides
      BY <1>2, <1>o, <2>2
      DEF Accepts, CanAcceptRequest, CanActivate, CheckAcceptance, Agreement, OfferTerms
    <3>2. PartyOf(a, Counterpart(a.terms.side)) = None
      BY <1>o, <3>1 DEF IInv, Parties, PartyOf, Counterpart, Sides
    <3>3. role = Counterpart(a.terms.side)
      BY <1>2, <1>o, <3>2 DEF ServerRole
    <3>4. QED
      BY <1>o, <3>1, <3>3 DEF Counterpart, Sides
  <2>3. QED
    BY <1>r, <2>1, <2>2
<1>3. CASE p.op = "exercise"
  BY <1>3, <1>o, <1>r DEF ServerRole, Sides
<1>4. CASE p.op = "cancel"
  BY <1>4, <1>o, <1>r DEF ServerRole
<1>5. CASE p.op = "reclaim"
  BY <1>5, <1>o, <1>r DEF ServerRole, Sides
<1>6. CASE p.op = "cleanup"
  <2>1. role \in {p.role, None}
    BY <1>6, <1>o DEF ServerRole
  <2>2. ASSUME Accepts(o, p.owner, p.op, p.terms) PROVE role # None
    <3>1. p.owner = IF a.status = "Cancelled" THEN o[1] ELSE a.writer
      BY <1>6, <2>2 DEF Accepts, CanCleanUp, Beneficiary
    <3>2. role = IF a.status = "Cancelled" THEN a.terms.side ELSE "Writer"
      BY <1>6, <3>1 DEF ServerRole
    <3>3. QED
      BY <1>6, <1>o, <3>2 DEF Sides
  <2>3. QED
    BY <1>r, <2>1, <2>2
<1>7. QED
  BY <1>o, <1>1, <1>2, <1>3, <1>4, <1>5, <1>6 DEF Operations

\* The browser's saved role, what it can read back and what the server records agree for
\* every signature, and the server turns away none that could execute.
THEOREM RolesAlwaysAgree == OutcomeSpec => []RolesAgree
<1>1. OutcomeInv => RolesAgree
  BY RolesRight DEF OutcomeInv, OutcomeTypeOK, Traced, RolesAgree
<1>2. QED
  BY <1>1, EffectsTraced, PTL
=============================================================================
