-------------------------------- MODULE Plan --------------------------------
(***************************************************************************)
(* How the browser decides what a wallet may sign: the buttons of the      *)
(* agreement panel, buildAction's checks against the confirmed chain, the  *)
(* roles and amounts of the review it shows, and what the panel says of    *)
(* the agreement.  Everything here only reads: the program of Settlement   *)
(* decides again when the transaction executes.  Accounts are as in        *)
(* Settlement, one USDC and one token account for each wallet, neither     *)
(* frozen; reads of buildAction are one snapshot of the confirmed chain.   *)
(***************************************************************************)
EXTENDS Settlement

Operations == {"create", "activate", "exercise", "cancel", "reclaim", "cleanup"}

Counterpart(side) == IF side = "Writer" THEN "Holder" ELSE "Writer"

\* actionRole: the role a wallet acts in, from the agreement row it was offered on.
ActionRole(op, side, status) ==
  IF op \in {"create", "cancel"} \/ (op = "cleanup" /\ status = "Cancelled") THEN side
  ELSE IF op = "activate" THEN Counterpart(side)
  ELSE IF op = "exercise" THEN "Holder"
  ELSE "Writer"

\* mintTerms: a paused mint is refused for a delivery too, which would fail anyway.
MintUsable(newCommitment) ==
  /\ ~mint.hooked /\ ~mint.paused
  /\ newCommitment => ~mint.defaultFrozen

\* The policy checks of a creation and of an acceptance.
PolicyPermits(expiry) ==
  /\ policy.version > 0
  /\ policy.enabled
  /\ now < policy.reviewedUntil
  /\ expiry <= policy.maxExpiry

\* GET /api/admission, asked on mainnet first: the same policy at the chain's time.
ServerAdmits ==
  /\ policy.version > 0
  /\ policy.enabled
  /\ now < policy.reviewedUntil
  /\ now < policy.maxExpiry

SlipNoDeadline(o, w, t) ==
  /\ o[1] = w
  /\ t.designated # w
  /\ ServerAdmits
  /\ MintUsable(TRUE)
  /\ t.quantity > 0 /\ t.payout > 0 /\ t.premium > 0
  /\ t.acceptBefore <= t.expiresAt
  /\ Status(o) = "Absent"
  /\ usdc[w] >= Stake(t)
  /\ PolicyPermits(t.expiresAt)

BuildCreate(o, w, t) ==
  /\ o[1] = w
  /\ t.designated # w
  /\ ServerAdmits
  /\ MintUsable(TRUE)
  /\ t.quantity > 0 /\ t.payout > 0 /\ t.premium > 0
  /\ now < t.acceptBefore /\ t.acceptBefore <= t.expiresAt
  /\ Status(o) = "Absent"
  /\ usdc[w] >= Stake(t)
  /\ PolicyPermits(t.expiresAt)

\* What the reserve must hold before anything but a cleanup is offered.
RequiredReserve(o) ==
  IF Status(o) = "Open" /\ Terms(o).side = "Holder" THEN Terms(o).premium ELSE Terms(o).payout

BuildActivate(o, w) ==
  LET t == Terms(o) IN
  /\ o[1] # w
  /\ ServerAdmits
  /\ MintUsable(TRUE)
  /\ reserve[o] >= RequiredReserve(o)
  /\ Status(o) = "Open"
  /\ now < t.acceptBefore
  /\ PolicyPermits(t.expiresAt)
  /\ t.designated \in {None, w}
  /\ usdc[w] >= IF t.side = "Holder" THEN t.payout ELSE t.premium

BuildExercise(o, w) ==
  /\ MintUsable(FALSE)
  /\ reserve[o] >= RequiredReserve(o)
  /\ Status(o) = "Active"
  /\ agreements[o].holder = w
  /\ now < Terms(o).expiresAt
  /\ shares[w] >= Terms(o).quantity

\* refundOwner: the one wallet a refund or a cleanup is built for.
RefundOwner(o, op) ==
  IF op = "cancel" \/ Status(o) = "Cancelled" THEN o[1] ELSE agreements[o].writer

\* A refund or a cleanup: neither the mint nor the policy is read.
BuildRefund(o, w, op) ==
  /\ Status(o) # "Absent" /\ w = RefundOwner(o, op)
  /\ IF op = "cancel" THEN Status(o) = "Open" /\ reserve[o] >= RequiredReserve(o)
     ELSE IF op = "reclaim"
     THEN Status(o) = "Active" /\ now >= Terms(o).expiresAt /\ reserve[o] >= RequiredReserve(o)
     ELSE Status(o) \in Terminal

\* buildAction: t is the offer's terms, those of the form for a creation.
CanBuild(o, w, op, t) ==
  IF op = "create" THEN BuildCreate(o, w, t)
  ELSE IF op = "activate" THEN BuildActivate(o, w)
  ELSE IF op = "exercise" THEN BuildExercise(o, w)
  ELSE BuildRefund(o, w, op)

\* The instruction a plan carries, as the program runs it.
Executes(o, w, op, t) ==
  CASE op = "create"   -> o[1] = w /\ CreateOffer(o, t)
    [] op = "activate" -> IF Terms(o).side = "Holder" THEN AcceptRequest(o, w) ELSE Activate(o, w)
    [] op = "exercise" -> \E fee \in Fees : Exercise(o, w, fee)
    [] op = "cancel"   -> Refund(o, w, FALSE)
    [] op = "reclaim"  -> Refund(o, w, TRUE)
    [] op = "cleanup"  -> CleanupTerminal(o, w)

\* Whether it would succeed now: the guards of those instructions.
Accepts(o, w, op, t) ==
  CASE op = "create"   -> o[1] = w /\ CanCreateOffer(o, t)
    [] op = "activate" -> IF Terms(o).side = "Holder" THEN CanAcceptRequest(o, w) ELSE CanActivate(o, w)
    [] op = "exercise" -> \E fee \in Fees : CanExercise(o, w, fee)
    [] op = "cancel"   -> CanRefund(o, w, FALSE)
    [] op = "reclaim"  -> CanRefund(o, w, TRUE)
    [] op = "cleanup"  -> CanCleanUp(o, w)

-----------------------------------------------------------------------------
(* The agreement panel: a is the row it displays, at the clock it displays *)

\* The display lifecycles a query may name, and the one of each terminal status.
Lifecycles == {"available", "acceptance-ended", "active", "exercised", "cancelled", "expired"}
Closed == [Exercised |-> "exercised", Cancelled |-> "cancelled", Expired |-> "expired"]

\* What the activity says of the wallet's most recent attempt on an agreement, if it has one.
Undecided == {"preparing", "awaiting-signature", "pending", "provisional", "unresolved"}
Achieved  == {"finalized", "reconciled"}
Unmade    == {"interrupted", "not-submitted", "failed", "expired"}
LastAttempts == {None} \cup [operation : Operations, status : Undecided \cup Achieved \cup Unmade]

\* The statuses of an agreement in which an operation can be made.
MadeFrom == [create |-> {"Absent"}, activate |-> {"Open"}, cancel |-> {"Open"},
             exercise |-> {"Active"}, reclaim |-> {"Active"}, cleanup |-> Terminal]

SlipDoneForGood(last, a) ==
  /\ last # None
  /\ last.operation # "create"
  /\ a.status \in MadeFrom[last.operation]
  /\ last.status \in Undecided \cup Achieved

\* agreementAction: that attempt is reported in place of the buttons, until another status
\* of the row supersedes it; a cleanup that was achieved can be made again at once.
AgreementAction(last, a) ==
  /\ last # None
  /\ last.operation # "create"
  /\ a.status \in MadeFrom[last.operation]
  /\ last.status \in Undecided \cup (IF last.operation = "cleanup" THEN {} ELSE Achieved)

RequiredUsdc(a) == IF a.terms.side = "Holder" THEN a.terms.payout ELSE a.terms.premium

\* The enabled buttons.  A page is usable when the wallet's accounts are loaded and it is not
\* busy with a review or a signature; a deadline is not judged before a clock is read.
PanelOffers(o, w, op, a, at, usable, last) ==
  /\ usable /\ ~AgreementAction(last, a)
  /\ a.status \in MadeFrom[op]
  /\ CASE op = "activate" -> /\ o[1] # w /\ a.terms.designated \in {None, w}
                             /\ at # Never /\ at < a.terms.acceptBefore
                             /\ usdc[w] >= RequiredUsdc(a)
       [] op = "exercise" -> /\ a.holder = w
                             /\ at # Never /\ at < a.terms.expiresAt
                             /\ shares[w] >= a.terms.quantity
       [] op = "cancel"   -> o[1] = w
       [] op = "reclaim"  -> a.writer = w /\ at # Never /\ at >= a.terms.expiresAt
       [] op = "cleanup"  -> w = IF a.status = "Cancelled" THEN o[1] ELSE a.writer

\* agreementLifecycle: what the badge says, and whether it is shown as open.
Lifecycle(a, at) ==
  IF a.status = "Open"
  THEN IF at < a.terms.acceptBefore THEN "available" ELSE "acceptance-ended"
  ELSE IF a.status = "Active"
  THEN IF at < a.terms.expiresAt THEN "active" ELSE "awaiting-reclaim"
  ELSE "closed"

\* What GET /agreements lists under each display lifecycle, row a being indexed.
Listed(lifecycle, a, at) ==
  CASE lifecycle = "available"        -> a.status = "Open" /\ a.terms.acceptBefore > at
    [] lifecycle = "acceptance-ended" -> a.status = "Open" /\ a.terms.acceptBefore <= at
    [] lifecycle = "active"           -> a.status = "Active" /\ a.terms.expiresAt > at
    [] lifecycle = "expired"          -> \/ a.status = "Expired"
                                         \/ a.status = "Active" /\ a.terms.expiresAt <= at
    [] lifecycle = "exercised"        -> a.status = "Exercised"
    [] lifecycle = "cancelled"        -> a.status = "Cancelled"

\* GET /offers: what is open, in time and funded ...
OnOffer(o, a, at) ==
  /\ a.status = "Open" /\ a.terms.acceptBefore > at
  /\ reserve[o] >= IF a.terms.side = "Holder" THEN a.terms.premium ELSE a.terms.payout

\* ... and, when a wallet asks for what it may take, not its own nor another's.
EligibleFor(o, w, a) == o[1] # w /\ a.terms.designated \in {None, w}

SlipLateHolder(o, w, a, at) ==
  IF Lifecycle(a, at) = "active" /\ a.holder = w THEN "protected"
  ELSE IF Lifecycle(a, at) = "awaiting-reclaim" /\ a.writer = w THEN "reclaimable"
  ELSE IF a.status \in {"Open", "Cancelled"} /\ a.holder = w THEN "protected"
  ELSE IF Lifecycle(a, at) = "acceptance-ended" /\ o[1] = w THEN "recoverable"
  ELSE IF a.status = "Exercised" /\ a.holder = w THEN "paid"
  ELSE IF a.status = "Cancelled" /\ o[1] = w THEN "returned"
  ELSE IF a.status = "Expired" /\ a.writer = w THEN "returned"
  ELSE "nothing"

\* agreementPerspective: what it promises the connected wallet about its money.
Perspective(o, w, a, at) ==
  IF Lifecycle(a, at) = "active" /\ a.holder = w THEN "protected"
  ELSE IF Lifecycle(a, at) = "awaiting-reclaim" /\ a.writer = w THEN "reclaimable"
  ELSE IF Lifecycle(a, at) = "acceptance-ended" /\ o[1] = w THEN "recoverable"
  ELSE IF a.status = "Exercised" /\ a.holder = w THEN "paid"
  ELSE IF a.status = "Cancelled" /\ o[1] = w THEN "returned"
  ELSE IF a.status = "Expired" /\ a.writer = w THEN "returned"
  ELSE "nothing"

-----------------------------------------------------------------------------
(* The browser and the program agree *)

\* A plan the browser builds is one the program accepts if nothing moves before it lands:
\* buildAction leaves out no check of the program but those on the settlement account
\* (frozen for a delivery, encumbered after the handoff for a cleanup), so nobody signs
\* and pays a fee for what could be known to fail.
PlanAccepted ==
  \A o \in Offers, w \in Wallets, op \in Operations :
    \A t \in IF op = "create" THEN OfferInputs ELSE {Terms(o)} :
      /\ CanBuild(o, w, op, t)
      /\ op = "exercise" => ~settlement[o].frozen
      /\ op = "cleanup" => ~settlement[o].encumbered
      => Accepts(o, w, op, t)

\* The statuses an agreement can have once an operation was made.
MadeInto == [create |-> {"Open", "Active"} \cup Terminal,
             activate |-> {"Active", "Exercised", "Expired"}, cancel |-> {"Cancelled"},
             exercise |-> {"Exercised"}, reclaim |-> {"Expired"}, cleanup |-> Terminal]

\* Whatever the program would pay a wallet now, buildAction builds: refunds with the mint
\* hooked or paused and the policy disabled ("Refunds depend only on USDC and agreement
\* state, never on issuer mint availability", buildAction.ts:127), delivery while the program
\* takes it, an acceptance while it is open, which GET /offers then lists for that wallet.  And
\* a usable panel, on a current row and clock, offers it whatever the wallet tried before on
\* the agreement: only an attempt whose fate is open, at an operation that competes with this
\* one, stands in its way (an achieved one has left its mark on the agreement, as Outcome
\* shows of the verdicts).  (Some never get a fate: a lost cleanup, docs/offer-lifecycle.md:74,
\* hides the next cleanup for ever.)
RightsOffered ==
  \A o \in Offers, w \in Wallets, op \in Operations \ {"create"} :
    Accepts(o, w, op, Terms(o)) =>
      /\ CanBuild(o, w, op, Terms(o))
      /\ op = "activate" => OnOffer(o, agreements[o], now) /\ EligibleFor(o, w, agreements[o])
      /\ \A last \in LastAttempts :
           \/ PanelOffers(o, w, op, agreements[o], now, TRUE, last)
           \/ /\ last # None
              /\ \/ last.status \in Undecided /\ MadeFrom[last.operation] = MadeFrom[op]
                 \/ last.status \in Achieved /\ Status(o) \notin MadeInto[last.operation]

\* What the panel says of a wallet's money is what the program will do: a displayed
\* protection can still be exercised by that wallet if it has the tokens and the issuer
\* permits, displayed recoverable or reclaimable USDC can be had at once, and USDC said to
\* be paid or returned has left the reserve.  What GET /agreements lists under a lifecycle
\* is what the badge shows as such, and what GET /offers lists for a wallet with the USDC for
\* it has an enabled button.
SaysTrue ==
  \A o \in Offers, w \in Wallets :
    LET says == Perspective(o, w, agreements[o], now) IN
    /\ says = "protected" =>
         \/ ~MintUsable(FALSE) \/ settlement[o].frozen \/ shares[w] < Terms(o).quantity
         \/ Accepts(o, w, "exercise", Terms(o))
    /\ says = "recoverable" => Accepts(o, w, "cancel", Terms(o))
    /\ says = "reclaimable" => Accepts(o, w, "reclaim", Terms(o))
    /\ says \in {"paid", "returned"} => reserve[o] = surplus[o]
    /\ /\ OnOffer(o, agreements[o], now) /\ EligibleFor(o, w, agreements[o])
       /\ usdc[w] >= RequiredUsdc(agreements[o])
       => PanelOffers(o, w, "activate", agreements[o], now, TRUE, None)
    /\ Status(o) # "Absent" =>
         {l \in Lifecycles : Listed(l, agreements[o], now)}
           = {IF Lifecycle(agreements[o], now) = "closed" THEN Closed[Status(o)]
              ELSE IF Lifecycle(agreements[o], now) = "awaiting-reclaim" THEN "expired"
              ELSE Lifecycle(agreements[o], now)}
=============================================================================
