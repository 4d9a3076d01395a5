------------------------------ MODULE Preview -------------------------------
(***************************************************************************)
(* From the button to the ledger: a wallet's page shows a row of the index *)
(* and a clock, both of which may be old; pressing a button builds a plan  *)
(* and shows its review; confirming builds the plan again and signs only   *)
(* if the review is unchanged; the signed transaction executes, if ever,   *)
(* on whatever the chain has become.  One page is followed; the other      *)
(* wallets act through Settlement directly.                                *)
(***************************************************************************)
EXTENDS Plan

VARIABLES
  connected,  \* the wallet connected to the page
  row,        \* the agreement rows the page displays
  clock,      \* the chain time it displays, Never before the first answer
  review,     \* the review on screen, or None
  signed      \* the review whose transaction was signed and may still land, or None

pageVars == <<connected, row, clock, review, signed>>
previewVars == <<vars, pageVars>>

PreviewInit ==
  /\ Init
  /\ connected \in Wallets
  /\ row = [o \in Offers |-> Blank]
  /\ clock = Never
  /\ review = None
  /\ signed = None

SlipPremiumAlways(o, op, t, status) ==
  IF op = "cleanup" THEN reserve[o] ELSE IF t.side = "Holder" THEN t.premium ELSE t.payout

\* review.escrowAmount: what the review says is locked or returned.  Open is judged by the
\* displayed row, not by the account that was just read.
EscrowAmount(o, op, t, status) ==
  IF op = "cleanup" THEN reserve[o]
  ELSE IF t.side = "Holder" /\ (op = "create" \/ status = "Open") THEN t.premium
  ELSE t.payout

\* The review of a request: t and status are the form's terms or the displayed row's.
ReviewOf(w, o, op, t, status) ==
  [owner |-> w, offer |-> o, op |-> op, terms |-> t, shownStatus |-> status,
   role |-> ActionRole(op, t.side, status),
   escrow |-> EscrowAmount(o, op, t, status),
   reserveAmount |-> IF op = "create" THEN 0 ELSE reserve[o]]

-----------------------------------------------------------------------------
\* The index answers with some finalized state; agreement pages poll it.
Refresh(o) ==
  /\ row' = [row EXCEPT ![o] = agreements[o]]
  /\ UNCHANGED <<vars, connected, clock, review, signed>>

\* useChainTime
ReadClock ==
  /\ clock' = now
  /\ UNCHANGED <<vars, connected, row, review, signed>>

\* onReview from the creation form.
ReviewCreate(o, t) ==
  /\ review = None /\ signed = None
  /\ CanBuild(o, connected, "create", t)
  /\ review' = ReviewOf(connected, o, "create", t, "Absent")
  /\ UNCHANGED <<vars, connected, row, clock, signed>>

\* onReview from the panel of a displayed agreement, whatever its activity says; the displayed
\* terms are compared with the account's.
ReviewAction(o, op) ==
  /\ review = None
  /\ row[o].status # "Absent"
  /\ \E last \in LastAttempts : PanelOffers(o, connected, op, row[o], clock, signed = None, last)
  /\ row[o].terms = Terms(o)
  /\ CanBuild(o, connected, op, row[o].terms)
  /\ review' = ReviewOf(connected, o, op, row[o].terms, row[o].status)
  /\ UNCHANGED <<vars, connected, row, clock, signed>>

\* The user connects another wallet; a review on screen is hidden unless it is for the
\* connected wallet (visibleReview), and comes back with it.
Switch(w) ==
  /\ connected' = w
  /\ UNCHANGED <<vars, row, clock, review, signed>>

Dismiss ==
  /\ review # None
  /\ review' = None
  /\ UNCHANGED <<vars, connected, row, clock, signed>>

\* execute: the same request is built again, and the new review must be the one shown.
Confirm ==
  /\ review # None /\ signed = None /\ review.owner = connected
  /\ CanBuild(review.offer, connected, review.op, review.terms)
  /\ ReviewOf(connected, review.offer, review.op, review.terms, review.shownStatus) = review
  /\ signed' = review
  /\ review' = None
  /\ UNCHANGED <<vars, connected, row, clock>>

\* The signed transaction executes.
Land ==
  /\ signed # None
  /\ Executes(signed.offer, signed.owner, signed.op, signed.terms)
  /\ signed' = None
  /\ UNCHANGED <<connected, row, clock, review>>

\* It fails or expires.
Lapse ==
  /\ signed # None
  /\ signed' = None
  /\ UNCHANGED <<vars, connected, row, clock, review>>

\* Anybody else, or the same wallet elsewhere.
Elsewhere == Next /\ UNCHANGED pageVars

PreviewNext ==
  \/ \E o \in Offers :
       \/ Refresh(o)
       \/ \E t \in OfferInputs : ReviewCreate(o, t)
       \/ \E op \in Operations \ {"create"} : ReviewAction(o, op)
  \/ ReadClock
  \/ \E w \in Wallets : Switch(w)
  \/ Dismiss
  \/ Confirm
  \/ Land
  \/ Lapse
  \/ Elsewhere

PreviewSpec == PreviewInit /\ [][PreviewNext]_previewVars

-----------------------------------------------------------------------------
(* Properties *)

\* The change of the wallet's USDC a review announces: the stake or the price paid, the
\* amount "returned by this action", the payout of a delivery.
Announced(r) ==
  CASE r.op = "create"   -> -r.escrow
    [] r.op = "activate" -> IF r.role = "Writer" THEN r.terms.premium - r.terms.payout
                                                 ELSE -r.terms.premium
    [] r.op = "exercise" -> r.terms.payout
    [] OTHER             -> r.escrow

\* A transaction moves the wallet's USDC by what its review announced when the user
\* confirmed, and puts the wallet into the role the review named, in the agreement with the
\* terms the review showed: though the row behind the review was old, the account was read
\* before the signature and anything may have happened since, the program lets it fail rather
\* than execute differently.  A cleanup may only find more or less in the reserve than shown.
AsReviewedStep ==
  Land =>
    LET a == agreements'[signed.offer] IN
    /\ \/ signed.op = "cleanup"
       \/ usdc'[signed.owner] - usdc[signed.owner] = Announced(signed)
    /\ a.terms = signed.terms
    /\ signed.owner = IF signed.role = "Writer" THEN a.writer ELSE a.holder
AsReviewed == [][AsReviewedStep]_previewVars
=============================================================================
