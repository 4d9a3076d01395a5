-------------------------------- MODULE Terms --------------------------------
(***************************************************************************)
(* The form of a new offer (features/offers): deadlines suggested from the *)
(* asset's policy or typed, a premium given as an amount or as a rate, and *)
(* what the form refuses before it asks for a review.  Amounts are base    *)
(* units and dates seconds: texts that are no such number, and dates       *)
(* after the year 9999, are left out.                                      *)
(***************************************************************************)
EXTENDS Plan

CONSTANTS
  Minute,         \* least time an offer is open (60 seconds)
  FormQuantities, \* quantities, payouts, rates (in units of 1/Whole), premiums, durations
  FormPayouts,    \* of the protection and of the acceptance that are entered
  FormRates,
  FormPremiums,
  FormDurations

ASSUME TermsAssumption ==
  /\ Minute \in Nat \ {0}
  /\ FormQuantities \subseteq Nat /\ FormPayouts \subseteq Nat /\ FormRates \subseteq Nat
  /\ FormPremiums \subseteq Nat /\ FormDurations \subseteq Nat

Earlier(s, t) == IF s < t THEN s ELSE t

SlipSuggestDates(at, p, duration, window) ==
  LET expiry     == Earlier(at + duration, p.maxExpiry)
      acceptance == Earlier(at + window, expiry - 1)
  IN  [ ok |-> /\ p.enabled /\ at < p.reviewedUntil
               /\ duration > 0 /\ window > 0
               /\ acceptance - at >= Minute,
        acceptBefore |-> acceptance, expiresAt |-> expiry ]

\* suggestDates, at the chain time and policy the form last read.
SuggestDates(at, p, duration, window) ==
  LET expiry     == Earlier(at + duration, p.maxExpiry)
      acceptance == Earlier(Earlier(at + window, expiry - 1), p.reviewedUntil - 1)
  IN  [ ok |-> /\ p.enabled /\ at < p.reviewedUntil
               /\ duration > 0 /\ window > 0
               /\ acceptance - at >= Minute,
        acceptBefore |-> acceptance, expiresAt |-> expiry ]

\* dateError, judged anew against each policy and time that are read.
DatesFit(at, p, acceptBefore, expiresAt) ==
  /\ p.enabled /\ at < p.reviewedUntil
  /\ at < acceptBefore /\ at < expiresAt
  /\ acceptBefore <= expiresAt
  /\ expiresAt <= p.maxExpiry
  /\ acceptBefore < p.reviewedUntil

-----------------------------------------------------------------------------
Whole == 10000   \* basis points of the payout

SlipRoundsDown(payout, rate) == (payout * rate) \div Whole

\* Rounded up to a whole base unit.
PremiumForRate(payout, rate) == (payout * rate + (Whole - 1)) \div Whole
RateForPremium(payout, premium) == (premium * Whole + payout \div 2) \div payout

\* offerPricing: what is entered is kept, the other one is shown.
OfferPricing(payout, input) ==
  IF input.kind = "rate"
  THEN [ ok |-> payout > 0 /\ input.value > 0 /\ input.value <= Whole,
         premium |-> PremiumForRate(payout, input.value), rate |-> input.value ]
  ELSE [ ok |-> payout > 0 /\ input.value > 0,
         premium |-> input.value,
         rate |-> IF payout > 0 THEN RateForPremium(payout, input.value) ELSE 0 ]

PremiumInputs == [kind : {"rate"}, value : FormRates] \cup [kind : {"amount"}, value : FormPremiums]

-----------------------------------------------------------------------------
\* The terms a form hands to the review.
FormTerms(side, designated, quantity, payout, premium, acceptBefore, expiresAt) ==
  [side |-> side, designated |-> designated, quantity |-> quantity, payout |-> payout,
   premium |-> premium, acceptBefore |-> acceptBefore, expiresAt |-> expiresAt]

\* OfferForm's submit, with a policy and a time just read and the creator's balance.  The
\* quantity is not looked at.
Submits(w, t, pricing) ==
  /\ DatesFit(now, policy, t.acceptBefore, t.expiresAt)
  /\ pricing.ok
  /\ (IF t.side = "Holder" THEN t.premium ELSE t.payout) <= usdc[w]
  /\ t.designated # w

-----------------------------------------------------------------------------
(* Properties *)

\* What the form lets a user ask for is refused for one reason only, a quantity of 0, which
\* the form takes and buildAction does not (buildAction.ts:141): all other terms it accepts
\* are accepted by buildAction, if the mint is, though the form, buildAction, the server and
\* the program each compare deadlines, review and amounts in code of their own.
FormAccepted ==
  \A o \in Offers, side \in Sides, designated \in Wallets \cup {None},
     quantity \in FormQuantities, payout \in FormPayouts, input \in PremiumInputs,
     acceptBefore \in 0..MaxTime, expiresAt \in 0..MaxTime :
    LET pricing == OfferPricing(payout, input)
        t == FormTerms(side, designated, quantity, payout, pricing.premium, acceptBefore, expiresAt)
    IN  policy.version > 0 /\ Submits(o[1], t, pricing) /\ Status(o) = "Absent" /\ MintUsable(TRUE)
          => (BuildCreate(o, o[1], t) <=> quantity > 0)

\* Deadlines that were suggested once stay good until the acceptance ends: as polling never
\* moves them, the form refuses them only when a renewed policy does.
SuggestionKept ==
  \A at \in 0..now, duration \in FormDurations, window \in FormDurations :
    LET s == SuggestDates(at, policy, duration, window)
    IN  s.ok /\ now < s.acceptBefore => DatesFit(now, policy, s.acceptBefore, s.expiresAt)
=============================================================================
