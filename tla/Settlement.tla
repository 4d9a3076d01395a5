----------------------------- MODULE Settlement -----------------------------
(***************************************************************************)
(* The Volaryn settlement program: fixed-term protection of an underlying  *)
(* Token-2022 balance, backed in full by a USDC reserve the program owns.  *)
(* One action per instruction of lib.rs, each the whole handler with the   *)
(* account constraints of its Accounts struct; an instruction that fails   *)
(* rolls back, so a refused call is simply a disabled action.  One asset   *)
(* (mint and policy) is modelled: agreements on different mints share no   *)
(* account but the wallets' USDC.  The token programs, the issuer, the     *)
(* clock and the owner of a settlement account after its handoff are the   *)
(* environment, modelled by the steps they may take between instructions.  *)
(***************************************************************************)
EXTENDS Integers

CONSTANTS
  Wallets,           \* the keys that sign
  None,              \* Option::None, and an account that does not exist
  Offers,            \* agreement addresses in play: <<creator, nonce>> (PDA seeds)
  UpgradeAuthority,  \* the loader's upgrade authority of the program
  OfferInputs,       \* the OfferTerms arguments submitted
  PolicyInputs,      \* the PolicyTerms arguments submitted
  MintStates,        \* what the issuer may make of the mint
  Fees,              \* amounts the issuer's transfer fee may withhold
  MaxGiven,          \* bound of what outsiders have in an account at a time
  MaxTime,           \* bound of the clock
  MaxVersion,        \* the largest policy version (u32::MAX in the code)
  InitialUsdc,       \* USDC of each wallet at the start
  InitialShares      \* underlying of each wallet at the start

Sides    == {"Writer", "Holder"}
Statuses == {"Absent", "Open", "Active", "Exercised", "Cancelled", "Expired"}
Terminal == {"Exercised", "Cancelled", "Expired"}

\* AgreementTerms: the arguments of create_offer (the nonce is part of the address).
OfferTerms ==
  [side : Sides, designated : Wallets \cup {None},
   quantity : Nat, payout : Nat, premium : Nat,
   acceptBefore : Int, expiresAt : Int]

PolicyTerms == [enabled : BOOLEAN, reviewedUntil : Int, maxExpiry : Int]

\* hooked: the mint fails validate_mint in both modes (an active transfer hook);
\* paused and defaultFrozen fail it for new commitments only.
MintState == [hooked : BOOLEAN, paused : BOOLEAN, defaultFrozen : BOOLEAN]

ASSUME WalletsAssumption ==
  /\ Wallets \cap {None, "absent", "agreement", "closed"} = {}
  /\ UpgradeAuthority \in Wallets
  /\ Offers \subseteq Wallets \X Nat
ASSUME InputsAssumption ==
  /\ OfferInputs \subseteq OfferTerms
  /\ PolicyInputs \subseteq PolicyTerms
  /\ MintStates \subseteq MintState
  /\ Fees \subseteq Nat /\ 0 \in Fees
ASSUME BoundsAssumption ==
  /\ MaxTime \in Nat
  /\ MaxGiven \in Nat
  /\ MaxVersion \in Nat \ {0}
  /\ InitialUsdc \in Nat
  /\ InitialShares \in Nat

VARIABLES
  now,         \* Clock::unix_timestamp: it never decreases
  config,      \* ProtocolConfig.authority, None before initialize
  policy,      \* the AssetPolicy account; version 0 before create_asset_policy
  mint,        \* the issuer-controlled state of the underlying mint
  agreements,  \* the Agreement accounts
  reserve,     \* USDC in each agreement's reserve account
  settlement,  \* each agreement's settlement account
  usdc,        \* USDC of each wallet
  shares,      \* underlying tokens of each wallet
  surplus,     \* history: USDC given to a reserve less what cleanup swept
  outside      \* history: USDC of a wallet from sweeps less its donations

vars == <<now, config, policy, mint, agreements, reserve, settlement, usdc,
          shares, surplus, outside>>
ledger == <<agreements, reserve, settlement, usdc, shares, surplus, outside>>

Never == -1  \* Option<i64>::None of a timestamp

\* The fields of Agreement that the handlers read or write; the others copy
\* addresses and decimals fixed at creation.
Agreement ==
  [status : Statuses, terms : OfferTerms,
   writer : Wallets \cup {None}, holder : Wallets \cup {None},
   policyVersion : Nat, createdAt : Int, activatedAt : Int, settledAt : Int,
   netReceived : Nat]

\* title: the token account's owner field; encumbered: a close authority or an
\* extension that validate_settlement rejects is set (a delegate would be rejected
\* too, but the token program clears it when the owner changes).
SettlementAccount ==
  [title : Wallets \cup {"absent", "agreement", "closed"},
   amount : Nat, frozen : BOOLEAN, encumbered : BOOLEAN]

Policy == [version : Nat, enabled : BOOLEAN, reviewedUntil : Int, maxExpiry : Int]

Blank ==
  [status |-> "Absent",
   terms |-> [side |-> "Writer", designated |-> None, quantity |-> 0,
              payout |-> 0, premium |-> 0, acceptBefore |-> 0, expiresAt |-> 0],
   writer |-> None, holder |-> None, policyVersion |-> 0,
   createdAt |-> Never, activatedAt |-> Never, settledAt |-> Never,
   netReceived |-> 0]

FreshSettlement(title) ==
  [title |-> title, amount |-> 0, frozen |-> FALSE, encumbered |-> FALSE]

Init ==
  /\ now = 0
  /\ config = None
  /\ policy = [version |-> 0, enabled |-> FALSE, reviewedUntil |-> 0, maxExpiry |-> 0]
  /\ mint \in MintStates
  /\ agreements = [o \in Offers |-> Blank]
  /\ reserve = [o \in Offers |-> 0]
  /\ settlement = [o \in Offers |-> FreshSettlement("absent")]
  /\ usdc = [w \in Wallets |-> InitialUsdc]
  /\ shares = [w \in Wallets |-> InitialShares]
  /\ surplus = [o \in Offers |-> 0]
  /\ outside = [w \in Wallets |-> 0]

-----------------------------------------------------------------------------
(* What the handlers share.  A definition named Slip... is not the program: it  *)
(* is the definition after it with a plausible mistake, kept to see the         *)
(* properties fail when it takes its place.                                     *)
(* An operator named Can... is the guard of the action after it, every check of *)
(* the handler; the action adds only assignments that always have a value, so   *)
(* the instruction succeeds exactly where its guard holds.                      *)

Status(o) == agreements[o].status
Terms(o)  == agreements[o].terms

SlipAlwaysStrict(newCommitment) == ~mint.hooked /\ ~mint.paused /\ ~mint.defaultFrozen

\* validate_mint: an unsupported mint is refused always, a paused one or one whose
\* new accounts start frozen only for a new commitment.
ValidMint(newCommitment) ==
  /\ ~mint.hooked
  /\ newCommitment => ~mint.paused /\ ~mint.defaultFrozen

\* admit: the policy as it is now, not as it was when the offer was created.
Admit(expiry) ==
  /\ policy.enabled
  /\ now < policy.reviewedUntil
  /\ expiry <= policy.maxExpiry

SlipStakePayout(t) == t.payout

\* What the creator puts into the reserve: its own side of the deal.
Stake(t) == IF t.side = "Writer" THEN t.payout ELSE t.premium

SlipAnyState(o, side, counterparty) ==
  /\ Status(o) # "Absent"
  /\ Terms(o).side = side
  /\ o[1] # counterparty
  /\ now < Terms(o).acceptBefore
  /\ Terms(o).designated \in {None, counterparty}

\* check_acceptance, for either acceptance instruction.
CheckAcceptance(o, side, counterparty) ==
  /\ Status(o) = "Open"
  /\ Terms(o).side = side
  /\ o[1] # counterparty
  /\ now < Terms(o).acceptBefore
  /\ Terms(o).designated \in {None, counterparty}

\* record_activation
RecordActivation(a, counterparty) ==
  [a EXCEPT !.holder = IF a.terms.side = "Writer" THEN counterparty ELSE @,
            !.writer = IF a.terms.side = "Holder" THEN counterparty ELSE @,
            !.activatedAt = now,
            !.policyVersion = policy.version,
            !.status = "Active"]

\* validate_settlement: the PDA still owns the account and nobody else can move it.
ValidSettlement(o) ==
  /\ settlement[o].title = "agreement"
  /\ ~settlement[o].encumbered

\* A transfer out of a reserve, which fails when the reserve does not hold the amount.
Pays(o, w, amount) ==
  /\ reserve' = [reserve EXCEPT ![o] = @ - amount]
  /\ usdc' = [usdc EXCEPT ![w] = @ + amount]

-----------------------------------------------------------------------------
(* Configuration and admission policy *)

Initialize(signer) ==
  /\ signer = UpgradeAuthority
  /\ config = None
  /\ config' = signer
  /\ UNCHANGED <<now, policy, mint, ledger>>

Writable(t) ==
  /\ t.enabled => t.reviewedUntil > now /\ t.maxExpiry > now
  /\ policy.version < MaxVersion

WritePolicy(t) ==
  policy' = [version |-> policy.version + 1, enabled |-> t.enabled,
             reviewedUntil |-> t.reviewedUntil, maxExpiry |-> t.maxExpiry]

CreateAssetPolicy(signer, t) ==
  /\ config = signer
  /\ policy.version = 0
  /\ ValidMint(t.enabled)
  /\ Writable(t)
  /\ WritePolicy(t)
  /\ UNCHANGED <<now, config, mint, ledger>>

SlipChecksMintToDisable(signer, t) ==
  /\ config = signer
  /\ policy.version > 0
  /\ ValidMint(t.enabled)
  /\ Writable(t)

\* Disabling does not look at the mint, so it works on one that became unsupported.
CanUpdatePolicy(signer, t) ==
  /\ config = signer
  /\ policy.version > 0
  /\ t.enabled => ValidMint(TRUE)
  /\ Writable(t)

UpdateAssetPolicy(signer, t) ==
  /\ CanUpdatePolicy(signer, t)
  /\ WritePolicy(t)
  /\ UNCHANGED <<now, config, mint, ledger>>

-----------------------------------------------------------------------------
(* The life of an agreement *)

\* The new Agreement account of create_offer.
NewAgreement(creator, t) ==
  [status |-> "Open", terms |-> t,
   writer |-> IF t.side = "Writer" THEN creator ELSE None,
   holder |-> IF t.side = "Holder" THEN creator ELSE None,
   policyVersion |-> policy.version,
   createdAt |-> now, activatedAt |-> Never, settledAt |-> Never,
   netReceived |-> 0]

\* Agreement accounts are never closed, so `init` refuses an address for ever.
CanCreateOffer(o, t) ==
  /\ config # None /\ policy.version > 0
  /\ Status(o) = "Absent" /\ settlement[o].title = "absent"
  /\ t.designated # o[1]
  /\ t.quantity > 0 /\ t.payout > 0 /\ t.premium > 0
  /\ now < t.acceptBefore /\ t.acceptBefore <= t.expiresAt
  /\ Admit(t.expiresAt)
  /\ ValidMint(TRUE)
  /\ usdc[o[1]] >= Stake(t)

CreateOffer(o, t) ==
  LET creator == o[1] IN
  /\ CanCreateOffer(o, t)
  /\ usdc' = [usdc EXCEPT ![creator] = @ - Stake(t)]
  /\ reserve' = [reserve EXCEPT ![o] = @ + Stake(t)]
  /\ settlement' = [settlement EXCEPT ![o] = FreshSettlement("agreement")]
  /\ agreements' = [agreements EXCEPT ![o] = NewAgreement(creator, t)]
  /\ UNCHANGED <<now, config, policy, mint, shares, surplus, outside>>

\* The holder takes a writer's funded offer: the premium goes straight to the writer.
CanActivate(o, holder) ==
  LET t == Terms(o) IN
  /\ CheckAcceptance(o, "Writer", holder)
  /\ Admit(t.expiresAt)
  /\ ValidMint(TRUE)
  /\ reserve[o] >= t.payout
  /\ usdc[holder] >= t.premium

Activate(o, holder) ==
  LET writer == agreements[o].writer
      t == Terms(o) IN
  /\ CanActivate(o, holder)
  /\ usdc' = [usdc EXCEPT ![holder] = @ - t.premium, ![writer] = @ + t.premium]
  /\ agreements' = [agreements EXCEPT ![o] = RecordActivation(@, holder)]
  /\ UNCHANGED <<now, config, policy, mint, reserve, settlement, shares, surplus, outside>>

\* The writer takes a holder's request: the payout goes in before the premium comes out.
CanAcceptRequest(o, writer) ==
  LET t == Terms(o) IN
  /\ CheckAcceptance(o, "Holder", writer)
  /\ Admit(t.expiresAt)
  /\ ValidMint(TRUE)
  /\ reserve[o] >= t.premium
  /\ usdc[writer] >= t.payout

AcceptRequest(o, writer) ==
  LET t == Terms(o) IN
  /\ CanAcceptRequest(o, writer)
  /\ reserve' = [reserve EXCEPT ![o] = @ + t.payout - t.premium]
  /\ usdc' = [usdc EXCEPT ![writer] = @ - t.payout + t.premium]
  /\ agreements' = [agreements EXCEPT ![o] = RecordActivation(@, writer)]
  /\ UNCHANGED <<now, config, policy, mint, settlement, shares, surplus, outside>>

\* The window in which the holder may deliver.
InTime(t) == now < t.expiresAt

SlipWholeBalance(before, after) == after

SlipSwapped(before, after) == before - after

\* What the agreement records as received: the settlement account's increase.
Credited(before, after) == after - before

\* Delivery against payment.  The issuer's fee withholds part of the delivery; the
\* transfer fails when the mint is paused or the account frozen.
CanExercise(o, holder, withheld) ==
  LET a == agreements[o]
      t == Terms(o) IN
  /\ Status(o) = "Active"
  /\ a.holder = holder
  /\ a.writer # None
  /\ InTime(t)
  /\ shares[holder] >= t.quantity
  /\ ValidMint(FALSE)
  /\ ValidSettlement(o)
  /\ ~mint.paused /\ ~settlement[o].frozen /\ withheld <= t.quantity
  /\ reserve[o] >= t.payout

Exercise(o, holder, withheld) ==
  LET t == Terms(o)
      before == settlement[o].amount
      after == before + t.quantity - withheld IN
  /\ CanExercise(o, holder, withheld)
  /\ shares' = [shares EXCEPT ![holder] = @ - t.quantity]
  /\ Pays(o, holder, t.payout)
  /\ settlement' = [settlement EXCEPT ![o].amount = after, ![o].title = agreements[o].writer]
  /\ agreements' = [agreements EXCEPT
       ![o] = [@ EXCEPT !.status = "Exercised", !.settledAt = now,
                        !.netReceived = Credited(before, after)]]
  /\ UNCHANGED <<now, config, policy, mint, surplus, outside>>

SlipRefundPayout(a, expired) == a.terms.payout

SlipRefundBoth(a, expired) == a.terms.payout + a.terms.premium

\* A cancelled request gives the premium back; any other refund is the payout.
RefundAmount(a, expired) ==
  IF ~expired /\ a.terms.side = "Holder" THEN a.terms.premium ELSE a.terms.payout

\* cancel_offer (expired = FALSE) and reclaim_expired (expired = TRUE).
CanRefund(o, actor, expired) ==
  LET a == agreements[o] IN
  /\ Status(o) = IF expired THEN "Active" ELSE "Open"
  /\ actor = IF expired THEN a.writer ELSE o[1]
  /\ expired => now >= a.terms.expiresAt
  /\ reserve[o] >= RefundAmount(a, expired)

Refund(o, actor, expired) ==
  /\ CanRefund(o, actor, expired)
  /\ Pays(o, actor, RefundAmount(agreements[o], expired))
  /\ agreements' = [agreements EXCEPT
       ![o] = [@ EXCEPT !.status = IF expired THEN "Expired" ELSE "Cancelled",
                        !.settledAt = now]]
  /\ UNCHANGED <<now, config, policy, mint, settlement, shares, surplus, outside>>

SlipCreator(o) == o[1]

\* Who may clean up, and gets whatever is left.
Beneficiary(o) ==
  IF Status(o) = "Cancelled" THEN o[1] ELSE agreements[o].writer

SlipAlwaysGivesUp(o) == Status(o) # "Exercised"

\* The settlement account is still the PDA's to hand over.
GivesUp(o) ==
  /\ Status(o) # "Exercised"
  /\ settlement[o].title = "agreement"

SlipCleansOpen(o) == Status(o) \notin {"Absent", "Active"}

SlipCleansFundedOnly(o) == Status(o) \in Terminal /\ reserve[o] > 0

Cleanable(o) == Status(o) \in Terminal

\* cleanup_terminal takes whatever the reserve still holds and, unless the account
\* was already delivered, handed over or closed, gives up the settlement account.  A
\* frozen account is left for a later call; an account that came back to the PDA in a
\* state validate_settlement rejects fails the call.
CanCleanUp(o, actor) ==
  /\ Cleanable(o)
  /\ actor = Beneficiary(o)
  /\ GivesUp(o) => ValidSettlement(o)

CleanupTerminal(o, actor) ==
  /\ CanCleanUp(o, actor)
  /\ Pays(o, actor, reserve[o])
  /\ settlement' = IF GivesUp(o) /\ ~settlement[o].frozen
                   THEN [settlement EXCEPT ![o].title = actor]
                   ELSE settlement
  /\ surplus' = [surplus EXCEPT ![o] = @ - reserve[o]]
  /\ outside' = [outside EXCEPT ![actor] = @ + reserve[o]]
  /\ UNCHANGED <<now, config, policy, mint, agreements, shares>>

-----------------------------------------------------------------------------
(* The environment *)

Tick ==
  /\ now < MaxTime
  /\ now' = now + 1
  /\ UNCHANGED <<config, policy, mint, ledger>>

IssuerSetsMint(m) ==
  /\ mint' = m
  /\ UNCHANGED <<now, config, policy, ledger>>

Exists(o) == settlement[o].title \notin {"absent", "closed"}
Movable(o) == Exists(o) /\ ~mint.paused /\ ~settlement[o].frozen

IssuerSetsFreeze(o) ==
  /\ Exists(o)
  /\ settlement' = [settlement EXCEPT ![o].frozen = ~@]
  /\ UNCHANGED <<now, config, policy, mint, agreements, reserve, usdc, shares, surplus, outside>>

\* A permanent delegate takes the balance, whoever owns the account.
IssuerSeizes(o) ==
  /\ Movable(o)
  /\ settlement' = [settlement EXCEPT ![o].amount = 0]
  /\ UNCHANGED <<now, config, policy, mint, agreements, reserve, usdc, shares, surplus, outside>>

\* Anyone may send USDC to a reserve or underlying to a settlement account.
DonateUsdc(w, o) ==
  /\ Status(o) # "Absent" /\ surplus[o] < MaxGiven /\ usdc[w] > 0
  /\ usdc' = [usdc EXCEPT ![w] = @ - 1]
  /\ reserve' = [reserve EXCEPT ![o] = @ + 1]
  /\ surplus' = [surplus EXCEPT ![o] = @ + 1]
  /\ outside' = [outside EXCEPT ![w] = @ - 1]
  /\ UNCHANGED <<now, config, policy, mint, agreements, settlement, shares>>

DonateShares(w, o) ==
  /\ Movable(o) /\ settlement[o].amount < MaxGiven /\ shares[w] > 0
  /\ shares' = [shares EXCEPT ![w] = @ - 1]
  /\ settlement' = [settlement EXCEPT ![o].amount = @ + 1]
  /\ UNCHANGED <<now, config, policy, mint, agreements, reserve, usdc, surplus, outside>>

\* A wallet that received the account may empty it, close it, give it to another
\* wallet (or back to the PDA), and leave a close authority or an extension behind.
OwnerWithdraws(o, w) ==
  /\ settlement[o].title = w /\ Movable(o)
  /\ shares' = [shares EXCEPT ![w] = @ + settlement[o].amount]
  /\ settlement' = [settlement EXCEPT ![o].amount = 0]
  /\ UNCHANGED <<now, config, policy, mint, agreements, reserve, usdc, surplus, outside>>

OwnerCloses(o, w) ==
  /\ settlement[o].title = w /\ settlement[o].amount = 0
  /\ settlement' = [settlement EXCEPT ![o] = FreshSettlement("closed")]
  /\ UNCHANGED <<now, config, policy, mint, agreements, reserve, usdc, shares, surplus, outside>>

OwnerTransfers(o, w, title, encumbered) ==
  /\ settlement[o].title = w /\ ~settlement[o].frozen
  /\ settlement' = [settlement EXCEPT ![o].title = title, ![o].encumbered = encumbered]
  /\ UNCHANGED <<now, config, policy, mint, agreements, reserve, usdc, shares, surplus, outside>>

-----------------------------------------------------------------------------
Instruction ==
  \/ \E w \in Wallets :
       \/ Initialize(w)
       \/ \E t \in PolicyInputs : CreateAssetPolicy(w, t) \/ UpdateAssetPolicy(w, t)
  \/ \E o \in Offers :
       \/ \E t \in OfferInputs : CreateOffer(o, t)
       \/ \E w \in Wallets :
            \/ Activate(o, w)
            \/ AcceptRequest(o, w)
            \/ \E fee \in Fees : Exercise(o, w, fee)
            \/ \E expired \in BOOLEAN : Refund(o, w, expired)
            \/ CleanupTerminal(o, w)

Environment ==
  \/ Tick
  \/ \E m \in MintStates : IssuerSetsMint(m)
  \/ \E o \in Offers :
       \/ IssuerSetsFreeze(o)
       \/ IssuerSeizes(o)
       \/ \E w \in Wallets :
            \/ DonateUsdc(w, o)
            \/ DonateShares(w, o)
            \/ OwnerWithdraws(o, w)
            \/ OwnerCloses(o, w)
            \/ \E title \in Wallets \cup {"agreement"}, encumbered \in BOOLEAN :
                 OwnerTransfers(o, w, title, encumbered)

Next == Instruction \/ Environment

Spec == Init /\ [][Next]_vars

-----------------------------------------------------------------------------
(* Invariants *)

TypeOK ==
  /\ now \in 0..MaxTime
  /\ config \in Wallets \cup {None}
  /\ policy \in Policy /\ policy.version <= MaxVersion
  /\ mint \in MintState
  /\ agreements \in [Offers -> Agreement]
  /\ reserve \in [Offers -> Nat]
  /\ settlement \in [Offers -> SettlementAccount]
  /\ usdc \in [Wallets -> Nat]
  /\ shares \in [Wallets -> Nat]
  /\ surplus \in [Offers -> Nat]
  /\ outside \in [Wallets -> Int]

\* What the program owes out of a reserve at each stage of the agreement.
Owed(o) ==
  IF Status(o) = "Active" \/ (Status(o) = "Open" /\ Terms(o).side = "Writer")
  THEN Terms(o).payout
  ELSE IF Status(o) = "Open" THEN Terms(o).premium ELSE 0

\* Every reserve holds exactly what the agreement owes plus what outsiders gave and
\* nobody swept: an instruction of one agreement, an acceptance, a refund or a cleanup
\* in any order never leaves an open or active agreement short, and no payment out of
\* a reserve ever touches a donation or leaves part of the escrow behind (the
\* transfers of create_offer, accept_request, exercise, refund and cleanup_terminal).
Backed == \A o \in Offers : reserve[o] = Owed(o) + surplus[o]

\* The two roles: before acceptance only the creator's own role is taken; after it both
\* are, by different wallets, and a designated counterparty is the one that accepted
\* (create_offer, check_acceptance, record_activation).
Parties ==
  \A o \in Offers :
    LET a == agreements[o]
        own == IF a.terms.side = "Writer" THEN a.writer ELSE a.holder
        other == IF a.terms.side = "Writer" THEN a.holder ELSE a.writer IN
    /\ own = IF Status(o) = "Absent" THEN None ELSE o[1]
    /\ Status(o) \in {"Absent", "Open", "Cancelled"} => other = None
    /\ Status(o) \in {"Active", "Exercised", "Expired"} =>
         /\ other \in Wallets \ {o[1]}
         /\ a.terms.designated \in {None, other}

\* The recorded times tell a possible story: acceptance within its deadline, delivery
\* strictly before the expiry it was promised for and the writer's recovery never
\* before it, so the two outcomes of an active agreement have disjoint windows.
Timeline ==
  \A o \in Offers :
    LET a == agreements[o] IN
    /\ Status(o) # "Absent" =>
         a.createdAt \in 0..now /\ a.createdAt < a.terms.acceptBefore
           /\ a.terms.acceptBefore <= a.terms.expiresAt
    /\ Status(o) \in {"Active", "Exercised", "Expired"} =>
         a.activatedAt \in a.createdAt..now /\ a.activatedAt < a.terms.acceptBefore
    /\ Status(o) \in {"Open", "Cancelled"} => a.activatedAt = Never
    /\ Status(o) = "Exercised" =>
         a.settledAt \in a.activatedAt..now /\ a.settledAt < a.terms.expiresAt
    /\ Status(o) = "Expired" => a.settledAt \in a.terms.expiresAt..now
    /\ Status(o) = "Cancelled" => a.settledAt \in a.createdAt..now

\* While an agreement can still be exercised its settlement account is the PDA's alone,
\* whatever is done to accounts of agreements already settled: validate_settlement
\* never refuses an exercise, and no tokens are delivered into an account someone else
\* can move (cleanup_terminal hands over terminal accounts only).
Custody ==
  \A o \in Offers : Status(o) \in {"Open", "Active"} => ValidSettlement(o)

\* The recorded delivery is the gross quantity less the issuer's fee, never inflated by
\* tokens that reached the settlement account before (exercise subtracts the balance
\* before the transfer).
DeliveryRecorded ==
  \A o \in Offers :
    IF Status(o) = "Exercised"
    THEN \E fee \in Fees : agreements[o].netReceived + fee = Terms(o).quantity
    ELSE agreements[o].netReceived = 0

-----------------------------------------------------------------------------
(* Action properties *)

\* An agreement only ever moves forward; from creation on its terms, from activation on
\* its parties and policy version, and from settlement on the whole record are final, so
\* nothing an administrator, the issuer or another agreement does rewrites a right.
RightStep ==
  \A o \in Offers :
    LET a == agreements[o]
        b == agreements'[o] IN
    a # b =>
      /\ <<a.status, b.status>> \in
           {<<"Absent", "Open">>, <<"Open", "Active">>, <<"Open", "Cancelled">>,
            <<"Active", "Exercised">>, <<"Active", "Expired">>}
      /\ a.status # "Absent" => b.terms = a.terms /\ b.createdAt = a.createdAt
      /\ a.status = "Active" =>
           /\ b.writer = a.writer /\ b.holder = a.holder
           /\ b.activatedAt = a.activatedAt /\ b.policyVersion = a.policyVersion
Irrevocable == [][RightStep]_vars

\* The PDA gives up a settlement account only in favour of the one wallet the outcome
\* names: the writer of an exercised or expired agreement, the creator of a cancelled
\* one; and never while it is frozen (handoff in exercise and cleanup_terminal).
HandoffStep ==
  \A o \in Offers :
    settlement[o].title = "agreement" /\ settlement'[o].title # "agreement" =>
      /\ agreements'[o].status \in Terminal
      /\ settlement'[o].title = IF agreements'[o].status = "Cancelled" THEN o[1]
                                ELSE agreements'[o].writer
      /\ ~settlement[o].frozen
HandedToBeneficiary == [][HandoffStep]_vars

-----------------------------------------------------------------------------
(* What the code promises that is not a matter of one transition *)

\* Every locked-up dollar has somebody who can take it out now: the creator of an open
\* offer, the holder of a live protection who has the tokens (unless the issuer blocks
\* their transfer, and whatever fee it withholds), the writer of an expired one.  No policy,
\* donation, other agreement or issuer setting of the mint stands in the way (cancel_offer,
\* exercise and reclaim_expired read no policy; refunds read no mint).
FundsReachable ==
  \A o \in Offers :
    LET a == agreements[o] IN
    /\ Status(o) = "Open" => CanRefund(o, o[1], FALSE)
    /\ Status(o) = "Active" /\ now >= a.terms.expiresAt =>
         a.writer \in Wallets /\ CanRefund(o, a.writer, TRUE)
    /\ /\ Status(o) = "Active" /\ now < a.terms.expiresAt
       /\ shares[a.holder] >= a.terms.quantity
       /\ ~mint.hooked /\ ~mint.paused /\ ~settlement[o].frozen
       => \A fee \in Fees : fee <= a.terms.quantity => CanExercise(o, a.holder, fee)

\* The authority can always stop new commitments, with any terms that disable and whatever
\* the issuer made of the mint ("Disabling admission must remain possible even after an
\* unsupported issuer change", asset_policy.rs:55), up to the last version number.
CanDisable ==
  policy.version \in 1..MaxVersion - 1 =>
    config \in Wallets /\ \A t \in PolicyInputs : ~t.enabled => CanUpdatePolicy(config, t)

\* The comment at cleanup_terminal.rs:87 taken at its word: after the handoff the account
\* may be closed or transferred, and late donations remain recoverable by the original
\* terminal beneficiary.
LateDonationsRecoverable ==
  \A o \in Offers :
    Status(o) \in Terminal /\ surplus[o] > 0 => CanCleanUp(o, Beneficiary(o))

-----------------------------------------------------------------------------
(* Refinement: the program keeps the promise *)

Phase(status) ==
  IF status = "Absent" THEN "unborn"
  ELSE IF status = "Open" THEN "offered"
  ELSE IF status = "Active" THEN "protected"
  ELSE IF status = "Exercised" THEN "delivered"
  ELSE IF status = "Cancelled" THEN "withdrawn" ELSE "lapsed"

\* The escrow is what is in the reserve account beyond the donations, the cash what is
\* in the wallet but for the owner's donations and sweeps.
Promise == INSTANCE Protection WITH
  Rights <- Offers,
  Deals  <- OfferInputs,
  Wealth <- InitialUsdc,
  time   <- now,
  phase  <- [o \in Offers |-> Phase(Status(o))],
  deal   <- [o \in Offers |-> IF Status(o) = "Absent" THEN None ELSE Terms(o)],
  writer <- [o \in Offers |-> agreements[o].writer],
  holder <- [o \in Offers |-> agreements[o].holder],
  escrow <- [o \in Offers |-> reserve[o] - surplus[o]],
  cash   <- [w \in Wallets |-> usdc[w] - outside[w]]

\* Whatever wallets, issuer, authority and donors do between them, each agreement lives
\* by the promise: the account balances move exactly as the deal says, once, and every
\* other step is invisible to it.
KeepsPromise == Promise!Spec

-----------------------------------------------------------------------------
(* Liveness *)

\* The clock advances; a writer reclaims an expired reserve and a beneficiary cleans up
\* for as long as there is something to gain (the portfolio keeps offering both).  No
\* other wallet has to do anything, and nothing is assumed of the issuer.
Fairness ==
  /\ WF_vars(Tick)
  /\ \A o \in Offers, w \in Wallets :
       WF_vars(Refund(o, w, TRUE)) /\ WF_vars(CleanupTerminal(o, w))

FairSpec == Spec /\ Fairness

\* Under that fairness the promise's own liveness holds: time passes, and a protection
\* that lapsed is paid back.
KeepsFairPromise == Promise!FairSpec

\* A donation to a settled agreement's reserve reaches the beneficiary, unless the
\* settlement account came back to the PDA in a state cleanup refuses.
DonationsSwept ==
  \A o \in Offers :
    Status(o) \in Terminal /\ surplus[o] > 0
      ~> surplus[o] = 0 \/ settlement[o].encumbered

\* A freeze only postpones the handoff: once the issuer leaves the account thawed, the
\* beneficiary of a cancelled or expired agreement gets it (cleanup_terminal.rs:106).
HandoffRetried ==
  \A o \in Offers :
    <>[](~settlement[o].frozen /\ ~settlement[o].encumbered) =>
      (Status(o) \in {"Cancelled", "Expired"} ~> settlement[o].title # "agreement")
=============================================================================
