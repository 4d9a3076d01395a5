------------------------------ MODULE Outcome -------------------------------
(***************************************************************************)
(* What an agreement account proves about a signature nobody can find any  *)
(* more.  A wallet signs one action; long after the signature can no       *)
(* longer land, the browser (reconcile.ts) and the server (effect_status)  *)
(* each decide from the account alone whether the action took effect.      *)
(* The whole settlement program runs underneath, so other wallets, other   *)
(* transactions of the same wallet and the issuer act in between.          *)
(***************************************************************************)
EXTENDS Plan

VARIABLES
  attempt,  \* the signed action that is followed, or None
  done      \* history: that action, by that wallet, has executed since

outcomeVars == <<vars, attempt, done>>

\* What the browser keeps of a signed action (PendingTransaction).
Attempt == [op : Operations, owner : Wallets, offer : Offers,
            side : Sides, role : Sides, terms : OfferTerms]

ASSUME AttemptAssumption == None \notin Attempt /\ None \notin Sides

OutcomeInit == Init /\ attempt = None /\ done = FALSE

\* The wallet signs what buildAction built for it; from here the signature may be sent,
\* lost, or overtaken.
Sign(o, w, op, t) ==
  /\ attempt = None
  /\ CanBuild(o, w, op, t)
  /\ attempt' = [op |-> op, owner |-> w, offer |-> o, side |-> t.side,
                 role |-> ActionRole(op, t.side, Status(o)), terms |-> t]
  /\ done' = FALSE
  /\ UNCHANGED vars

\* A step of the chain.  It counts for the attempt whichever transaction carried it: an
\* account cannot tell two signatures of one wallet apart ("These facts prove the effect,
\* not inclusion of this particular signature", reconcile.ts:76).
ChainStep ==
  /\ Next
  /\ attempt' = attempt
  /\ done' = (done \/ (attempt # None /\ Executes(attempt.offer, attempt.owner, attempt.op, attempt.terms)))

OutcomeNext ==
  \/ ChainStep
  \/ \E o \in Offers, w \in Wallets, op \in Operations :
       \E t \in IF op = "create" THEN OfferInputs ELSE {Terms(o)} : Sign(o, w, op, t)

OutcomeSpec == OutcomeInit /\ [][OutcomeNext]_outcomeVars

-----------------------------------------------------------------------------
(* The two judges *)

\* The role a wallet must have acted in, for the server (effect_status).
ExpectedRole(op, a) ==
  IF op \in {"create", "cancel"} \/ (op = "cleanup" /\ a.status = "Cancelled")
  THEN a.terms.side
  ELSE IF op = "activate" THEN Counterpart(a.terms.side)
  ELSE IF op = "exercise" THEN "Holder" ELSE "Writer"

Accepted(a) == a.activatedAt # Never

PartyOf(a, role) == IF role = "Writer" THEN a.writer ELSE a.holder

Proves(happened) == IF happened THEN "reconciled" ELSE "expired"

SlipOnlyDelivered(p, a) ==
  IF a.status = "Absent" THEN IF p.op = "create" THEN "expired" ELSE "unresolved"
  ELSE IF a.terms.side # p.side THEN "unsupported"
  ELSE IF p.op = "create" THEN IF a.terms = p.terms THEN "reconciled" ELSE "unresolved"
  ELSE IF p.op = "cancel" /\ p.role = p.side THEN Proves(a.status = "Cancelled")
  ELSE IF p.op = "reclaim" /\ a.writer = p.owner /\ p.role = "Writer" THEN Proves(a.status = "Expired")
  ELSE IF p.op = "activate" /\ p.role = Counterpart(p.side)
  THEN Proves(Accepted(a) /\ PartyOf(a, p.role) = p.owner)
  ELSE IF p.op = "exercise" /\ p.role = "Holder" /\ a.holder = p.owner
          /\ a.status \in {"Exercised", "Active"}
  THEN Proves(a.status = "Exercised") ELSE "unresolved"

\* observeAction, from the account on: p is the saved transaction, a the account at a
\* finalized slot ("Absent" when there is none).
BrowserVerdict(p, a) ==
  IF a.status = "Absent" THEN IF p.op = "create" THEN "expired" ELSE "unresolved"
  ELSE IF a.terms.side # p.side THEN "unsupported"
  ELSE IF p.op = "create" THEN IF a.terms = p.terms THEN "reconciled" ELSE "unresolved"
  ELSE IF p.op = "cancel" /\ p.role = p.side THEN Proves(a.status = "Cancelled")
  ELSE IF p.op = "reclaim" /\ a.writer = p.owner /\ p.role = "Writer" THEN Proves(a.status = "Expired")
  ELSE IF p.op = "activate" /\ p.role = Counterpart(p.side)
  THEN Proves(Accepted(a) /\ PartyOf(a, p.role) = p.owner)
  ELSE IF p.op = "exercise" /\ p.role = "Holder" /\ a.holder = p.owner
          /\ a.status \in {"Exercised", "Active", "Expired"}
  THEN Proves(a.status = "Exercised") ELSE "unresolved"

SlipAnyAcceptance(p, a) ==
  IF a.status = "Absent" THEN IF p.op = "create" THEN "expired" ELSE "unresolved"
  ELSE IF p.side # a.terms.side \/ p.role # ExpectedRole(p.op, a) THEN "unresolved"
  ELSE CASE p.op = "create" -> IF a.terms = p.terms THEN "reconciled" ELSE "unresolved"
         [] p.op = "cancel" -> Proves(a.status = "Cancelled")
         [] p.op = "reclaim" /\ a.writer = p.owner -> Proves(a.status = "Expired")
         [] p.op = "activate" -> Proves(Accepted(a))
         [] p.op = "exercise" /\ a.holder = p.owner -> Proves(a.status = "Exercised")
         [] OTHER -> "unresolved"

\* prove_effect and effect_status.
ServerVerdict(p, a) ==
  IF a.status = "Absent" THEN IF p.op = "create" THEN "expired" ELSE "unresolved"
  ELSE IF p.side # a.terms.side \/ p.role # ExpectedRole(p.op, a) THEN "unresolved"
  ELSE CASE p.op = "create" -> IF a.terms = p.terms THEN "reconciled" ELSE "unresolved"
         [] p.op = "cancel" -> Proves(a.status = "Cancelled")
         [] p.op = "reclaim" /\ a.writer = p.owner -> Proves(a.status = "Expired")
         [] p.op = "activate" -> Proves(Accepted(a) /\ PartyOf(a, p.role) = p.owner)
         [] p.op = "exercise" /\ a.holder = p.owner -> Proves(a.status = "Exercised")
         [] OTHER -> "unresolved"

SlipCreatorActs(p, a) ==
  LET role == Counterpart(a.terms.side) IN
  CASE p.op = "create" -> p.side
    [] p.op = "activate" /\ p.owner # p.offer[1] /\ a.terms.designated \in {None, p.owner}
         /\ PartyOf(a, role) \in {None, p.owner} -> role
    [] p.op = "cancel" /\ p.owner = p.offer[1] -> a.terms.side
    [] p.op = "exercise" /\ a.holder = p.owner -> "Holder"
    [] p.op = "reclaim" /\ p.owner = p.offer[1] -> "Writer"
    [] p.op = "cleanup" /\ a.status = "Cancelled" /\ p.owner = p.offer[1] -> a.terms.side
    [] p.op = "cleanup" /\ a.status # "Cancelled" /\ a.writer = p.owner -> "Writer"
    [] OTHER -> None

\* actor_role when the server records the transaction, None when it refuses to relay it.
ServerRole(p, a) ==
  LET role == Counterpart(a.terms.side) IN
  CASE p.op = "create" -> p.side
    [] p.op = "activate" /\ p.owner # p.offer[1] /\ a.terms.designated \in {None, p.owner}
         /\ PartyOf(a, role) \in {None, p.owner} -> role
    [] p.op = "cancel" /\ p.owner = p.offer[1] -> a.terms.side
    [] p.op = "exercise" /\ a.holder = p.owner -> "Holder"
    [] p.op = "reclaim" /\ a.writer = p.owner -> "Writer"
    [] p.op = "cleanup" /\ a.status = "Cancelled" /\ p.owner = p.offer[1] -> a.terms.side
    [] p.op = "cleanup" /\ a.status # "Cancelled" /\ a.writer = p.owner -> "Writer"
    [] OTHER -> None

\* parsePending reads back only roles that fit the operation.
Readable(p) ==
  /\ p.op = "create"   => p.terms.side = p.side /\ p.role = p.side
  /\ p.op = "activate" => p.role # p.side
  /\ p.op = "cancel"   => p.role = p.side
  /\ p.op = "exercise" => p.role = "Holder"
  /\ p.op = "reclaim"  => p.role = "Writer"

-----------------------------------------------------------------------------
(* Properties *)

OutcomeTypeOK ==
  /\ attempt \in Attempt \cup {None}
  /\ done \in BOOLEAN

\* Neither judge is ever wrong, at any later moment and whatever happened to the agreement
\* meanwhile: "reconciled" means the wallet's action has taken effect, "expired" that it
\* has not (and, the signature being dead, that this one never will).
EffectProved ==
  attempt # None =>
    LET a == agreements[attempt.offer] IN
    \A verdict \in {BrowserVerdict(attempt, a), ServerVerdict(attempt, a)} :
      /\ verdict = "reconciled" => done
      /\ verdict = "expired" => ~done

\* Somebody else's terms at the address the attempt wanted (a nonce used twice).
Collision(p) == p.op = "create" /\ Status(p.offer) # "Absent" /\ Terms(p.offer) # p.terms

\* Both judges always reach a decision, except on a cleanup, which leaves no trace in the
\* account, and on a creation at an address taken by other terms.  An undecided signature
\* keeps the browser from signing anything else, so this is what frees it.
Decided ==
  attempt # None /\ attempt.op # "cleanup" /\ ~Collision(attempt) =>
    /\ BrowserVerdict(attempt, agreements[attempt.offer]) \in {"reconciled", "expired"}
    /\ ServerVerdict(attempt, agreements[attempt.offer]) \in {"reconciled", "expired"}

\* The server never refuses to record (and so to relay) a transaction the program would
\* take, and the role it records at submission is the one the browser saved at signing,
\* which the browser can read back: both judges look for the same effect.
RolesAgree ==
  attempt # None =>
    LET role == ServerRole(attempt, agreements[attempt.offer]) IN
    /\ Readable(attempt)
    /\ role \in {attempt.role, None}
    /\ role = None => ~Accepts(attempt.offer, attempt.owner, attempt.op, attempt.terms)
=============================================================================
