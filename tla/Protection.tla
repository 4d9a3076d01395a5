----------------------------- MODULE Protection -----------------------------
(***************************************************************************)
(* What Volaryn promises the two parties of a protection agreement, with   *)
(* no program, token account, policy, issuer or donation in sight: a deal  *)
(* is offered with the offering party's side of it locked up, taken by     *)
(* somebody else before a deadline, and then settled in exactly one of two *)
(* ways.  The deal never changes and the money moves by it alone.          *)
(***************************************************************************)
EXTENDS Integers

CONSTANTS
  Wallets,  \* the parties
  None,
  Rights,   \* the protection agreements, <<creator, number>>
  Deals,    \* the terms a right may be offered on
  Wealth,   \* USDC of each wallet at the start
  MaxTime   \* bound of the clock

VARIABLES
  time,
  phase,    \* of each right
  deal,     \* the terms of each right, None before it is offered
  writer,   \* who pays on delivery, None while nobody does
  holder,   \* who may deliver, None while nobody may
  escrow,   \* USDC locked up for each right
  cash      \* USDC of each wallet, as far as rights moved it

vars == <<time, phase, deal, writer, holder, escrow, cash>>

Init ==
  /\ time = 0
  /\ phase = [r \in Rights |-> "unborn"]
  /\ deal = [r \in Rights |-> None]
  /\ writer = [r \in Rights |-> None]
  /\ holder = [r \in Rights |-> None]
  /\ escrow = [r \in Rights |-> 0]
  /\ cash = [w \in Wallets |-> Wealth]

\* The offering party locks its price up; nobody can be its own counterparty.
Offer(r, d) ==
  LET price == IF d.side = "Writer" THEN d.payout ELSE d.premium IN
  /\ phase[r] = "unborn"
  /\ time < d.acceptBefore
  /\ phase' = [phase EXCEPT ![r] = "offered"]
  /\ deal' = [deal EXCEPT ![r] = d]
  /\ IF d.side = "Writer"
     THEN writer' = [writer EXCEPT ![r] = r[1]] /\ UNCHANGED holder
     ELSE holder' = [holder EXCEPT ![r] = r[1]] /\ UNCHANGED writer
  /\ escrow' = [escrow EXCEPT ![r] = price]
  /\ cash' = [cash EXCEPT ![r[1]] = @ - price]
  /\ UNCHANGED time

\* Somebody else takes the open role.  From here on the whole payout is locked up and
\* the premium is the writer's, whichever side the offer was made from.
Take(r, w) ==
  LET d == deal[r] IN
  /\ phase[r] = "offered"
  /\ w # r[1] /\ d.designated \in {None, w}
  /\ time < d.acceptBefore
  /\ phase' = [phase EXCEPT ![r] = "protected"]
  /\ escrow' = [escrow EXCEPT ![r] = d.payout]
  /\ IF d.side = "Writer"
     THEN /\ holder' = [holder EXCEPT ![r] = w] /\ UNCHANGED writer
          /\ cash' = [cash EXCEPT ![w] = @ - d.premium, ![r[1]] = @ + d.premium]
     ELSE /\ writer' = [writer EXCEPT ![r] = w] /\ UNCHANGED holder
          /\ cash' = [cash EXCEPT ![w] = @ - d.payout + d.premium]
  /\ UNCHANGED <<time, deal>>

\* Everything locked up goes to one wallet and the right is settled for good.
Settle(r, w, outcome) ==
  /\ phase' = [phase EXCEPT ![r] = outcome]
  /\ escrow' = [escrow EXCEPT ![r] = 0]
  /\ cash' = [cash EXCEPT ![w] = @ + escrow[r]]
  /\ UNCHANGED <<time, deal, writer, holder>>

Withdraw(r) == phase[r] = "offered" /\ Settle(r, r[1], "withdrawn")

Deliver(r) ==
  /\ phase[r] = "protected" /\ time < deal[r].expiresAt
  /\ Settle(r, holder[r], "delivered")

Lapse(r) ==
  /\ phase[r] = "protected" /\ time >= deal[r].expiresAt
  /\ Settle(r, writer[r], "lapsed")

Pass ==
  /\ time' \in time + 1 .. MaxTime
  /\ UNCHANGED <<phase, deal, writer, holder, escrow, cash>>

Next ==
  \/ Pass
  \/ \E r \in Rights :
       \/ \E d \in Deals : Offer(r, d)
       \/ \E w \in Wallets : Take(r, w)
       \/ Withdraw(r)
       \/ Deliver(r)
       \/ Lapse(r)

Spec == Init /\ [][Next]_vars

\* Time passes and a writer whose protection lapsed takes the money back.
Fairness == WF_vars(Pass) /\ \A r \in Rights : WF_vars(Lapse(r))

FairSpec == Spec /\ Fairness
=============================================================================
