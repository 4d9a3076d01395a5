---------------------------- MODULE MCSettlement ----------------------------
(* Small instances of Settlement for TLC. *)
EXTENDS Settlement

CONSTANTS alice, bob, carol

SoloOffers == {<<alice, 1>>}
PairOffers == {<<alice, 1>>, <<bob, 1>>}

Deal(side, designated, quantity, payout, premium, acceptBefore, expiresAt) ==
  [side |-> side, designated |-> designated, quantity |-> quantity, payout |-> payout,
   premium |-> premium, acceptBefore |-> acceptBefore, expiresAt |-> expiresAt]

SoloInputs == {Deal("Writer", None, 1, 2, 1, 1, 2), Deal("Holder", None, 1, 2, 1, 2, 2)}
AdmissionInputs ==
  {Deal("Writer", None, 1, 2, 1, 1, 2), Deal("Holder", carol, 1, 2, 1, 2, 2),
   Deal("Writer", alice, 1, 2, 1, 1, 2), Deal("Writer", None, 1, 2, 0, 1, 2),
   Deal("Holder", None, 1, 2, 1, 2, 1)}

PairInputs == {Deal("Writer", None, 1, 3, 1, 1, 2), Deal("Holder", None, 1, 2, 1, 2, 2)}

Review(enabled, reviewedUntil, maxExpiry) ==
  [enabled |-> enabled, reviewedUntil |-> reviewedUntil, maxExpiry |-> maxExpiry]

Issued(hooked, paused, defaultFrozen) ==
  [hooked |-> hooked, paused |-> paused, defaultFrozen |-> defaultFrozen]

Reviews == {Review(TRUE, 1, 2), Review(TRUE, 2, 2), Review(FALSE, 0, 0)}
OnePolicy == {Review(TRUE, 2, 2)}
Mints == {Issued(FALSE, FALSE, FALSE), Issued(FALSE, TRUE, FALSE), Issued(TRUE, FALSE, FALSE),
          Issued(FALSE, FALSE, TRUE)}
OneMint == {Issued(FALSE, FALSE, FALSE)}
=============================================================================
