------------------------------ MODULE MCJournal -------------------------------
(***************************************************************************)
(* Two tabs that sign two attempts and may be reloaded, and one tab with   *)
(* another device and an erased storage.                                   *)
(***************************************************************************)
EXTENDS Journal, TLC

CONSTANTS t1, t2, a1, a2

Symmetry == Permutations(Tabs) \cup Permutations(Own)

\* Bound on what is explored from: open tabs, attempts begun and reloads together, and
\* fewer blocks once two tabs are open, fewer still once both attempts are begun as well.
Opened == {t \in Tabs : tracked[t] # Unknown \/ seen[t] # Unknown}
Begun  == {n \in Own : expiry[n] # 0 \/ \E t \in Tabs : exec[t].attempt = n}
Bounded ==
  /\ Cardinality(Opened) + Cardinality(Begun) + crashes <= 4
  /\ Cardinality(Opened) = 2 => tip <= (IF Cardinality(Begun) = 2 THEN 2 ELSE 3)
=============================================================================
