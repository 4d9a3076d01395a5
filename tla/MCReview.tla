------------------------------ MODULE MCReview ------------------------------
(***************************************************************************)
(* One agreement, and either a page that reviews an action on it or a      *)
(* signed action whose fate is followed: neither reads the other, so each  *)
(* behaviour has one of the two.                                           *)
(***************************************************************************)
EXTENDS MCSettlement, Preview, Outcome

reviewVars == <<previewVars, attempt, done>>

ReviewInit == PreviewInit /\ OutcomeInit

ReviewNext ==
  \/ attempt = None /\ PreviewNext /\ UNCHANGED <<attempt, done>>
  \/ clock = Never /\ review = None /\ signed = None /\ row = [o \in Offers |-> Blank]
     /\ OutcomeNext /\ UNCHANGED pageVars

ReviewSpec == ReviewInit /\ [][ReviewNext]_reviewVars
=============================================================================
