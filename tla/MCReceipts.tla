----------------------------- MODULE MCReceipts -----------------------------
(* Two signatures (one may stay unprovable), two concurrent requests, and passes of one receipt. *)
EXTENDS Receipts
=============================================================================
