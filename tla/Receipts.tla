------------------------------- MODULE Receipts -------------------------------
(***************************************************************************)
(* The server's receipts of signed operations (activity/mod.rs,            *)
(* activity/reconcile.rs, adapters/activity.rs, http.rs).  Requests record *)
(* a signature and relay its transaction; a worker takes the receipts in   *)
(* flight, a few at a time, and follows them to an outcome.  Every read is *)
(* a request to some node that may lag; every request and every pass of    *)
(* the worker may end at any point (an error, a timeout, a restart), and a *)
(* transaction may also be sent by other ways.  All signatures are of one  *)
(* wallet on one agreement, and all but the unprovable ones pursue one     *)
(* effect, granted once.                                                   *)
(***************************************************************************)
EXTENDS Naturals, Sequences, FiniteSets, SequencesExt, FiniteSetsExt

CONSTANTS
  Signatures, Requests,
  Unprovable, \* signatures whose effect the agreement cannot show: cleanups, which can be
              \* repeated, and creations of an identity that other terms have
  Limit,     \* receipts per pass (LIMIT 10)
  Life,      \* blocks for which a blockhash is valid
  NodeLag,   \* blocks a node may lag
  Depth,     \* blocks after which a block is finalized
  MaxTip,    \* bound: the last block
  MaxBorn,   \* bound: the last block whose blockhash is signed
  None

ASSUME ReceiptsAssumption ==
  /\ None \notin Signatures \cup Requests /\ Unprovable \subseteq Signatures
  /\ Limit \in Nat \ {0}
  /\ Life \in Nat /\ NodeLag \in Nat /\ Depth \in Nat \ {0} /\ MaxTip \in Nat /\ MaxBorn \in Nat

VARIABLES
  status,    \* table activity: a receipt's status, "none" when there is no row
  bound,     \* its last_valid_block_height
  fresh,     \* receipts in flight never checked yet, by id
  rest,      \* the other receipts in flight, by checked_at
  indexed,   \* finalized slot of the agreement's row in the index
  request,   \* per request: its step, signature, minimum slot and lifetime bound
  job,       \* the worker's pass
  born, sent, tip, landed, worked
  \* block of a signature's blockhash, signatures sent to the ledger, the block being
  \* produced, the block that includes a transaction (0: none), those that succeeded

table == <<status, bound, fresh, rest>>
chain == <<tip, landed, worked>>
receiptsVars == <<table, indexed, request, job, born, sent, chain>>

Final    == {"finalized", "failed", "expired", "reconciled"}
InFlight == {"pending", "provisional", "unresolved"}

NoRequest == [step |-> "idle", of |-> None, minimum |-> 0, height |-> 0]
NoJob == [step |-> "idle", todo |-> <<>>, root |-> 0, said |-> <<>>, minimum |-> 0,
          completed |-> <<>>]

ReceiptsInit ==
  /\ status = [s \in Signatures |-> "none"] /\ bound = [s \in Signatures |-> 0]
  /\ fresh = <<>> /\ rest = <<>> /\ indexed = 0
  /\ request = [r \in Requests |-> NoRequest] /\ job = NoJob
  /\ born = [s \in Signatures |-> 0] /\ sent = {}
  /\ tip = 1 /\ landed = [s \in Signatures |-> 0] /\ worked = {}

-----------------------------------------------------------------------------
(* The ledger and its nodes *)

\* The last finalized block.
root == IF tip > Depth THEN tip - Depth ELSE 0

Expiry(s) == born[s] + Life
Signed(s) == born[s] # 0

\* The blocks a node may be at, when the newest one is given.
Views(newest) == {v \in 0..newest : v + NodeLag >= newest}

\* What a node at a block knows of a signature and of the effect.
Known(s, v) == landed[s] # 0 /\ landed[s] <= v
Taken(v) == \E s \in worked \ Unprovable : landed[s] <= v

Ledger == UNCHANGED <<table, indexed, request, job>>

Sign(s) == /\ ~Signed(s) /\ tip <= MaxBorn
           /\ born' = [born EXCEPT ![s] = tip]
           /\ Ledger /\ UNCHANGED <<sent, chain>>

\* By the wallet itself, or by anybody who has the signed bytes.
SendElsewhere(s) == /\ Signed(s) /\ s \notin sent /\ sent' = sent \cup {s}
                    /\ Ledger /\ UNCHANGED <<born, chain>>

\* The effect is granted at most once; a transaction may fail for other reasons too, and an
\* unprovable one may succeed next to it.
Land(s) ==
  /\ s \in sent /\ landed[s] = 0 /\ tip <= Expiry(s)
  /\ landed' = [landed EXCEPT ![s] = tip]
  /\ \/ worked' = worked
     \/ (s \in Unprovable \/ worked \subseteq Unprovable) /\ worked' = worked \cup {s}
  /\ Ledger /\ UNCHANGED <<born, sent, tip>>

\* A fork that is abandoned takes the newest block's transactions with it.
Abandon(s) ==
  /\ landed[s] = tip
  /\ landed' = [landed EXCEPT ![s] = 0] /\ worked' = worked \ {s}
  /\ Ledger /\ UNCHANGED <<born, sent, tip>>

Advance == tip < MaxTip /\ tip' = tip + 1
           /\ Ledger /\ UNCHANGED <<born, sent, landed, worked>>

-----------------------------------------------------------------------------
(* sendTransaction: record_submission and the relay *)

At(r, step) == request[r].step = step
Goes(r, step) == request' = [request EXCEPT ![r].step = step]
Ends(r) == request' = [request EXCEPT ![r] = NoRequest]
Refused(r) == request' = [request EXCEPT ![r] = [NoRequest EXCEPT !.step = "refused"]]
Asking == UNCHANGED <<table, indexed, job, born, sent, chain>>

\* A saved receipt is not checked again.
Arrive(r, s) ==
  /\ request[r].step \in {"idle", "refused"} /\ Signed(s)
  /\ request' = [request EXCEPT ![r] =
       [NoRequest EXCEPT !.step = IF status[s] = "none" THEN "valid" ELSE "relay", !.of = s]]
  /\ Asking

\* isBlockhashValid, after the actor's role and the admission (see Drop): a node finds the
\* blockhash too old, or does not know it yet.
Refuse(r) ==
  /\ At(r, "valid")
  /\ \E v \in Views(tip) : v < born[request[r].of] \/ v > Expiry(request[r].of)
  /\ Refused(r) /\ Asking

CheckBlockhash(r) ==
  LET s == request[r].of IN
  /\ At(r, "valid")
  /\ \E v \in Views(tip) :
       /\ born[s] <= v /\ v <= Expiry(s)
       /\ request' = [request EXCEPT ![r].step = "lifetime", ![r].minimum = v]
  /\ Asking

\* Bound: late in the chain no receipt is begun, to leave room for its outcome.
Early == tip + Life + NodeLag + Depth < MaxTip

SlipLifetime(r) ==
  /\ At(r, "lifetime") /\ Early
  /\ \E v \in Views(tip) :
       request' = [request EXCEPT ![r].step = "simulate", ![r].height = v + Life]
  /\ Asking

\* getLatestBlockhash at the slot of that check or later: the newest blockhash outlives
\* the signature's.
Lifetime(r) ==
  /\ At(r, "lifetime") /\ Early
  /\ \E v \in Views(tip) :
       /\ v >= request[r].minimum
       /\ request' = [request EXCEPT ![r].step = "simulate", ![r].height = v + Life]
  /\ Asking

\* A node that already knows the transaction, the effect or a too high block refuses it,
\* and any node may.
Simulate(r) ==
  LET s == request[r].of IN
  /\ At(r, "simulate")
  /\ \/ Goes(r, "again")
     \/ /\ \E v \in Views(tip) :
             v >= request[r].minimum /\ v <= Expiry(s) /\ ~Known(s, v) /\ (Taken(v) => s \in Unprovable)
        /\ Goes(r, "insert")
  /\ Asking

\* The receipt is looked for once more: a concurrent request may have saved it.
LookAgain(r) ==
  /\ At(r, "again")
  /\ IF status[request[r].of] = "none" THEN Refused(r) ELSE Goes(r, "relay")
  /\ Asking

\* ON CONFLICT DO NOTHING; a new receipt has never been checked.
Insert(r) ==
  LET s == request[r].of IN
  /\ At(r, "insert")
  /\ IF status[s] # "none" THEN UNCHANGED table
     ELSE /\ status' = [status EXCEPT ![s] = "pending"]
          /\ bound' = [bound EXCEPT ![s] = request[r].height]
          /\ fresh' = Append(fresh, s)
          /\ UNCHANGED rest
  /\ Goes(r, "relay")
  /\ UNCHANGED <<indexed, job, born, sent, chain>>

Relay(r) ==
  /\ At(r, "relay")
  /\ sent' = sent \cup {request[r].of}
  /\ Ends(r)
  /\ UNCHANGED <<table, indexed, job, born, chain>>

\* An error, a timeout or a restart: also after the receipt was saved, and before the relay.
\* (A wrong actor, or an admission that was withdrawn, ends a request like this.)
Drop(r) == request[r].step \notin {"idle", "refused"} /\ Ends(r) /\ Asking

-----------------------------------------------------------------------------
(* The worker: refresh *)

Doing(step) == job.step = step
Reading == UNCHANGED <<table, indexed, request, born, sent, chain>>

\* pending: those never checked come first, then the least recently checked.
Queue == fresh \o rest
Pick ==
  /\ Doing("idle") /\ Queue # <<>>
  /\ job' = [NoJob EXCEPT !.step = "root",
                          !.todo = SubSeq(Queue, 1, IF Len(Queue) < Limit THEN Len(Queue) ELSE Limit)]
  /\ Reading

\* getEpochInfo, before the history.
ReadRoot ==
  /\ Doing("root")
  /\ \E v \in Views(root) : job' = [job EXCEPT !.step = "history", !.root = v, !.minimum = v]
  /\ Reading

\* getSignatureStatuses: one node answers for all; a history it does not have, or no longer
\* has, is null.
Said(s, final, newest) ==
  {"null"} \cup (IF Known(s, final) THEN {"finalized"}
                 ELSE IF Known(s, newest) THEN {"processed", "confirmed"} ELSE {})
ReadHistory ==
  /\ Doing("history")
  /\ \E final \in Views(root), newest \in Views(tip) :
     \E said \in [1..Len(job.todo) -> {"null", "processed", "confirmed", "finalized"}] :
       /\ \A i \in DOMAIN said : said[i] \in Said(job.todo[i], final, newest)
       /\ job' = [job EXCEPT !.step = "judge", !.said = said]
  /\ Reading

Without(queue, s) ==
  IF s \in ToSet(queue) THEN RemoveAt(queue, CHOOSE i \in DOMAIN queue : queue[i] = s) ELSE queue

SlipUpdate(s, new) ==
  /\ status' = [status EXCEPT ![s] = IF @ \in InFlight THEN new ELSE @]
  /\ fresh' = Without(fresh, s)
  /\ rest' = LET others == Without(rest, s)
             IN  IF new \in {"pending", "provisional"} THEN Append(others, s) ELSE others
  /\ UNCHANGED <<bound, indexed, request, born, sent, chain>>

\* update: only a receipt in flight changes, and it is now the last one checked.
Update(s, new) ==
  /\ status' = [status EXCEPT ![s] = IF @ \in InFlight THEN new ELSE @]
  /\ fresh' = Without(fresh, s)
  /\ rest' = LET others == Without(rest, s)
             IN  IF status[s] \in InFlight /\ new \in InFlight THEN Append(others, s) ELSE others
  /\ UNCHANGED <<bound, indexed, request, born, sent, chain>>

\* The rest of the pass: the next receipt, the index, or its end.
Onward(j) == IF j.todo # <<>> THEN j
             ELSE IF j.completed = <<>> THEN NoJob ELSE [j EXCEPT !.step = "index", !.root = 0]
Next1 == [job EXCEPT !.todo = Tail(@), !.said = Tail(@)]

\* Not complete: saved at once.
Saves(new) == Update(Head(job.todo), new) /\ job' = Onward(Next1)

SlipCompletes(new, v) ==
  /\ job' = Onward([Next1 EXCEPT !.completed = Append(@, [of |-> Head(job.todo), status |-> new])])
  /\ Reading

\* Complete: saved after the agreement is indexed, at slot v or later.
Completes(new, v) ==
  /\ job' = Onward([Next1 EXCEPT !.completed = Append(@, [of |-> Head(job.todo), status |-> new]),
                                !.minimum = IF v > @ THEN v ELSE @])
  /\ Reading

Dead(s) == job.root > bound[s]

\* effect: the agreement at a slot no older than the root read first.  Of an unprovable
\* signature it says nothing, in this pass or any later one.  (What it proves of the others
\* is the module Outcome's.)
Effect(s) == \E v \in Views(root) :
  /\ v >= job.root
  /\ \/ s \in Unprovable /\ Saves("unresolved")
     \/ s \notin Unprovable /\ Taken(v) /\ Completes("reconciled", v)
     \/ s \notin Unprovable /\ ~Taken(v) /\ Saves("expired")

Judge ==
  /\ Doing("judge")
  /\ LET s == Head(job.todo)  said == Head(job.said) IN
     \/ said = "finalized" /\ s \in worked /\ Completes("finalized", landed[s])
     \/ said = "finalized" /\ s \notin worked /\ Saves("failed")
     \/ said = "confirmed" /\ Saves("provisional")
     \/ said = "processed" /\ Saves("pending")
     \/ said = "null" /\ ~Dead(s) /\ Saves("pending")
     \/ said = "null" /\ Dead(s) /\ Effect(s)

EffectFails ==
  /\ Doing("judge") /\ Head(job.said) = "null" /\ Dead(Head(job.todo))
  /\ Saves("unresolved")

\* refresh_batches: the agreement's accounts at that slot or later ...
Index ==
  /\ Doing("index")
  /\ \E v \in Views(root) :
       /\ v >= job.minimum
       /\ indexed' = IF v > indexed THEN v ELSE indexed
  /\ job' = [job EXCEPT !.step = "complete", !.minimum = 0]
  /\ UNCHANGED <<table, request, born, sent, chain>>

\* ... or an error: the receipts keep their status and go to the end of the queue.
IndexFails ==
  /\ Doing("index")
  /\ job' = [job EXCEPT !.step = "rotate", !.minimum = 0]
  /\ Reading

Head1 == Head(job.completed)
Done == IF Len(job.completed) = 1 THEN NoJob ELSE [job EXCEPT !.completed = Tail(@)]

Complete == Doing("complete") /\ Update(Head1.of, Head1.status) /\ job' = Done
Rotate   == Doing("rotate") /\ Update(Head1.of, status[Head1.of]) /\ job' = Done

\* A failed read ends the pass; so does a restart, at any point.
Stop == ~Doing("idle") /\ job' = NoJob /\ Reading

-----------------------------------------------------------------------------
Steps(r) == CheckBlockhash(r) \/ Lifetime(r) \/ Simulate(r) \/ LookAgain(r) \/ Insert(r) \/ Relay(r)
Work == Pick \/ ReadRoot \/ ReadHistory \/ Judge \/ Index \/ Complete \/ Rotate

ReceiptsNext ==
  \/ \E s \in Signatures : Sign(s) \/ SendElsewhere(s) \/ Land(s) \/ Abandon(s)
  \/ Advance
  \/ \E r \in Requests : \/ \E s \in Signatures : Arrive(r, s)
                         \/ Refuse(r) \/ Steps(r) \/ Drop(r)
  \/ Work \/ EffectFails \/ IndexFails \/ Stop

\* Blocks are produced, the worker's timer ticks, and there comes a time from
\* which its requests succeed.  Nothing is asked of the wallet, the requests or the relay.
Fairness ==
  /\ WF_receiptsVars(Advance) /\ WF_receiptsVars(Work)
  /\ <>[][~EffectFails /\ ~IndexFails /\ ~Stop]_receiptsVars

ReceiptsSpec == ReceiptsInit /\ [][ReceiptsNext]_receiptsVars /\ Fairness

-----------------------------------------------------------------------------
(* Properties *)

Recorded(s) == status[s] # "none"

\* A receipt is never followed for a shorter time than its transaction can land, though
\* the server never sees the block of the blockhash and each of its reads may be answered
\* by another node (mod.rs:123).
BoundCovers == \A s \in Signatures : Recorded(s) => bound[s] >= Expiry(s)

\* An outcome is true when it is saved and for ever after, also for a transaction that
\* landed late, on a fork that was abandoned, or by another way; and who reads of a success
\* finds the agreement indexed with it.
OutcomeTrue ==
  \A s \in Signatures :
    CASE status[s] = "finalized"  -> s \in worked /\ landed[s] <= root /\ indexed >= landed[s]
      [] status[s] = "failed"     -> s \notin worked /\ landed[s] # 0 /\ landed[s] <= root
      [] status[s] = "expired"    -> s \notin worked /\ root > Expiry(s)
      [] status[s] = "reconciled" -> root > Expiry(s) /\ Taken(indexed)
      [] OTHER -> TRUE

\* A signature that has a receipt is never refused by a check, so that it can always be
\* sent again ("Keep concurrent retries as idempotent as saved ones", mod.rs:176).
RetriesAccepted ==
  [][\A r \in Requests : request[r].of # None /\ Recorded(request[r].of) => request'[r].step # "refused"]_receiptsVars

\* The signature of s can land no more, the history does not say that it did, and the
\* agreement says nothing of it: "repeatable residual recovery cannot be proven from
\* balances alone and can remain unresolved if its signature history is lost"
\* (offer-lifecycle.md:74).
LeftOpen(s) == s \in Unprovable /\ status[s] = "unresolved" /\ root > Expiry(s)

\* Every receipt gets an outcome, whatever was lost on the way, however often the worker is
\* restarted or the index refuses, though each pass takes only some of them, and though the
\* ones left open are taken again and again.
Settles == \A s \in Signatures : Recorded(s) ~> status[s] \in Final \/ LeftOpen(s)
=============================================================================
