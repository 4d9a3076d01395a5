-------------------------------- MODULE Index --------------------------------
(***************************************************************************)
(* The finalized index of the back end: two workers of one process read    *)
(* agreement/reserve pairs through RPC nodes that lag by different amounts *)
(* and fail, and store them in PostgreSQL, batch by batch, with the slot   *)
(* each was read at.  The index worker alternates full scans and polls of  *)
(* the live rows; the activity worker refreshes the agreements of          *)
(* finalized receipts.  The process may die between any two batches.       *)
(* The ledger and the nodes are the environment.                           *)
(***************************************************************************)
EXTENDS Integers, Sequences, FiniteSets

CONSTANTS
  Addresses,   \* agreement addresses, in the byte order of the database
  LastLive,    \* stages 1..LastLive are status open or active
  MaxStage,    \* stages above LastLive are terminal; 0 is no account
  BatchSize,   \* pairs of one getMultipleAccounts request (50)
  Width,       \* requests running at a time (4)
  PageSize,    \* LIMIT of active_addresses (200)
  MaxSlot      \* bound of the finalized slot

ASSUME AddressesAssumption == Addresses \subseteq Nat \ {0} /\ IsFiniteSet(Addresses)
ASSUME SizesAssumption ==
  /\ LastLive \in Nat /\ MaxStage \in Nat /\ MaxSlot \in Nat
  /\ BatchSize \in Nat \ {0} /\ Width \in Nat \ {0} /\ PageSize \in Nat \ {0}

VARIABLES
  ledger,      \* the finalized ledger: at each slot, the stage of each agreement
  calm,        \* from here on the ledger rests, nodes are current, nothing fails
  rows,        \* table agreements: the projection and its finalized_slot
  mark,        \* table reconciliation: the highest slot observed, 0 without a row
  discovered,  \* memory: the last full scan is younger than discovery_interval
  job,         \* memory: what each worker is doing
  scanned      \* history: the slot of the last full scan that was completed

vars == <<ledger, calm, rows, mark, discovered, job, scanned>>

Stages == 0..MaxStage
Live(stage) == stage \in 1..LastLive
tip == Len(ledger)

Row == [slot : Nat, stage : Stages]
NoRow == [slot |-> 0, stage |-> 0]

Workers == {"index", "activity"}

\* One refresh.  minimum is minimum_slot; goal and left are the addresses given to
\* refresh_batches and the numbers of its batches not stored yet; after is the cursor.
Job ==
  [phase : {"idle", "discover", "scan", "poll", "receipts"},
   minimum : Nat, goal : SUBSET Addresses, left : SUBSET Nat, after : Nat]
NewJob(phase, minimum, goal, left) ==
  [phase |-> phase, minimum |-> minimum, goal |-> goal, left |-> left, after |-> 0]
Idle == NewJob("idle", 0, {}, {})

Init ==
  /\ \E first \in [Addresses -> Stages] : ledger = <<first>>
  /\ calm = FALSE
  /\ rows = [a \in Addresses |-> NoRow]
  /\ mark = 0
  /\ discovered = FALSE
  /\ job = [w \in Workers |-> Idle]
  /\ scanned = 0

-----------------------------------------------------------------------------
(* The database.  A definition named Slip... is the definition after it with a   *)
(* plausible mistake; only the experiments that break a property use it.         *)

SlipLastWriter(old, new) == TRUE

SlipNeverReplaces(old, new) == old.slot = 0

\* ON CONFLICT ... WHERE agreements.finalized_slot <= EXCLUDED.finalized_slot
Replaces(old, new) == old.slot <= new.slot

SlipLastMark(s) == s

\* The mark has the same condition as a row.
Raised(s) == IF mark <= s THEN s ELSE mark

\* upsert, one transaction: the batch's rows and the high-water mark.
Upsert(A, s) ==
  /\ rows' = [a \in Addresses |->
       LET new == [slot |-> s, stage |-> ledger[s][a]] IN
       IF a \in A /\ Replaces(rows[a], new) THEN new ELSE rows[a]]
  /\ mark' = Raised(s)

\* The rows active_addresses selects from, whatever the limit.
ActiveAfter(after) == {a \in Addresses : Live(rows[a].stage) /\ a > after}

Rank(a, A) == Cardinality({b \in A : b < a})

SlipUnordered(after) ==
  {a \in ActiveAfter(after) : Cardinality({b \in ActiveAfter(after) : b > a}) < PageSize}

\* active_addresses: ORDER BY address LIMIT 200
Page(after) == {a \in ActiveAfter(after) : Rank(a, ActiveAfter(after)) < PageSize}

-----------------------------------------------------------------------------
(* The nodes.  An answer is the ledger at some finalized slot the node has reached; *)
(* the ledger only grows, so choosing the slot when the answer is used stands for   *)
(* every moment it may have been given at.                                          *)

Answers == IF calm THEN {tip} ELSE 1..tip

Existing(s) == {a \in Addresses : ledger[s][a] > 0}

\* Every account of the batch is decoded; one that does not exist fails it.
BatchAnswers(A, minimum) == {s \in Answers : s >= minimum /\ A \subseteq Existing(s)}

-----------------------------------------------------------------------------
(* refresh_batches, for either worker *)

BatchOf(a, A) == Rank(a, A) \div BatchSize
Batch(A, k) == {a \in A : BatchOf(a, A) = k}

\* addresses.chunks(50): the last one may be shorter.
Batches(A) == {BatchOf(a, A) : a \in A}

\* The requests in flight are the first ones not stored: a finished one is replaced
\* by the next of the list.
Running(left) == {k \in left : Cardinality({j \in left : j < k}) < Width}

SetJob(w, j) == job' = [job EXCEPT ![w] = j]

StoreBatch(w, k, s) ==
  /\ k \in Running(job[w].left)
  /\ s \in BatchAnswers(Batch(job[w].goal, k), job[w].minimum)
  /\ Upsert(Batch(job[w].goal, k), s)
  /\ SetJob(w, [job[w] EXCEPT !.left = @ \ {k}])
  /\ UNCHANGED <<ledger, calm, discovered, scanned>>

-----------------------------------------------------------------------------
(* The index worker: one refresh at a time *)

SlipOnce == scanned = 0

FullScanDue == ~discovered

\* The kind of pass is decided, and the minimum read, before anything is asked.
Start ==
  /\ job["index"].phase = "idle"
  /\ SetJob("index", NewJob(IF FullScanDue THEN "discover" ELSE "poll", mark, {}, {}))
  /\ UNCHANGED <<ledger, calm, rows, mark, discovered, scanned>>

\* A node behind the mark is refused: the pass fails (Fail) and is tried again.
NotBehind(s) == s >= job["index"].minimum

Discover(s) ==
  /\ job["index"].phase = "discover"
  /\ s \in Answers
  /\ NotBehind(s)
  /\ SetJob("index", NewJob("scan", s, Existing(s), Batches(Existing(s))))
  /\ UNCHANGED <<ledger, calm, rows, mark, discovered, scanned>>

\* An empty upsert raises the mark even when nothing was found.
FinishScan ==
  /\ job["index"].phase = "scan" /\ job["index"].left = {}
  /\ Upsert({}, job["index"].minimum)
  /\ discovered' = TRUE
  /\ scanned' = job["index"].minimum
  /\ SetJob("index", Idle)
  /\ UNCHANGED <<ledger, calm>>

\* The next page of live rows, or the end of the pass when there is none.
NextPage ==
  LET page == Page(job["index"].after) IN
  /\ job["index"].phase = "poll" /\ job["index"].left = {}
  /\ IF page = {}
     THEN SetJob("index", Idle)
     ELSE \E last \in page :
            /\ \A a \in page : a <= last
            /\ SetJob("index", [job["index"] EXCEPT !.after = last, !.goal = page,
                                                    !.left = Batches(page)])
  /\ UNCHANGED <<ledger, calm, rows, mark, discovered, scanned>>

-----------------------------------------------------------------------------
(* The activity worker: its receipts name agreements that exist at the slot it *)
(* observed, and the mark is read again before the batches.                    *)

StartReceipts(s, A) ==
  /\ job["activity"].phase = "idle"
  /\ A # {} /\ A \subseteq Existing(s)
  /\ SetJob("activity", NewJob("receipts", IF mark <= s THEN s ELSE mark, A, Batches(A)))
  /\ UNCHANGED <<ledger, calm, rows, mark, discovered, scanned>>

FinishReceipts ==
  /\ job["activity"].phase = "receipts" /\ job["activity"].left = {}
  /\ SetJob("activity", Idle)
  /\ UNCHANGED <<ledger, calm, rows, mark, discovered, scanned>>

-----------------------------------------------------------------------------
(* The environment *)

\* A request fails, answers from behind the minimum, or the pass takes a minute: the
\* first error ends the pass and what is still running is dropped with it.
Fail(w) ==
  /\ ~calm
  /\ job[w].phase # "idle"
  /\ SetJob(w, Idle)
  /\ UNCHANGED <<ledger, calm, rows, mark, discovered, scanned>>

\* The process restarts; the database is kept.
Restart ==
  /\ ~calm
  /\ job' = [w \in Workers |-> Idle]
  /\ discovered' = FALSE
  /\ UNCHANGED <<ledger, calm, rows, mark, scanned>>

\* discovery_interval has passed since the last full scan.
Elapse ==
  /\ discovered' = FALSE
  /\ UNCHANGED <<ledger, calm, rows, mark, job, scanned>>

\* A slot is finalized: agreements are created and move forward, and never disappear.
Finalize(stages) ==
  /\ ~calm /\ tip < MaxSlot
  /\ \A a \in Addresses : ledger[tip][a] <= stages[a]
  /\ ledger' = Append(ledger, stages)
  /\ UNCHANGED <<calm, rows, mark, discovered, job, scanned>>

CalmDown == calm' = TRUE /\ UNCHANGED <<ledger, rows, mark, discovered, job, scanned>>

-----------------------------------------------------------------------------
IndexWorker ==
  \/ Start
  \/ \E s \in Answers : Discover(s)
  \/ \E k \in job["index"].left, s \in Answers : StoreBatch("index", k, s)
  \/ FinishScan
  \/ NextPage

ActivityWorker ==
  \/ \E s \in Answers, A \in SUBSET Addresses : StartReceipts(s, A)
  \/ \E k \in job["activity"].left, s \in Answers : StoreBatch("activity", k, s)
  \/ FinishReceipts

Environment ==
  \/ \E w \in Workers : Fail(w)
  \/ Restart
  \/ Elapse
  \/ \E stages \in [Addresses -> Stages] : Finalize(stages)
  \/ CalmDown

Next == IndexWorker \/ ActivityWorker \/ Environment

Spec == Init /\ [][Next]_vars

\* The worker loop runs on, and the interval between full scans passes.
Fairness == WF_vars(IndexWorker) /\ WF_vars(Elapse)

FairSpec == Spec /\ Fairness

-----------------------------------------------------------------------------
(* Invariants *)

TypeOK ==
  /\ ledger \in Seq([Addresses -> Stages]) /\ tip >= 1
  /\ calm \in BOOLEAN
  /\ rows \in [Addresses -> Row]
  /\ mark \in Nat
  /\ discovered \in BOOLEAN
  /\ job \in [Workers -> Job]
  /\ scanned \in Nat

\* No row is invented: whatever order the two workers' answers arrive in, each row is
\* the account as the ledger had it at the slot written beside it, and the mark is at
\* least every row's slot and no slot the ledger has not reached (upsert).
RowsTrue ==
  /\ \A a \in Addresses :
       IF rows[a].slot = 0 THEN rows[a] = NoRow
       ELSE /\ rows[a].slot <= mark
            /\ rows[a].stage = ledger[rows[a].slot][a] /\ rows[a].stage > 0
  /\ scanned <= mark /\ mark <= tip

\* A worker that has finished its batches has every address it set out for in the table,
\* not older than the minimum it started from, although the other worker wrote the same
\* rows meanwhile: a receipt completed on this ground has its effect indexed
\* (refresh_batches; reconcile.rs completes the receipts after it).
BatchesCover ==
  \A w \in Workers : \A a \in job[w].goal :
    rows[a].slot >= job[w].minimum \/ BatchOf(a, job[w].goal) \in job[w].left

\* A completed full scan means what it says, for ever and across restarts: every
\* agreement that existed at its slot has a row not older than that.  The mark alone
\* does not mean this (indexer.rs refresh).
ScanCovers ==
  scanned > 0 => \A a \in Existing(scanned) : rows[a].slot >= scanned

\* While a poll pages through the live rows, every agreement the last full scan found that
\* is still live behind the cursor is as fresh as the mark was when the poll began: no row
\* is skipped although the table changes between pages (active_addresses).  A row the
\* activity worker inserts behind the cursor meanwhile may be older, from a job with an
\* older minimum; the next pass takes it.
PollCovers ==
  job["index"].phase = "poll" /\ scanned > 0 =>
    \A a \in Existing(scanned) :
      Live(rows[a].stage) /\ a <= job["index"].after =>
        \/ rows[a].slot >= job["index"].minimum
        \/ a \in job["index"].goal /\ BatchOf(a, job["index"].goal) \in job["index"].left

-----------------------------------------------------------------------------
(* Action properties *)

\* A row is never deleted and never goes back, neither in slot nor in what it says of
\* the agreement, by either worker or a restart ("Each row rejects a lower finalized
\* slot", docs/architecture.md).
RowsForward ==
  \A a \in Addresses : rows[a].slot <= rows'[a].slot /\ rows[a].stage <= rows'[a].stage
NeverRegress == [][RowsForward]_vars

\* Completed full scans never go back in slot, although each may ask another node and the
\* memory of the last one is lost in a restart (the check against last_slot).
ScanForward == scanned <= scanned'
ScansAdvance == [][ScanForward]_vars

-----------------------------------------------------------------------------
(* Liveness *)

\* Once the ledger rests and nodes answer from its end, the index shows all of it: new,
\* live and settled agreements, whatever failed or was half stored before.
Current == \A a \in Addresses : rows[a].stage = ledger[tip][a]
Converges == calm ~> []Current
=============================================================================
