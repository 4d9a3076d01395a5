---------------------------- MODULE IndexProofs ----------------------------
(* What holds of Index for every number of agreements, stages, slots and sizes. *)
EXTENDS Index, FiniteSetTheorems, TLAPS

\* The ledger only moves agreements forward.
LedgerForward ==
  \A i, j \in 1..tip : i <= j => \A a \in Addresses : ledger[i][a] <= ledger[j][a]

\* What a pass knows: its minimum was reached by the ledger, a full scan is not behind the
\* one before it, and its goal is everything that existed at its slot.
PassSane ==
  /\ \A w \in Workers : job[w].minimum <= tip
  /\ job["index"].phase \in {"discover", "scan"} => scanned <= job["index"].minimum
  /\ job["index"].phase = "scan" =>
       job["index"].minimum >= 1 /\ job["index"].goal = Existing(job["index"].minimum)

IndexInv ==
  TypeOK /\ LedgerForward /\ RowsTrue /\ BatchesCover /\ ScanCovers /\ PollCovers /\ PassSane

-----------------------------------------------------------------------------
(* Ranks and batches *)

\* Ranks are numbers and follow the order of the addresses.
LEMMA Ranks ==
  ASSUME NEW A \in SUBSET Addresses
  PROVE  /\ \A a \in Addresses : Rank(a, A) \in Nat
         /\ \A a, b \in Addresses : a <= b => Rank(a, A) <= Rank(b, A)
<1>1. ASSUME NEW a \in Addresses
      PROVE  IsFiniteSet({c \in A : c < a}) /\ Rank(a, A) \in Nat
  <2>1. IsFiniteSet({c \in A : c < a})
    <3>1. {c \in A : c < a} \subseteq Addresses
      OBVIOUS
    <3>2. QED
      BY <3>1, FS_Subset, AddressesAssumption
  <2>2. QED
    BY <2>1, FS_CardinalityType DEF Rank
<1>2. ASSUME NEW a \in Addresses, NEW b \in Addresses, a <= b
      PROVE  Rank(a, A) <= Rank(b, A)
  <2>0. a \in Int /\ b \in Int /\ \A c \in A : c \in Int
    BY AddressesAssumption
  <2>1. {c \in A : c < a} \subseteq {c \in A : c < b}
    <3>1. \A c \in A : c < a => c < b
      BY <1>2, <2>0
    <3>2. QED
      BY <3>1
  <2>2. QED
    BY <2>1, <1>1, FS_Subset DEF Rank
<1>3. QED
  BY <1>1, <1>2

\* The batch numbers of a list of addresses are natural numbers.
LEMMA BatchNumbers ==
  ASSUME NEW A \in SUBSET Addresses
  PROVE  Batches(A) \in SUBSET Nat
<1>1. ASSUME NEW a \in A PROVE BatchOf(a, A) \in Nat
  <2>1. Rank(a, A) \in Nat
    BY Ranks
  <2>2. QED
    BY <2>1, SizesAssumption DEF BatchOf
<1>2. QED
  BY <1>1 DEF Batches

-----------------------------------------------------------------------------
(* The transaction *)

\* Storing a batch read at a slot the ledger reached keeps the table true, moves its rows
\* forward only, and leaves every address of the batch at least as fresh as the answer.
LEMMA UpsertTrue ==
  ASSUME TypeOK, LedgerForward, RowsTrue, ledger' = ledger, scanned' = scanned,
         NEW s \in 1..tip, NEW A \in SUBSET Existing(s), Upsert(A, s)
  PROVE  /\ rows' \in [Addresses -> Row] /\ mark' \in Nat
         /\ RowsTrue' /\ RowsForward /\ mark <= mark' /\ s <= mark'
         /\ \A a \in A : s <= rows'[a].slot
         /\ \A a \in Addresses \ A : rows'[a] = rows[a]
<1>t. /\ tip \in Nat /\ s \in Nat /\ mark \in Nat /\ scanned \in Nat /\ tip' = tip
      /\ rows \in [Addresses -> Row]
      /\ \A i \in 1..tip, a \in Addresses : ledger[i][a] \in Stages
      /\ A \subseteq Addresses
  BY DEF TypeOK, tip, Existing
<1>n. \A a \in Addresses : [slot |-> s, stage |-> ledger[s][a]] \in Row
  BY <1>t DEF Row
<1>1. \A a \in Addresses :
        rows'[a] = IF a \in A /\ rows[a].slot <= s THEN [slot |-> s, stage |-> ledger[s][a]] ELSE rows[a]
  BY <1>t DEF Upsert, Replaces
<1>2. rows' \in [Addresses -> Row]
  BY <1>1, <1>n, <1>t DEF Upsert
<1>3. mark' \in Nat /\ mark <= mark' /\ s <= mark' /\ mark' <= tip
  BY <1>t DEF Upsert, Raised, RowsTrue
<1>r. \A a \in Addresses : rows[a].slot \in Nat /\ rows[a].stage \in Stages
  BY <1>t DEF Row
<1>i. s \in Int /\ mark \in Int /\ mark' \in Int
  BY <1>t, <1>3
<1>4. ASSUME NEW a \in Addresses
      PROVE  /\ rows[a].slot <= rows'[a].slot /\ rows[a].stage <= rows'[a].stage
             /\ a \in A => s <= rows'[a].slot
             /\ IF rows'[a].slot = 0 THEN rows'[a] = NoRow
                ELSE /\ rows'[a].slot <= mark'
                     /\ rows'[a].stage = ledger[rows'[a].slot][a] /\ rows'[a].stage > 0
  <2>s. /\ rows[a].slot \in Int /\ rows[a].stage \in Int
        /\ \A i \in 1..tip : ledger[i][a] \in Int
    BY <1>r, <1>t, SizesAssumption DEF Stages
  <2>k. IF rows[a].slot = 0 THEN rows[a] = NoRow
        ELSE /\ rows[a].slot <= mark
             /\ rows[a].stage = ledger[rows[a].slot][a] /\ rows[a].stage > 0
    BY DEF RowsTrue
  <2>1. CASE a \in A /\ rows[a].slot <= s
    <3>0. rows'[a] = [slot |-> s, stage |-> ledger[s][a]]
      BY <1>1, <2>1
    <3>1. rows'[a].slot = s /\ rows'[a].stage = ledger[s][a]
      BY <3>0
    <3>2. ledger[s][a] > 0
      BY <2>1 DEF Existing
    <3>i. ledger[s][a] \in Int /\ rows[a].stage \in Int
      BY <1>t, <1>r, <2>s
    <3>3. rows[a].stage <= ledger[s][a]
      <4>1. CASE rows[a].slot = 0
        BY <4>1, <2>k, <3>2, <3>i DEF NoRow
      <4>2. CASE rows[a].slot # 0
        <5>1. rows[a].slot \in 1..tip
          BY <4>2, <2>1, <1>r, <1>t
        <5>2. QED
          BY <5>1, <4>2, <2>k, <2>1 DEF LedgerForward
      <4>3. QED
        BY <4>1, <4>2
    <3>4. QED
      BY <3>1, <3>2, <3>3, <3>i, <2>1, <1>3, <1>t, <1>r
  <2>2. CASE ~(a \in A /\ rows[a].slot <= s)
    <3>1. rows'[a] = rows[a]
      BY <1>1, <2>2
    <3>2. /\ rows[a].slot \in Int /\ rows[a].stage \in Int /\ s \in Int
          /\ mark \in Int /\ mark' \in Int
      BY <1>r, <1>i, <2>s
    <3>3. a \in A => s <= rows'[a].slot
      BY <3>1, <3>2, <2>2
    <3>4. rows'[a].slot = 0 => rows'[a] = NoRow
      BY <3>1, <2>k
    <3>5. rows'[a].slot # 0 =>
            /\ rows'[a].slot <= mark'
            /\ rows'[a].stage = ledger[rows'[a].slot][a] /\ rows'[a].stage > 0
      BY <3>1, <3>2, <2>k, <1>3
    <3>6. QED
      BY <3>1, <3>2, <3>3, <3>4, <3>5
  <2>3. QED
    BY <2>1, <2>2
<1>5. RowsTrue'
  <2>1. scanned' <= mark' /\ mark' <= tip'
    BY <1>3, <1>t DEF RowsTrue
  <2>2. QED
    BY <1>4, <2>1 DEF RowsTrue
<1>6. \A a \in Addresses \ A : rows'[a] = rows[a]
  BY <1>1
<1>7. QED
  BY <1>2, <1>3, <1>4, <1>5, <1>6, <1>t DEF RowsForward

-----------------------------------------------------------------------------
(* A worker's memory *)

\* BatchesCover, PassSane and PollCovers of one worker's job j.
Covers(j) == \A a \in j.goal : rows[a].slot >= j.minimum \/ BatchOf(a, j.goal) \in j.left
Sane(j) ==
  /\ j.phase \in {"discover", "scan"} => scanned <= j.minimum
  /\ j.phase = "scan" => j.minimum >= 1 /\ j.goal = Existing(j.minimum)
Polls(j) ==
  j.phase = "poll" /\ scanned > 0 =>
    \A a \in Existing(scanned) :
      Live(rows[a].stage) /\ a <= j.after =>
        rows[a].slot >= j.minimum \/ (a \in j.goal /\ BatchOf(a, j.goal) \in j.left)

\* An idle worker owes nothing.
LEMMA IdleJob == Idle \in Job /\ Covers(Idle) /\ Sane(Idle) /\ Polls(Idle)
BY DEF Idle, NewJob, Job, Covers, Sane, Polls

\* One worker's job changes and the other's does not.
LEMMA OneJob ==
  ASSUME job \in [Workers -> Job], NEW w \in Workers, NEW j \in Job, SetJob(w, j)
  PROVE  /\ job' \in [Workers -> Job] /\ job'[w] = j
         /\ \A v \in Workers : v # w => job'[v] = job[v]
BY DEF SetJob

\* A step that only gives a worker another job keeps IndexInv when the job is sound.
LEMMA NewJobKeeps ==
  ASSUME IndexInv, NEW w \in Workers, NEW j \in Job, SetJob(w, j),
         UNCHANGED <<ledger, calm, rows, mark, scanned>>, discovered' \in BOOLEAN,
         j.minimum <= tip, Covers(j), w = "index" => Sane(j) /\ Polls(j)
  PROVE  IndexInv'
<1>1. /\ job' \in [Workers -> Job] /\ job'[w] = j
      /\ \A v \in Workers : v # w => job'[v] = job[v]
  BY OneJob DEF IndexInv, TypeOK
<1>2. TypeOK'
  BY <1>1 DEF IndexInv, TypeOK, tip
<1>3. LedgerForward' /\ RowsTrue' /\ ScanCovers'
  BY DEF IndexInv, LedgerForward, RowsTrue, ScanCovers, Existing, tip
<1>4. ASSUME NEW v \in Workers
      PROVE  /\ job'[v].minimum <= tip'
             /\ \A a \in job'[v].goal :
                  rows[a].slot >= job'[v].minimum \/ BatchOf(a, job'[v].goal) \in job'[v].left
  <2>1. CASE v = w
    BY <2>1, <1>1 DEF Covers, tip
  <2>2. CASE v # w
    BY <2>2, <1>1 DEF IndexInv, BatchesCover, PassSane, tip
  <2>3. QED
    BY <2>1, <2>2
<1>5. BatchesCover'
  BY <1>4 DEF BatchesCover, BatchOf, Rank
<1>6. "index" \in Workers
  BY DEF Workers
<1>7. /\ job'["index"].phase \in {"discover", "scan"} => scanned <= job'["index"].minimum
      /\ job'["index"].phase = "scan" =>
           job'["index"].minimum >= 1 /\ job'["index"].goal = Existing(job'["index"].minimum)
  <2>1. CASE w = "index"
    BY <2>1, <1>1 DEF Sane
  <2>2. CASE w # "index"
    BY <2>2, <1>1, <1>6 DEF IndexInv, PassSane
  <2>3. QED
    BY <2>1, <2>2
<1>8. PassSane'
  BY <1>4, <1>7 DEF PassSane, Existing
<1>9. job'["index"].phase = "poll" /\ scanned > 0 =>
        \A a \in Existing(scanned) :
          Live(rows[a].stage) /\ a <= job'["index"].after =>
            \/ rows[a].slot >= job'["index"].minimum
            \/ a \in job'["index"].goal
                 /\ BatchOf(a, job'["index"].goal) \in job'["index"].left
  <2>1. CASE w = "index"
    BY <2>1, <1>1 DEF Polls
  <2>2. CASE w # "index"
    BY <2>2, <1>1, <1>6 DEF IndexInv, PollCovers
  <2>3. QED
    BY <2>1, <2>2
<1>10. PollCovers'
  BY <1>9 DEF PollCovers, Existing, BatchOf, Rank
<1>11. QED
  BY <1>2, <1>3, <1>5, <1>8, <1>10 DEF IndexInv

-----------------------------------------------------------------------------
(* One lemma per action *)

\* Nothing is known and nothing is being done when the process first starts.
LEMMA InitIndexInv == Init => IndexInv
<1> SUFFICES ASSUME Init PROVE IndexInv
  OBVIOUS
<1>1. ledger \in Seq([Addresses -> Stages]) /\ tip = 1
  BY DEF Init, tip
<1>2. \A w \in Workers : job[w] = Idle
  BY DEF Init
<1>3. 0 \in Stages
  BY SizesAssumption DEF Stages
<1>r. NoRow \in Row
  BY <1>3 DEF NoRow, Row
<1>4. TypeOK
  <2>1. rows \in [Addresses -> Row] /\ job \in [Workers -> Job]
    BY <1>r, IdleJob DEF Init
  <2>2. calm \in BOOLEAN /\ discovered \in BOOLEAN /\ mark \in Nat /\ scanned \in Nat
    BY DEF Init
  <2>3. QED
    BY <1>1, <2>1, <2>2 DEF TypeOK
<1>5. LedgerForward
  <2>1. ASSUME NEW a \in Addresses PROVE ledger[1][a] <= ledger[1][a]
    BY SizesAssumption DEF Init, Stages
  <2>2. QED
    BY <1>1, <2>1 DEF LedgerForward
<1>6. RowsTrue /\ ScanCovers
  BY <1>1 DEF Init, RowsTrue, ScanCovers, NoRow
<1>7. "index" \in Workers
  BY DEF Workers
<1>8. BatchesCover /\ PassSane /\ PollCovers
  BY <1>1, <1>2, <1>7 DEF BatchesCover, PassSane, PollCovers, Idle, NewJob
<1>9. QED
  BY <1>4, <1>5, <1>6, <1>8 DEF IndexInv

\* The minimum of a new pass is the mark, which no completed scan is ahead of.
LEMMA StartKeeps == ASSUME IndexInv, Start PROVE IndexInv'
<1> DEFINE j == NewJob(IF FullScanDue THEN "discover" ELSE "poll", mark, {}, {})
<1>1. mark \in Nat /\ mark <= tip /\ scanned <= mark /\ discovered \in BOOLEAN
  BY DEF IndexInv, TypeOK, RowsTrue
<1>2. /\ j.phase \in {"discover", "poll"} /\ j.minimum = mark
      /\ j.goal = {} /\ j.left = {} /\ j.after = 0 /\ j \in Job
  BY <1>1 DEF NewJob, Job
<1>3. SetJob("index", j)
  BY DEF Start
<1> HIDE DEF j
<1>4. Covers(j) /\ Sane(j)
  BY <1>1, <1>2 DEF Covers, Sane
<1>5. Polls(j)
  <2>1. \A a \in Addresses : ~(a <= 0)
    BY AddressesAssumption
  <2>2. QED
    BY <2>1, <1>2 DEF Polls, Existing
<1>6. UNCHANGED <<ledger, calm, rows, mark, scanned>> /\ discovered' \in BOOLEAN
  BY <1>1 DEF Start
<1>7. "index" \in Workers
  BY DEF Workers
<1>8. QED
  BY <1>1, <1>2, <1>3, <1>4, <1>5, <1>6, <1>7, NewJobKeeps

\* Every address found is in some batch; a node behind the mark is refused.
LEMMA DiscoverKeeps == ASSUME IndexInv, NEW s \in Answers, Discover(s) PROVE IndexInv'
<1> DEFINE j == NewJob("scan", s, Existing(s), Batches(Existing(s)))
<1>1. tip \in Nat /\ s \in 1..tip /\ discovered \in BOOLEAN
  BY DEF IndexInv, TypeOK, tip, Answers
<1>2. scanned <= s
  <2>1. scanned <= job["index"].minimum /\ s >= job["index"].minimum
    BY DEF IndexInv, PassSane, Discover, NotBehind
  <2>2. scanned \in Nat /\ job["index"].minimum \in Nat
    BY DEF IndexInv, TypeOK, Workers, Job
  <2>3. QED
    BY <2>1, <2>2, <1>1
<1>3. Existing(s) \in SUBSET Addresses
  BY DEF Existing
<1>4. Batches(Existing(s)) \in SUBSET Nat
  BY <1>3, BatchNumbers
<1>5. /\ j.phase = "scan" /\ j.minimum = s /\ j.goal = Existing(s)
      /\ j.left = Batches(Existing(s)) /\ j.after = 0 /\ j \in Job
  BY <1>1, <1>3, <1>4 DEF NewJob, Job
<1>6. SetJob("index", j)
  BY DEF Discover
<1> HIDE DEF j
<1>7. Covers(j) /\ Sane(j) /\ Polls(j) /\ j.minimum <= tip
  BY <1>1, <1>2, <1>5 DEF Covers, Sane, Polls, Batches
<1>8. UNCHANGED <<ledger, calm, rows, mark, scanned>> /\ discovered' \in BOOLEAN
  BY <1>1 DEF Discover
<1>9. "index" \in Workers
  BY DEF Workers
<1>10. QED
  BY <1>5, <1>6, <1>7, <1>8, <1>9, NewJobKeeps

\* The page holds every live row up to the new cursor; those before the old one were
\* all stored.
LEMMA NextPageKeeps == ASSUME IndexInv, NextPage PROVE IndexInv'
<1> DEFINE old == job["index"]
           page == Page(old.after)
<1>1. "index" \in Workers /\ old \in Job /\ old.phase = "poll" /\ old.left = {}
  BY DEF IndexInv, TypeOK, NextPage, Workers
<1>2. UNCHANGED <<ledger, calm, rows, mark, scanned>> /\ discovered' \in BOOLEAN
  BY DEF IndexInv, TypeOK, NextPage
<1>3. CASE page = {}
  <2>1. SetJob("index", Idle)
    BY <1>3 DEF NextPage
  <2>2. Idle.minimum <= tip
    BY DEF Idle, NewJob, IndexInv, TypeOK, tip
  <2>3. QED
    BY <1>1, <1>2, <2>1, <2>2, IdleJob, NewJobKeeps
<1>4. CASE page # {}
  <2>1. PICK last \in page :
          /\ \A a \in page : a <= last
          /\ SetJob("index", [old EXCEPT !.after = last, !.goal = page, !.left = Batches(page)])
    BY <1>4 DEF NextPage
  <2> DEFINE j == [old EXCEPT !.after = last, !.goal = page, !.left = Batches(page)]
  <2>2. page \in SUBSET Addresses /\ page \subseteq ActiveAfter(old.after)
    BY DEF Page, ActiveAfter
  <2>3. last \in Nat /\ Batches(page) \in SUBSET Nat
    BY <2>2, BatchNumbers, AddressesAssumption
  <2>4. /\ j \in Job /\ j.phase = "poll" /\ j.minimum = old.minimum /\ j.goal = page
        /\ j.left = Batches(page) /\ j.after = last
    BY <1>1, <2>2, <2>3 DEF Job
  <2>5. SetJob("index", j)
    BY <2>1
  <2>6. \A a \in page : BatchOf(a, page) \in Batches(page)
    BY DEF Batches
  <2> HIDE DEF j
  <2>7. Covers(j) /\ Sane(j)
    BY <2>4, <2>6 DEF Covers, Sane
  <2>8. ASSUME scanned > 0, NEW a \in Existing(scanned), Live(rows[a].stage), a <= last
        PROVE  rows[a].slot >= old.minimum \/ a \in page
    <3>1. a \in Addresses /\ last \in Addresses /\ old.after \in Nat
      BY <1>1, <2>2 DEF Existing, Job
    <3>2. CASE a <= old.after
      BY <3>2, <2>8, <1>1 DEF IndexInv, PollCovers
    <3>3. CASE a > old.after
      <4>1. a \in ActiveAfter(old.after)
        BY <3>1, <3>3, <2>8 DEF ActiveAfter
      <4>2. ActiveAfter(old.after) \in SUBSET Addresses
        BY DEF ActiveAfter
      <4>3. /\ Rank(a, ActiveAfter(old.after)) <= Rank(last, ActiveAfter(old.after))
            /\ Rank(a, ActiveAfter(old.after)) \in Nat
            /\ Rank(last, ActiveAfter(old.after)) \in Nat
        BY <3>1, <4>2, <2>8, Ranks
      <4>4. Rank(last, ActiveAfter(old.after)) < PageSize
        BY DEF Page
      <4>5. Rank(a, ActiveAfter(old.after)) < PageSize
        BY <4>3, <4>4, SizesAssumption
      <4>6. QED
        BY <4>1, <4>5 DEF Page
    <3>4. QED
      BY <3>1, <3>2, <3>3, AddressesAssumption
  <2>9. Polls(j)
    BY <2>4, <2>6, <2>8 DEF Polls
  <2>10. j.minimum <= tip
    BY <1>1, <2>4 DEF IndexInv, PassSane
  <2>11. QED
    BY <1>1, <1>2, <2>4, <2>5, <2>7, <2>9, <2>10, NewJobKeeps
<1>5. QED
  BY <1>3, <1>4

\* A stored batch is at least as fresh as the minimum; the other worker's rows only gain.
LEMMA StoreBatchKeeps ==
  ASSUME IndexInv, NEW w \in Workers, NEW k \in job[w].left, NEW s \in Answers, StoreBatch(w, k, s)
  PROVE  IndexInv' /\ RowsForward
<1> DEFINE A == Batch(job[w].goal, k)
           j == [job[w] EXCEPT !.left = @ \ {k}]
<1>1. /\ TypeOK /\ LedgerForward /\ RowsTrue /\ BatchesCover /\ ScanCovers /\ PollCovers
      /\ PassSane
  BY DEF IndexInv
<1>2. ledger' = ledger /\ calm' = calm /\ discovered' = discovered /\ scanned' = scanned
  BY DEF StoreBatch
<1>3. s \in 1..tip /\ s >= job[w].minimum /\ A \in SUBSET Existing(s) /\ Upsert(A, s)
  <2>1. tip \in Nat /\ tip >= 1
    BY <1>1 DEF TypeOK, tip
  <2>2. QED
    BY <2>1 DEF StoreBatch, BatchAnswers, Answers
<1>4. /\ rows' \in [Addresses -> Row] /\ mark' \in Nat
      /\ RowsTrue' /\ RowsForward /\ \A a \in A : s <= rows'[a].slot
      /\ \A a \in Addresses \ A : rows'[a] = rows[a]
  <2> HIDE DEF A
  <2>1. QED
    BY <1>1, <1>2, <1>3, UpsertTrue
<1>5. /\ job[w] \in Job /\ j \in Job /\ j.phase = job[w].phase /\ j.minimum = job[w].minimum
      /\ j.goal = job[w].goal /\ j.left = job[w].left \ {k} /\ j.after = job[w].after
  BY <1>1 DEF TypeOK, Job
<1>6. SetJob(w, j)
  BY DEF StoreBatch
<1> HIDE DEF j
<1>7. /\ job' \in [Workers -> Job] /\ job'[w] = j
      /\ \A v \in Workers : v # w => job'[v] = job[v]
  BY <1>1, <1>5, <1>6, OneJob DEF TypeOK
<1>8. /\ \A a \in Addresses : rows[a].slot <= rows'[a].slot /\ rows[a].stage <= rows'[a].stage
      /\ \A a \in Addresses : /\ rows[a].slot \in Int /\ rows'[a].slot \in Int
                              /\ rows[a].stage \in Int /\ rows'[a].stage \in Int
  BY <1>1, <1>4, SizesAssumption DEF RowsForward, TypeOK, Row, Stages
<1>9. \A v \in Workers :
        /\ job'[v].minimum = job[v].minimum /\ job'[v].goal = job[v].goal
        /\ job'[v].phase = job[v].phase /\ job'[v].after = job[v].after
        /\ job[v].minimum \in Int /\ job[v].goal \subseteq Addresses /\ job[v].after \in Int
  <2>1. ASSUME NEW v \in Workers
        PROVE  job[v].minimum \in Int /\ job[v].goal \subseteq Addresses /\ job[v].after \in Int
    <3>1. job[v] \in Job
      BY <1>1 DEF TypeOK
    <3>2. QED
      BY <3>1 DEF Job
  <2>2. ASSUME NEW v \in Workers
        PROVE  /\ job'[v].minimum = job[v].minimum /\ job'[v].goal = job[v].goal
               /\ job'[v].phase = job[v].phase /\ job'[v].after = job[v].after
    <3>1. CASE v = w
      BY <3>1, <1>5, <1>7
    <3>2. CASE v # w
      BY <3>2, <1>7
    <3>3. QED
      BY <3>1, <3>2
  <2>3. QED
    BY <2>1, <2>2
<1>10. ASSUME NEW v \in Workers, NEW a \in job[v].goal,
              rows[a].slot >= job[v].minimum \/ BatchOf(a, job[v].goal) \in job[v].left
       PROVE  rows'[a].slot >= job[v].minimum \/ BatchOf(a, job[v].goal) \in job'[v].left
  <2>1. a \in Addresses
    BY <1>9
  <2>2. CASE rows[a].slot >= job[v].minimum
    BY <2>1, <2>2, <1>8, <1>9
  <2>3. CASE BatchOf(a, job[v].goal) \in job[v].left /\ (v # w \/ BatchOf(a, job[v].goal) # k)
    BY <2>3, <1>5, <1>7
  <2>4. CASE v = w /\ BatchOf(a, job[v].goal) = k
    <3>1. a \in A
      BY <2>4 DEF Batch
    <3>2. QED
      BY <3>1, <2>1, <2>4, <1>3, <1>4, <1>8, <1>9
  <2>5. QED
    BY <1>10, <2>2, <2>3, <2>4
<1>11. TypeOK'
  BY <1>1, <1>2, <1>4, <1>7 DEF TypeOK, tip
<1>12. LedgerForward'
  BY <1>1, <1>2 DEF LedgerForward, tip
<1>13. BatchesCover'
  BY <1>1, <1>9, <1>10 DEF BatchesCover, BatchOf, Rank
<1>14. ScanCovers'
  <2>1. ASSUME scanned > 0, NEW a \in Existing(scanned) PROVE rows'[a].slot >= scanned
    <3>1. a \in Addresses /\ rows[a].slot >= scanned /\ scanned \in Int
      BY <2>1, <1>1 DEF ScanCovers, Existing, TypeOK
    <3>2. QED
      BY <3>1, <1>8
  <2>2. QED
    BY <2>1, <1>2 DEF ScanCovers, Existing
<1>i. "index" \in Workers
  BY DEF Workers
<1>15. PollCovers'
  <2>1. ASSUME job["index"].phase = "poll", scanned > 0, NEW a \in Existing(scanned),
               Live(rows'[a].stage), a <= job["index"].after
        PROVE  \/ rows'[a].slot >= job["index"].minimum
               \/ a \in job["index"].goal /\ BatchOf(a, job["index"].goal) \in job'["index"].left
    <3>1. a \in Addresses /\ scanned \in Int /\ rows[a].slot >= scanned
      BY <2>1, <1>1 DEF ScanCovers, Existing, TypeOK
    <3>2. rows[a].stage > 0
      BY <3>1, <2>1, <1>1, <1>8 DEF RowsTrue
    <3>3. Live(rows[a].stage)
      BY <3>1, <3>2, <2>1, <1>8, SizesAssumption DEF Live
    <3>4. \/ rows[a].slot >= job["index"].minimum
          \/ a \in job["index"].goal /\ BatchOf(a, job["index"].goal) \in job["index"].left
      BY <3>3, <2>1, <1>1 DEF PollCovers
    <3>5. CASE rows[a].slot >= job["index"].minimum
      BY <3>5, <3>1, <1>8, <1>9, <1>i
    <3>6. CASE a \in job["index"].goal /\ BatchOf(a, job["index"].goal) \in job["index"].left
      BY <3>6, <1>10, <1>i
    <3>7. QED
      BY <3>4, <3>5, <3>6
  <2>2. QED
    BY <2>1, <1>2, <1>9, <1>i DEF PollCovers, Existing, BatchOf, Rank
<1>16. PassSane'
  BY <1>1, <1>2, <1>9, <1>i DEF PassSane, tip, Existing
<1>17. QED
  BY <1>4, <1>11, <1>12, <1>13, <1>14, <1>15, <1>16 DEF IndexInv

\* A full scan without batches left has a fresh row for everything it found.
LEMMA FinishScanKeeps ==
  ASSUME IndexInv, FinishScan
  PROVE  IndexInv' /\ RowsForward /\ ScanForward
<1> DEFINE m == job["index"].minimum
<1>1. /\ TypeOK /\ LedgerForward /\ RowsTrue /\ BatchesCover /\ ScanCovers /\ PassSane
  BY DEF IndexInv
<1>2. "index" \in Workers /\ job["index"] \in Job /\ tip \in Nat /\ mark \in Nat /\ scanned \in Nat
  BY <1>1 DEF TypeOK, Workers, tip
<1>3. m \in Nat /\ 1 <= m /\ m <= tip /\ scanned <= m /\ job["index"].goal = Existing(m)
  BY <1>1, <1>2 DEF PassSane, FinishScan, Job
<1>4. /\ ledger' = ledger /\ calm' = calm /\ discovered' = TRUE /\ scanned' = m
      /\ SetJob("index", Idle) /\ Upsert({}, m)
  BY DEF FinishScan
<1>5. rows' = rows
  <2>1. rows' = [a \in Addresses |-> rows[a]]
    BY <1>4 DEF Upsert
  <2>2. QED
    BY <2>1, <1>1 DEF TypeOK
<1>6. mark' \in Nat /\ mark <= mark' /\ m <= mark' /\ mark' <= tip
  BY <1>1, <1>2, <1>3, <1>4 DEF Upsert, Raised, RowsTrue
<1>7. /\ job' \in [Workers -> Job] /\ job'["index"] = Idle
      /\ \A v \in Workers : v # "index" => job'[v] = job[v]
  BY <1>1, <1>2, <1>4, OneJob, IdleJob DEF TypeOK
<1>8. TypeOK'
  BY <1>1, <1>3, <1>4, <1>5, <1>6, <1>7 DEF TypeOK, tip
<1>9. LedgerForward'
  BY <1>1, <1>4 DEF LedgerForward, tip
<1>10. RowsTrue'
  <2>1. ASSUME NEW a \in Addresses, rows[a].slot # 0 PROVE rows[a].slot <= mark'
    <3>1. rows[a].slot <= mark /\ rows[a].slot \in Nat
      BY <2>1, <1>1 DEF RowsTrue, TypeOK, Row
    <3>2. QED
      BY <3>1, <1>2, <1>6
  <2>2. QED
    BY <2>1, <1>1, <1>4, <1>5, <1>6 DEF RowsTrue, tip
<1>11. ScanCovers'
  <2>1. \A a \in Existing(m) : rows[a].slot >= m
    BY <1>1, <1>2, <1>3 DEF BatchesCover, FinishScan
  <2>2. QED
    BY <2>1, <1>4, <1>5 DEF ScanCovers, Existing
<1>12. BatchesCover' /\ PassSane' /\ PollCovers'
  BY <1>1, <1>2, <1>4, <1>5, <1>7
  DEF BatchesCover, PassSane, PollCovers, Idle, NewJob, BatchOf, Rank, tip
<1>13. RowsForward
  <2>1. \A a \in Addresses : rows[a].slot \in Int /\ rows[a].stage \in Int
    BY <1>1, SizesAssumption DEF TypeOK, Row, Stages
  <2>2. QED
    BY <2>1, <1>5 DEF RowsForward
<1>14. QED
  BY <1>3, <1>4, <1>8, <1>9, <1>10, <1>11, <1>12, <1>13 DEF IndexInv, ScanForward

\* The activity worker sets out with a minimum the ledger has reached.
LEMMA StartReceiptsKeeps ==
  ASSUME IndexInv, NEW s \in Answers, NEW A \in SUBSET Addresses, StartReceipts(s, A)
  PROVE  IndexInv'
<1> DEFINE m == IF mark <= s THEN s ELSE mark
           j == NewJob("receipts", m, A, Batches(A))
<1>1. tip \in Nat /\ s \in 1..tip /\ mark \in Nat /\ mark <= tip /\ discovered \in BOOLEAN
  BY DEF IndexInv, TypeOK, RowsTrue, tip, Answers
<1>2. m \in Nat /\ m <= tip
  BY <1>1
<1>3. Batches(A) \in SUBSET Nat
  BY BatchNumbers
<1>4. SetJob("activity", j)
  BY DEF StartReceipts
<1> HIDE DEF m
<1>5. /\ j \in Job /\ j.minimum = m /\ j.goal = A /\ j.left = Batches(A)
  BY <1>2, <1>3 DEF NewJob, Job
<1> HIDE DEF j
<1>6. Covers(j)
  BY <1>5 DEF Covers, Batches
<1>7. UNCHANGED <<ledger, calm, rows, mark, scanned>> /\ discovered' \in BOOLEAN
  BY <1>1 DEF StartReceipts
<1>8. "activity" \in Workers
  BY DEF Workers
<1>9. QED
  BY <1>2, <1>4, <1>5, <1>6, <1>7, <1>8, NewJobKeeps

\* A worker that drops everything, or has finished, owes nothing.
LEMMA IdleKeeps ==
  ASSUME IndexInv, NEW w \in Workers, SetJob(w, Idle),
         UNCHANGED <<ledger, calm, rows, mark, discovered, scanned>>
  PROVE  IndexInv'
<1>1. Idle.minimum <= tip /\ discovered' \in BOOLEAN
  BY DEF Idle, NewJob, IndexInv, TypeOK, tip
<1>2. QED
  BY <1>1, IdleJob, NewJobKeeps

\* A restart keeps the tables and forgets the rest.
LEMMA RestartKeeps == ASSUME IndexInv, Restart PROVE IndexInv'
<1>1. /\ TypeOK /\ LedgerForward /\ RowsTrue /\ ScanCovers
  BY DEF IndexInv
<1>2. /\ ledger' = ledger /\ calm' = calm /\ rows' = rows /\ mark' = mark
      /\ scanned' = scanned /\ discovered' = FALSE
      /\ job' = [v \in Workers |-> Idle]
  BY DEF Restart
<1>3. job' \in [Workers -> Job] /\ \A v \in Workers : job'[v] = Idle
  BY <1>2, IdleJob
<1>4. TypeOK'
  BY <1>1, <1>2, <1>3 DEF TypeOK, tip
<1>5. LedgerForward' /\ RowsTrue' /\ ScanCovers'
  BY <1>1, <1>2 DEF LedgerForward, RowsTrue, ScanCovers, Existing, tip
<1>6. "index" \in Workers /\ tip \in Nat
  BY <1>1 DEF Workers, TypeOK, tip
<1>7. BatchesCover' /\ PassSane' /\ PollCovers'
  BY <1>2, <1>3, <1>6 DEF BatchesCover, PassSane, PollCovers, Idle, NewJob, tip
<1>8. QED
  BY <1>4, <1>5, <1>7 DEF IndexInv

\* Neither the interval nor the calm is part of what is known.
LEMMA RestKeeps ==
  ASSUME IndexInv, UNCHANGED <<ledger, rows, mark, job, scanned>>,
         calm' \in BOOLEAN, discovered' \in BOOLEAN
  PROVE  IndexInv'
BY DEF IndexInv, TypeOK, LedgerForward, RowsTrue, BatchesCover, ScanCovers, PollCovers,
       PassSane, Existing, BatchOf, Rank, tip

\* A new slot leaves the older ones as they were.
LEMMA FinalizeKeeps ==
  ASSUME IndexInv, NEW stages \in [Addresses -> Stages], Finalize(stages) PROVE IndexInv'
<1>1. /\ TypeOK /\ LedgerForward /\ RowsTrue /\ BatchesCover /\ ScanCovers /\ PollCovers
      /\ PassSane
  BY DEF IndexInv
<1>2. /\ ledger' = Append(ledger, stages)
      /\ calm' = calm /\ rows' = rows /\ mark' = mark /\ discovered' = discovered
      /\ job' = job /\ scanned' = scanned
      /\ \A a \in Addresses : ledger[tip][a] <= stages[a]
  BY DEF Finalize
<1>3. /\ tip \in Nat /\ tip >= 1 /\ tip' = tip + 1 /\ ledger' \in Seq([Addresses -> Stages])
      /\ \A i \in 1..tip : ledger'[i] = ledger[i]
      /\ ledger'[tip + 1] = stages
  BY <1>1, <1>2 DEF TypeOK, tip
<1>4. TypeOK'
  BY <1>1, <1>2, <1>3 DEF TypeOK
<1>5. LedgerForward'
  <2>1. ASSUME NEW i \in 1..tip + 1, NEW k \in 1..tip + 1, i <= k, NEW a \in Addresses
        PROVE  ledger'[i][a] <= ledger'[k][a]
    <3>t. /\ \A n \in 1..tip : ledger[n][a] \in Int
          /\ stages[a] \in Int
      BY <1>1, <1>3, SizesAssumption DEF TypeOK, Stages, tip
    <3>1. CASE k \in 1..tip
      <4>1. i \in 1..tip
        BY <2>1, <3>1, <1>3
      <4>2. QED
        BY <4>1, <3>1, <2>1, <1>1, <1>3 DEF LedgerForward
    <3>2. CASE k = tip + 1 /\ i \in 1..tip
      <4>1. tip \in 1..tip /\ i <= tip
        BY <3>2, <1>3
      <4>2. ledger[i][a] <= ledger[tip][a] /\ ledger[tip][a] <= stages[a]
        BY <4>1, <3>2, <1>1, <1>2 DEF LedgerForward
      <4>3. QED
        BY <4>1, <4>2, <3>2, <3>t, <1>3
    <3>3. CASE k = tip + 1 /\ i = tip + 1
      BY <3>3, <3>t, <1>3
    <3>4. QED
      BY <3>1, <3>2, <3>3, <1>3
  <2>2. QED
    BY <2>1, <1>3 DEF LedgerForward
<1>6. RowsTrue'
  <2>1. ASSUME NEW a \in Addresses, rows[a].slot # 0
        PROVE  ledger'[rows[a].slot] = ledger[rows[a].slot]
    <3>1. rows[a].slot \in Nat /\ rows[a].slot <= mark /\ mark <= tip /\ mark \in Nat
      BY <2>1, <1>1 DEF RowsTrue, TypeOK, Row
    <3>2. QED
      BY <3>1, <2>1, <1>3
  <2>2. mark <= tip + 1
    BY <1>1, <1>3 DEF RowsTrue, TypeOK
  <2>3. QED
    BY <2>1, <2>2, <1>1, <1>2, <1>3 DEF RowsTrue
<1>7. ASSUME NEW n \in 1..tip PROVE Existing(n)' = Existing(n)
  BY <1>7, <1>3 DEF Existing
<1>8. scanned \in Nat /\ scanned <= tip
  BY <1>1, <1>3 DEF RowsTrue, TypeOK
<1>9. scanned > 0 => {a \in Addresses : ledger'[scanned][a] > 0} = Existing(scanned)
  BY <1>7, <1>8, <1>3 DEF Existing
<1>10. ScanCovers'
  BY <1>1, <1>2, <1>9 DEF ScanCovers, Existing
<1>11. BatchesCover'
  BY <1>1, <1>2 DEF BatchesCover, BatchOf, Rank
<1>12. PollCovers'
  BY <1>1, <1>2, <1>9 DEF PollCovers, Existing, BatchOf, Rank
<1>13. PassSane'
  <2>1. ASSUME NEW v \in Workers PROVE job[v].minimum \in Nat /\ job[v].minimum <= tip
    BY <1>1 DEF PassSane, TypeOK, Job
  <2>2. "index" \in Workers
    BY DEF Workers
  <2>3. job["index"].phase = "scan" =>
          {a \in Addresses : ledger'[job["index"].minimum][a] > 0}
            = Existing(job["index"].minimum)
    <3>1. ASSUME job["index"].phase = "scan" PROVE job["index"].minimum \in 1..tip
      BY <3>1, <2>1, <2>2, <1>1, <1>3 DEF PassSane
    <3>2. QED
      BY <3>1, <1>3 DEF Existing
  <2>4. \A v \in Workers : job'[v].minimum <= tip'
    BY <2>1, <1>2, <1>3
  <2>5. job'["index"].phase \in {"discover", "scan"} => scanned' <= job'["index"].minimum
    BY <1>1, <1>2 DEF PassSane
  <2>6. job'["index"].phase = "scan" =>
          /\ job'["index"].minimum >= 1
          /\ job'["index"].goal
               = {a \in Addresses : ledger'[job'["index"].minimum][a] > 0}
    <3>1. job'["index"] = job["index"]
      BY <1>2
    <3>2. job["index"].phase = "scan" =>
            job["index"].minimum >= 1 /\ job["index"].goal = Existing(job["index"].minimum)
      BY <1>1 DEF PassSane
    <3>3. QED
      BY <3>1, <3>2, <2>3
  <2>7. QED
    BY <2>4, <2>5, <2>6 DEF PassSane, Existing
<1>14. QED
  BY <1>4, <1>5, <1>6, <1>10, <1>11, <1>12, <1>13 DEF IndexInv

-----------------------------------------------------------------------------
(* The theorems *)

\* A step that leaves the table and the history alone moves neither back.
LEMMA RestForward ==
  ASSUME IndexInv, rows' = rows, scanned' = scanned PROVE RowsForward /\ ScanForward
<1>1. scanned \in Int /\ \A a \in Addresses : rows[a].slot \in Int /\ rows[a].stage \in Int
  BY SizesAssumption DEF IndexInv, TypeOK, Row, Stages
<1>2. QED
  BY <1>1 DEF RowsForward, ScanForward

\* Every step keeps the invariant and moves rows and full scans forward only.
LEMMA StepKeeps == IndexInv /\ [Next]_vars => IndexInv' /\ RowsForward /\ ScanForward
<1> SUFFICES ASSUME IndexInv, [Next]_vars
             PROVE  IndexInv' /\ RowsForward /\ ScanForward
  OBVIOUS
<1>w. "index" \in Workers /\ "activity" \in Workers
  BY DEF Workers
<1>b. calm \in BOOLEAN /\ discovered \in BOOLEAN
  BY DEF IndexInv, TypeOK
<1>s. scanned' = scanned => ScanForward
  BY DEF IndexInv, TypeOK, ScanForward
<1>1. CASE Start
  BY <1>1, StartKeeps, RestForward DEF Start
<1>2. CASE \E s \in Answers : Discover(s)
  BY <1>2, DiscoverKeeps, RestForward DEF Discover
<1>3. ASSUME NEW w \in Workers, NEW k \in job[w].left, NEW s \in Answers, StoreBatch(w, k, s)
      PROVE  IndexInv' /\ RowsForward /\ ScanForward
  <2>1. scanned' = scanned
    BY <1>3 DEF StoreBatch
  <2>2. QED
    BY <1>3, <1>s, <2>1, StoreBatchKeeps
<1>4. CASE FinishScan
  BY <1>4, FinishScanKeeps
<1>5. CASE NextPage
  BY <1>5, NextPageKeeps, RestForward DEF NextPage
<1>6. CASE \E s \in Answers, A \in SUBSET Addresses : StartReceipts(s, A)
  BY <1>6, StartReceiptsKeeps, RestForward DEF StartReceipts
<1>7. CASE FinishReceipts
  BY <1>7, <1>w, IdleKeeps, RestForward DEF FinishReceipts
<1>8. CASE \E w \in Workers : Fail(w)
  BY <1>8, IdleKeeps, RestForward DEF Fail
<1>9. CASE Restart
  BY <1>9, RestartKeeps, RestForward DEF Restart
<1>10. CASE Elapse
  <2>1. calm' \in BOOLEAN /\ discovered' \in BOOLEAN
    BY <1>10, <1>b DEF Elapse
  <2>2. QED
    BY <1>10, <2>1, RestKeeps, RestForward DEF Elapse
<1>11. CASE \E stages \in [Addresses -> Stages] : Finalize(stages)
  BY <1>11, FinalizeKeeps, RestForward DEF Finalize
<1>12. CASE CalmDown
  <2>1. calm' \in BOOLEAN /\ discovered' \in BOOLEAN
    BY <1>12, <1>b DEF CalmDown
  <2>2. QED
    BY <1>12, <2>1, RestKeeps, RestForward DEF CalmDown
<1>13. CASE UNCHANGED vars
  BY <1>13, <1>b, RestKeeps, RestForward DEF vars
<1>14. QED
  BY <1>1, <1>2, <1>3, <1>4, <1>5, <1>6, <1>7, <1>8, <1>9, <1>10, <1>11, <1>12, <1>13, <1>w
  DEF Next, IndexWorker, ActivityWorker, Environment

\* IndexInv holds in every reachable state.
THEOREM IndexInvariant == Spec => []IndexInv
<1>1. IndexInv /\ [Next]_vars => IndexInv'
  BY StepKeeps
<1>2. QED
  BY <1>1, InitIndexInv, PTL DEF Spec

\* Every reachable state of the tables and of the workers is type correct.
THEOREM IndexTyped == Spec => []TypeOK
<1>1. IndexInv => TypeOK
  BY DEF IndexInv
<1>2. QED
  BY <1>1, IndexInvariant, PTL

\* Every row is the account as the ledger had it at the row's slot (upsert).
THEOREM RowsAreTrue == Spec => []RowsTrue
<1>1. IndexInv => RowsTrue
  BY DEF IndexInv
<1>2. QED
  BY <1>1, IndexInvariant, PTL

\* A worker done with its batches has refreshed all of its goal (refresh_batches).
THEOREM GoalsCovered == Spec => []BatchesCover
<1>1. IndexInv => BatchesCover
  BY DEF IndexInv
<1>2. QED
  BY <1>1, IndexInvariant, PTL

\* A completed full scan left nothing out that existed at its slot (Indexer::refresh).
THEOREM ScansComplete == Spec => []ScanCovers
<1>1. IndexInv => ScanCovers
  BY DEF IndexInv
<1>2. QED
  BY <1>1, IndexInvariant, PTL

\* A poll skips no live row of the last full scan (active_addresses).
THEOREM PollsComplete == Spec => []PollCovers
<1>1. IndexInv => PollCovers
  BY DEF IndexInv
<1>2. QED
  BY <1>1, IndexInvariant, PTL

\* Rows never go back in slot or stage (upsert).
THEOREM RowsNeverRegress == Spec => NeverRegress
<1>1. IndexInv /\ [Next]_vars => RowsForward
  BY StepKeeps
<1>2. IndexInv /\ [Next]_vars => [RowsForward]_vars
  BY <1>1
<1>3. QED
  BY <1>2, IndexInvariant, PTL DEF Spec, NeverRegress

\* Completed full scans never go back in slot (Indexer::refresh).
THEOREM ScansNeverGoBack == Spec => ScansAdvance
<1>1. IndexInv /\ [Next]_vars => [ScanForward]_vars
  BY StepKeeps
<1>2. QED
  BY <1>1, IndexInvariant, PTL DEF Spec, ScansAdvance
=============================================================================
