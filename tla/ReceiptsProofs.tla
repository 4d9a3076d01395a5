--------------------------- MODULE ReceiptsProofs ---------------------------
(***************************************************************************)
(* What holds of the server's receipts for any signatures, requests, size  *)
(* of a pass, lag, depth of finality and life of a blockhash.              *)
(***************************************************************************)
EXTENDS Receipts, SequenceTheorems, TLAPS

RecordedOnes == {s \in Signatures : Recorded(s)}
Answers == {"null", "processed", "confirmed", "finalized"}
Entries == [of : RecordedOnes, status : {"finalized", "reconciled"}]

\* The ledger: only a signature that was sent lands, in time.
LedgerOK ==
  /\ tip \in Nat \ {0} /\ born \in [Signatures -> Nat] /\ landed \in [Signatures -> Nat]
  /\ sent \in SUBSET Signatures /\ worked \in SUBSET Signatures
  /\ \A s \in sent : Signed(s)
  /\ \A s \in Signatures :
       landed[s] # 0 => s \in sent /\ landed[s] <= tip /\ landed[s] <= Expiry(s)
  /\ \A s \in worked : landed[s] # 0

RequestStates ==
  [step : {"idle", "refused", "valid", "lifetime", "simulate", "again", "insert", "relay"},
   of : Signatures \cup {None}, minimum : Nat, height : Nat]

\* A request's minimum is a block that knows the blockhash, and its bound outlives it.
RequestOK(q) ==
  /\ q.step \notin {"idle", "refused"} => q.of \in Signatures /\ Signed(q.of)
  /\ q.step \in {"lifetime", "simulate", "again", "insert"} => born[q.of] <= q.minimum
  /\ q.step \in {"simulate", "again", "insert"} => Expiry(q.of) <= q.height

RequestsOK ==
  request \in [Requests -> RequestStates] /\ \A r \in Requests : RequestOK(request[r])

TableOK ==
  /\ status \in [Signatures -> {"none"} \cup InFlight \cup Final]
  /\ bound \in [Signatures -> Nat]
  /\ fresh \in Seq(RecordedOnes) /\ rest \in Seq(RecordedOnes)
  /\ \A s \in RecordedOnes : Signed(s) /\ bound[s] >= Expiry(s)
  /\ indexed \in Nat /\ indexed <= root

\* The outcomes that are true for who reads the agreement at block v.
TrueAt(v) ==
  {e \in Entries : /\ e.status = "finalized" => e.of \in worked /\ landed[e.of] <= v
                   /\ e.status = "reconciled" => root > Expiry(e.of) /\ Taken(v)}

JobStates ==
  [step : {"idle", "root", "history", "judge", "index", "complete", "rotate"},
   todo : Seq(RecordedOnes), root : Nat, said : Seq(Answers), minimum : Nat, completed : Seq(Entries)]

\* What a pass read or holds is true while it holds it: k is the pass, the index is at i.
PassOK(k, i) ==
  /\ k \in JobStates
  /\ k.root <= root /\ k.minimum <= root
  /\ k.step \in {"root", "history"} => k.todo # <<>> /\ k.completed = <<>>
  /\ k.step = "judge" => k.todo # <<>> /\ Len(k.said) = Len(k.todo)
  /\ k.step = "judge" =>
       \A n \in 1..Len(k.todo) :
         k.said[n] = "finalized" => landed[k.todo[n]] # 0 /\ landed[k.todo[n]] <= root
  /\ k.step \in {"index", "complete", "rotate"} => k.completed # <<>>
  /\ k.step \in {"judge", "index"} => k.completed \in Seq(TrueAt(k.minimum))
  /\ k.step = "complete" => k.completed \in Seq(TrueAt(i))

JobOK == PassOK(job, indexed)

\* One conjunct of OutcomeTrue.
OutcomeOf(s, outcome) ==
  CASE outcome = "finalized"  -> s \in worked /\ landed[s] <= root /\ indexed >= landed[s]
    [] outcome = "failed"     -> s \notin worked /\ landed[s] # 0 /\ landed[s] <= root
    [] outcome = "expired"    -> s \notin worked /\ root > Expiry(s)
    [] outcome = "reconciled" -> root > Expiry(s) /\ Taken(indexed)
    [] OTHER -> TRUE

ReceiptsInv == LedgerOK /\ RequestsOK /\ TableOK /\ JobOK /\ OutcomeTrue

LEMMA OutcomesApart == OutcomeTrue <=> \A s \in Signatures : OutcomeOf(s, status[s])
BY Zenon DEF OutcomeTrue, OutcomeOf

-----------------------------------------------------------------------------
LEMMA InitReceipts == ReceiptsInit => ReceiptsInv
<1> SUFFICES ASSUME ReceiptsInit PROVE ReceiptsInv
  OBVIOUS
<1> USE DEF ReceiptsInit
<1>0. root \in Nat /\ <<>> \in Seq(RecordedOnes) /\ <<>> \in Seq(Answers) /\ <<>> \in Seq(Entries)
  BY EmptySeq, ReceiptsAssumption DEF root
<1>1. LedgerOK
  BY DEF LedgerOK
<1>2. RequestsOK
  BY DEF RequestsOK, RequestOK, RequestStates, NoRequest
<1>3. TableOK
  BY <1>0 DEF TableOK, RecordedOnes, Recorded
<1>4. JobOK
  BY <1>0 DEF JobOK, PassOK, JobStates, NoJob
<1>5. OutcomeTrue
  BY OutcomesApart DEF OutcomeOf
<1> QED BY <1>1, <1>2, <1>3, <1>4, <1>5 DEF ReceiptsInv

-----------------------------------------------------------------------------
(* The ledger *)

\* What is finalized, or dead, stays so.
Onwards ==
  /\ root \in Nat /\ root' \in Nat /\ root <= root'
  /\ \A s \in Signatures : Signed(s) => born'[s] = born[s]
  /\ \A s \in Signatures : landed[s] # 0 /\ landed[s] <= root =>
       landed'[s] = landed[s] /\ (s \in worked' <=> s \in worked)
  /\ \A s \in Signatures : Signed(s) /\ root > Expiry(s) /\ s \notin worked => s \notin worked'

LedgerStep ==
  \/ \E s \in Signatures : Sign(s) \/ SendElsewhere(s) \/ Land(s) \/ Abandon(s)
  \/ Advance

LEMMA RootBehind == ASSUME tip \in Nat \ {0} PROVE root \in Nat /\ root < tip
BY ReceiptsAssumption DEF root

LEMMA SignMoves == ASSUME LedgerOK, NEW s \in Signatures, Sign(s) PROVE LedgerOK' /\ Onwards
<1> USE DEF LedgerOK, Sign, chain
<1>1. root \in Nat /\ root' = root /\ Life \in Nat
  BY RootBehind, ReceiptsAssumption DEF root
<1>2. LedgerOK'
  BY <1>1 DEF Signed, Expiry
<1>3. Onwards
  BY <1>1 DEF Onwards, Signed, Expiry
<1> QED BY <1>2, <1>3

LEMMA SendMoves ==
  ASSUME LedgerOK, NEW s \in Signatures, Signed(s), sent' = sent \cup {s}, UNCHANGED <<born, chain>>
  PROVE  LedgerOK' /\ Onwards
<1> USE DEF LedgerOK, chain
<1>1. root \in Nat /\ root' = root /\ Life \in Nat
  BY RootBehind, ReceiptsAssumption DEF root
<1>2. LedgerOK'
  BY <1>1 DEF Signed, Expiry
<1>3. Onwards
  BY <1>1 DEF Onwards, Signed, Expiry
<1> QED BY <1>2, <1>3

LEMMA LandMoves == ASSUME LedgerOK, NEW s \in Signatures, Land(s) PROVE LedgerOK' /\ Onwards
<1> USE DEF LedgerOK, Land
<1>1. root \in Nat /\ root < tip /\ root' = root /\ Life \in Nat
  BY RootBehind, ReceiptsAssumption DEF root
<1>2. worked' \in {worked, worked \cup {s}}
  OBVIOUS
<1>3. LedgerOK'
  BY <1>1, <1>2 DEF Signed, Expiry
<1>4. Onwards
  BY <1>1, <1>2 DEF Onwards, Signed, Expiry
<1> QED BY <1>3, <1>4

LEMMA AbandonMoves == ASSUME LedgerOK, NEW s \in Signatures, Abandon(s) PROVE LedgerOK' /\ Onwards
<1> USE DEF LedgerOK, Abandon
<1>1. root \in Nat /\ root < tip /\ root' = root /\ Life \in Nat
  BY RootBehind, ReceiptsAssumption DEF root
<1>2. LedgerOK'
  BY <1>1 DEF Signed, Expiry
<1>3. Onwards
  BY <1>1 DEF Onwards, Signed, Expiry
<1> QED BY <1>2, <1>3

LEMMA AdvanceMoves == ASSUME LedgerOK, Advance PROVE LedgerOK' /\ Onwards
<1> USE DEF LedgerOK, Advance
<1>1. root \in Nat /\ root' \in Nat /\ root <= root' /\ Life \in Nat
  BY ReceiptsAssumption DEF root
<1>2. LedgerOK'
  BY <1>1 DEF Signed, Expiry
<1>3. Onwards
  BY <1>1 DEF Onwards, Signed, Expiry
<1> QED BY <1>2, <1>3

LEMMA LedgerRests == ASSUME LedgerOK, UNCHANGED <<born, sent, chain>> PROVE LedgerOK' /\ Onwards
<1> USE DEF LedgerOK, chain
<1>1. root \in Nat /\ root' = root
  BY RootBehind DEF root
<1>2. LedgerOK'
  BY DEF Signed, Expiry
<1>3. Onwards
  BY <1>1 DEF Onwards, Signed, Expiry
<1> QED BY <1>2, <1>3

LEMMA LedgerMoves == ASSUME LedgerOK, LedgerStep PROVE LedgerOK' /\ Onwards
<1>1. ASSUME NEW s \in Signatures, SendElsewhere(s) PROVE LedgerOK' /\ Onwards
  BY <1>1, SendMoves DEF SendElsewhere
<1> QED BY <1>1, SignMoves, LandMoves, AbandonMoves, AdvanceMoves DEF LedgerStep

-----------------------------------------------------------------------------
(* What a move of the ledger leaves true *)

LEMMA RequestsCarried ==
  ASSUME LedgerOK, LedgerOK', RequestsOK, Onwards, request' = request
  PROVE  RequestsOK'
<1>1. ASSUME NEW r \in Requests PROVE RequestOK(request[r])'
  <2>1. request[r] \in RequestStates /\ RequestOK(request[r])
    BY DEF RequestsOK
  <2>2. Signed(request[r].of) /\ request[r].of \in Signatures =>
          born'[request[r].of] = born[request[r].of] /\ Signed(request[r].of)'
    BY DEF Onwards, Signed
  <2> QED BY <2>1, <2>2 DEF RequestOK, Expiry, RequestStates
<1> QED BY <1>1 DEF RequestsOK, RequestStates

LEMMA TableCarried ==
  ASSUME LedgerOK, TableOK, Onwards, UNCHANGED <<table, indexed>>
  PROVE  TableOK' /\ RecordedOnes' = RecordedOnes
<1>1. status' = status /\ bound' = bound /\ fresh' = fresh /\ rest' = rest /\ indexed' = indexed
  BY DEF table
<1>2. RecordedOnes' = RecordedOnes
  BY <1>1 DEF RecordedOnes, Recorded
<1>3. \A s \in RecordedOnes : Signed(s)' /\ Expiry(s)' = Expiry(s)
  BY DEF TableOK, Onwards, Signed, Expiry, RecordedOnes
<1>4. indexed' \in Nat /\ indexed' <= root'
  BY <1>1 DEF TableOK, Onwards
<1> QED BY <1>1, <1>2, <1>3, <1>4 DEF TableOK

LEMMA OutcomeCarried ==
  ASSUME LedgerOK, LedgerOK', Onwards, indexed \in Nat, indexed' \in Nat, indexed <= indexed', indexed <= root,
         NEW s \in Signatures, NEW outcome,
         outcome = "none" \/ Signed(s), OutcomeOf(s, outcome)
  PROVE  OutcomeOf(s, outcome)'
<1> USE DEF LedgerOK
<1>1. Signed(s) => Expiry(s)' = Expiry(s) /\ Expiry(s) \in Nat
  BY ReceiptsAssumption DEF Onwards, Expiry
<1>2. Taken(indexed) => Taken(indexed)'
  BY DEF Taken, Onwards
<1>3. CASE outcome = "finalized"
  BY <1>3 DEF OutcomeOf, Onwards
<1>4. CASE outcome = "failed"
  BY <1>4 DEF OutcomeOf, Onwards
<1>5. CASE outcome = "expired"
  <2>1. s \notin worked /\ root > Expiry(s)
    BY <1>5 DEF OutcomeOf
  <2>2. s \notin worked' /\ root' > Expiry(s)'
    BY <1>1, <1>5, <2>1 DEF Onwards
  <2> QED BY <1>5, <2>2 DEF OutcomeOf
<1>6. CASE outcome = "reconciled"
  <2>1. root > Expiry(s) /\ Taken(indexed)
    BY <1>6 DEF OutcomeOf
  <2>2. root' > Expiry(s)'
    BY <1>1, <1>6, <2>1 DEF Onwards
  <2> QED BY <1>2, <1>6, <2>1, <2>2 DEF OutcomeOf
<1>7. CASE outcome \notin {"finalized", "failed", "expired", "reconciled"}
  BY <1>7 DEF OutcomeOf
<1> QED BY <1>3, <1>4, <1>5, <1>6, <1>7

LEMMA OutcomesCarried ==
  ASSUME LedgerOK, LedgerOK', Onwards, TableOK, OutcomeTrue, status' = status,
         indexed' \in Nat, indexed <= indexed'
  PROVE  OutcomeTrue'
<1>1. ASSUME NEW s \in Signatures PROVE OutcomeOf(s, status[s])'
  <2>1. OutcomeOf(s, status[s])
    BY OutcomesApart
  <2>2. status[s] = "none" \/ Signed(s)
    BY DEF TableOK, RecordedOnes, Recorded
  <2>3. indexed \in Nat /\ indexed <= root
    BY DEF TableOK
  <2> DEFINE o == status[s]
  <2>4. \A out : out = o => OutcomeOf(s, out)'
    BY <2>1, <2>2, <2>3, OutcomeCarried
  <2> QED BY <2>4 DEF OutcomeOf
<1> QED BY <1>1, Zenon DEF OutcomeTrue, OutcomeOf

LEMMA TrueCarried ==
  ASSUME LedgerOK, LedgerOK', TableOK, Onwards, RecordedOnes \subseteq RecordedOnes',
         NEW v \in Nat, v <= root
  PROVE  TrueAt(v) \subseteq TrueAt(v)'
<1> SUFFICES ASSUME NEW e \in TrueAt(v) PROVE e \in TrueAt(v)'
  OBVIOUS
<1> USE DEF LedgerOK
<1>1. e \in Entries /\ e \in Entries' /\ e.of \in RecordedOnes /\ e.of \in Signatures
  BY DEF TrueAt, Entries, RecordedOnes
<1>2. Expiry(e.of)' = Expiry(e.of) /\ Expiry(e.of) \in Nat
  BY <1>1, ReceiptsAssumption DEF TableOK, Onwards, Expiry
<1>3. Taken(v) => Taken(v)'
  BY DEF Taken, Onwards
<1>4. e.status = "finalized" => e.of \in worked' /\ landed'[e.of] <= v
  BY <1>1 DEF TrueAt, Onwards
<1>5. e.status = "reconciled" => root' > Expiry(e.of)' /\ Taken(v)'
  BY <1>2, <1>3 DEF TrueAt, Onwards
<1> QED BY <1>1, <1>4, <1>5 DEF TrueAt

LEMMA TrueGrows ==
  ASSUME LedgerOK, NEW v \in Nat, NEW w \in Nat, v <= w
  PROVE  TrueAt(v) \subseteq TrueAt(w)
<1>1. Taken(v) => Taken(w)
  BY DEF Taken, LedgerOK
<1>2. \A s \in worked : landed[s] \in Nat
  BY DEF LedgerOK
<1> QED BY <1>1, <1>2 DEF TrueAt

\* Whatever a step makes of the pass, it only has to be right in the state before it.
LEMMA JobBecomes ==
  ASSUME LedgerOK, LedgerOK', TableOK, Onwards, RecordedOnes \subseteq RecordedOnes',
         NEW k, NEW i \in Nat, i <= root, PassOK(k, i), k = job', i = indexed'
  PROVE  JobOK'
<1>1. k \in JobStates /\ k.minimum \in Nat /\ k.minimum <= root /\ k.root <= root
  BY DEF PassOK, JobStates
<1>2. TrueAt(k.minimum) \subseteq TrueAt(k.minimum)'
  <2>1. \A v \in Nat : v = k.minimum => TrueAt(v) \subseteq TrueAt(v)'
    BY <1>1, TrueCarried
  <2> QED BY <1>1, <2>1 DEF TrueAt, Taken
<1>3. TrueAt(i) \subseteq TrueAt(i)'
  BY TrueCarried
<1>4. k \in JobStates'
  <2>1. Entries \subseteq Entries'
    BY DEF Entries
  <2>2. \A q \in Seq(RecordedOnes) : q \in Seq(RecordedOnes')
    BY SeqMonotonic
  <2>3. \A q \in Seq(Entries) : q \in Seq(Entries')
    BY <2>1, SeqMonotonic
  <2> QED BY <1>1, <2>2, <2>3 DEF JobStates
<1>5. k.step \in {"judge", "index"} => k.completed \in Seq(TrueAt(k.minimum))'
  <2>1. \A q \in Seq(TrueAt(k.minimum)) : q \in Seq(TrueAt(k.minimum)')
    BY <1>2, SeqMonotonic
  <2> QED BY <2>1 DEF PassOK
<1>6. k.step = "complete" => k.completed \in Seq(TrueAt(i))'
  <2>1. \A q \in Seq(TrueAt(i)) : q \in Seq(TrueAt(i)')
    BY <1>3, SeqMonotonic
  <2> QED BY <2>1 DEF PassOK
<1>7. k.step = "judge" =>
        \A n \in 1..Len(k.todo) :
          k.said[n] = "finalized" => landed'[k.todo[n]] # 0 /\ landed'[k.todo[n]] <= root'
  <2> SUFFICES ASSUME k.step = "judge", NEW n \in 1..Len(k.todo), k.said[n] = "finalized"
               PROVE  landed'[k.todo[n]] # 0 /\ landed'[k.todo[n]] <= root'
    OBVIOUS
  <2>1. landed[k.todo[n]] # 0 /\ landed[k.todo[n]] <= root
    BY DEF PassOK
  <2>2. k.todo[n] \in Signatures
    BY <1>1, ElementOfSeq DEF JobStates, RecordedOnes
  <2> QED BY <2>1, <2>2 DEF Onwards, LedgerOK
<1>8. k.root <= root' /\ k.minimum <= root'
  BY <1>1 DEF JobStates, Onwards
<1>9. PassOK(k, i)'
  BY <1>4, <1>5, <1>6, <1>7, <1>8 DEF PassOK
<1> QED BY <1>9, Zenon DEF JobOK, PassOK

LEMMA JobCarried ==
  ASSUME LedgerOK, LedgerOK', TableOK, JobOK, Onwards, RecordedOnes \subseteq RecordedOnes',
         UNCHANGED <<job, indexed>>
  PROVE  JobOK'
<1>1. indexed \in Nat /\ indexed <= root
  BY DEF TableOK
<1>2. PICK k, i : k = job' /\ i = indexed' /\ PassOK(k, i)
  BY DEF JobOK
<1> QED BY <1>1, <1>2, JobBecomes

LEMMA LedgerKeeps == ASSUME ReceiptsInv, LedgerStep PROVE ReceiptsInv'
<1> USE DEF ReceiptsInv
<1>1. LedgerOK' /\ Onwards
  BY LedgerMoves
<1>2. UNCHANGED <<table, indexed, request, job>>
  BY DEF LedgerStep, Sign, SendElsewhere, Land, Abandon, Advance, Ledger
<1>3. status' = status /\ indexed' = indexed /\ indexed \in Nat
  BY <1>2 DEF table, TableOK
<1>4. TableOK' /\ RecordedOnes' = RecordedOnes
  BY <1>1, <1>2, TableCarried
<1>5. RequestsOK' /\ JobOK'
  BY <1>1, <1>2, <1>4, RequestsCarried, JobCarried
<1>6. OutcomeTrue'
  BY <1>1, <1>3, OutcomesCarried
<1> QED BY <1>1, <1>4, <1>5, <1>6

-----------------------------------------------------------------------------
(* Requests *)

\* A step that changes one request is judged by what it makes of it.
LEMMA RequestChanged ==
  ASSUME LedgerOK, RequestsOK, UNCHANGED born, NEW r \in Requests, NEW q \in RequestStates, RequestOK(q),
         request' = [request EXCEPT ![r] = q]
  PROVE  RequestsOK'
<1>1. ASSUME NEW t \in Requests, NEW x, x = request'[t] PROVE RequestOK(x)'
  <2>1. x \in RequestStates /\ RequestOK(x)
    BY <1>1 DEF RequestsOK
  <2> QED BY <2>1 DEF RequestOK, Signed, Expiry
<1>2. request' \in [Requests -> RequestStates]
  BY DEF RequestsOK
<1> QED BY <1>1, <1>2 DEF RequestsOK, RequestStates

LEMMA RequestStepOK ==
  ASSUME LedgerOK, RequestsOK, TableOK, NEW r \in Requests,
         \/ \E s \in Signatures : Arrive(r, s)
         \/ Refuse(r) \/ CheckBlockhash(r) \/ Lifetime(r) \/ Simulate(r) \/ LookAgain(r) \/ Drop(r)
  PROVE  RequestsOK'
<1> DEFINE q == request[r]
<1>0. /\ q \in RequestStates /\ RequestOK(q) /\ NoRequest \in RequestStates /\ Life \in Nat
      /\ request \in [Requests -> RequestStates]
      /\ \A v \in Views(tip) : v \in Nat
  BY ReceiptsAssumption DEF RequestsOK, RequestStates, NoRequest, Views, LedgerOK
<1> USE DEF Asking
<1>1. ASSUME NEW s \in Signatures, Arrive(r, s) PROVE RequestsOK'
  <2> DEFINE new == [NoRequest EXCEPT !.step = IF status[s] = "none" THEN "valid" ELSE "relay", !.of = s]
  <2>1. new \in RequestStates /\ RequestOK(new)
    BY <1>1 DEF Arrive, NoRequest, RequestStates, RequestOK
  <2>2. request' = [request EXCEPT ![r] = new] /\ UNCHANGED born
    BY <1>1 DEF Arrive
  <2> HIDE DEF new
  <2> QED BY <2>1, <2>2, RequestChanged
<1>2. ASSUME Refused(r), UNCHANGED born PROVE RequestsOK'
  <2> DEFINE new == [NoRequest EXCEPT !.step = "refused"]
  <2>1. new \in RequestStates /\ RequestOK(new)
    BY DEF NoRequest, RequestStates, RequestOK
  <2>2. request' = [request EXCEPT ![r] = new]
    BY <1>2 DEF Refused
  <2> HIDE DEF new
  <2> QED BY <1>2, <2>1, <2>2, RequestChanged
<1>3. ASSUME Ends(r), UNCHANGED born PROVE RequestsOK'
  <2>1. RequestOK(NoRequest)
    BY DEF NoRequest, RequestOK
  <2> QED BY <1>0, <1>3, <2>1, RequestChanged DEF Ends
<1>4. CASE Refuse(r)
  BY <1>2, <1>4 DEF Refuse
<1>5. CASE CheckBlockhash(r)
  <2>1. PICK v \in Views(tip) :
          /\ born[q.of] <= v
          /\ request' = [request EXCEPT ![r].step = "lifetime", ![r].minimum = v]
    BY <1>5 DEF CheckBlockhash
  <2> DEFINE new == [q EXCEPT !.step = "lifetime", !.minimum = v]
  <2>2. new \in RequestStates /\ RequestOK(new)
    BY <1>0, <1>5, <2>1 DEF CheckBlockhash, At, RequestStates, RequestOK
  <2>3. request' = [request EXCEPT ![r] = new] /\ UNCHANGED born
    BY <1>0, <1>5, <2>1 DEF CheckBlockhash, RequestStates
  <2> HIDE DEF new
  <2> QED BY <2>2, <2>3, RequestChanged
<1>6. CASE Lifetime(r)
  <2>1. PICK v \in Views(tip) :
          /\ v >= q.minimum
          /\ request' = [request EXCEPT ![r].step = "simulate", ![r].height = v + Life]
    BY <1>6 DEF Lifetime
  <2> DEFINE new == [q EXCEPT !.step = "simulate", !.height = v + Life]
  <2>2. q.of \in Signatures /\ Signed(q.of) /\ born[q.of] <= q.minimum /\ born[q.of] \in Nat
    BY <1>0, <1>6 DEF Lifetime, At, RequestOK, LedgerOK
  <2>3. new \in RequestStates /\ RequestOK(new)
    <3>1. v \in Nat /\ q.minimum \in Nat /\ q \in RequestStates /\ Life \in Nat
      BY <1>0, <2>1 DEF RequestStates
    <3>2. Expiry(q.of) <= v + Life /\ v + Life \in Nat
      BY <2>1, <2>2, <3>1 DEF Expiry
    <3>3. new \in RequestStates /\ new.of = q.of /\ new.minimum = q.minimum /\ new.height = v + Life
      BY <3>1, <3>2 DEF RequestStates
    <3> HIDE DEF new
    <3> QED BY <2>2, <3>2, <3>3 DEF RequestOK
  <2>4. request' = [request EXCEPT ![r] = new] /\ UNCHANGED born
    BY <1>0, <1>6, <2>1 DEF Lifetime, RequestStates
  <2> HIDE DEF new
  <2> QED BY <2>3, <2>4, RequestChanged
<1>7. ASSUME NEW step \in {"again", "insert", "relay"}, Goes(r, step), UNCHANGED born,
             q.step \in {"simulate", "again"}
      PROVE  RequestsOK'
  <2> DEFINE new == [q EXCEPT !.step = step]
  <2>1. new \in RequestStates /\ RequestOK(new)
    BY <1>0, <1>7 DEF RequestStates, RequestOK
  <2>2. request' = [request EXCEPT ![r] = new]
    BY <1>0, <1>7 DEF Goes, RequestStates
  <2> HIDE DEF new
  <2> QED BY <1>7, <2>1, <2>2, RequestChanged
<1>8. CASE Simulate(r)
  BY <1>7, <1>8 DEF Simulate, At
<1>9. CASE LookAgain(r)
  BY <1>2, <1>7, <1>9 DEF LookAgain, At
<1>10. CASE Drop(r)
  BY <1>3, <1>10 DEF Drop
<1> QED BY <1>1, <1>4, <1>5, <1>6, <1>8, <1>9, <1>10

LEMMA AskingKeeps ==
  ASSUME ReceiptsInv, Asking, RequestsOK' PROVE ReceiptsInv'
<1> USE DEF ReceiptsInv, Asking
<1>1. LedgerOK' /\ Onwards
  BY LedgerRests
<1>2. status' = status /\ indexed' = indexed /\ indexed \in Nat
  BY DEF table, TableOK
<1>3. TableOK' /\ RecordedOnes' = RecordedOnes
  BY <1>1, TableCarried
<1>4. JobOK'
  BY <1>1, <1>3, JobCarried
<1>5. OutcomeTrue'
  BY <1>1, <1>2, OutcomesCarried
<1> QED BY <1>1, <1>3, <1>4, <1>5

\* A new receipt has the bound its request computed.
LEMMA InsertKeeps == ASSUME ReceiptsInv, NEW r \in Requests, Insert(r) PROVE ReceiptsInv'
<1> USE DEF ReceiptsInv
<1> DEFINE q == request[r]
           s == q.of
<1>1. LedgerOK' /\ Onwards
  BY LedgerRests DEF Insert
<1>2. /\ q \in RequestStates /\ RequestOK(q) /\ q.step = "insert"
      /\ s \in Signatures /\ Signed(s) /\ Expiry(s) <= q.height /\ q.height \in Nat
  BY DEF Insert, At, RequestsOK, RequestOK, RequestStates
<1>3. RequestsOK'
  <2> DEFINE new == [q EXCEPT !.step = "relay"]
  <2>1. new \in RequestStates /\ RequestOK(new)
    BY <1>2 DEF RequestStates, RequestOK
  <2>2. request' = [request EXCEPT ![r] = new] /\ UNCHANGED born
    BY DEF Insert, Goes, RequestsOK, RequestStates
  <2> HIDE DEF new
  <2> QED BY <2>1, <2>2, RequestChanged
<1>4. indexed' = indexed /\ indexed \in Nat /\ job' = job /\ UNCHANGED <<job, indexed>>
  BY DEF Insert, TableOK
<1>5. CASE status[s] # "none"
  <2>1. UNCHANGED <<table, indexed>> /\ status' = status
    BY <1>4, <1>5 DEF Insert, table
  <2>2. TableOK' /\ RecordedOnes' = RecordedOnes
    BY <1>1, <2>1, TableCarried
  <2>3. JobOK' /\ OutcomeTrue'
    BY <1>1, <1>4, <2>1, <2>2, JobCarried, OutcomesCarried
  <2> QED BY <1>1, <1>3, <2>2, <2>3
<1>6. CASE status[s] = "none"
  <2>1. /\ status' = [status EXCEPT ![s] = "pending"] /\ bound' = [bound EXCEPT ![s] = q.height]
        /\ fresh' = Append(fresh, s) /\ rest' = rest
    BY <1>6 DEF Insert
  <2>2. RecordedOnes \subseteq RecordedOnes' /\ s \in RecordedOnes' /\ RecordedOnes' \subseteq RecordedOnes \cup {s}
    BY <1>2, <2>1 DEF RecordedOnes, Recorded, TableOK
  <2>3. fresh' \in Seq(RecordedOnes') /\ rest' \in Seq(RecordedOnes')
    <3>1. \A seq \in Seq(RecordedOnes) : seq \in Seq(RecordedOnes')
      BY <2>2, SeqMonotonic
    <3>2. fresh \in Seq(RecordedOnes') /\ rest \in Seq(RecordedOnes')
      BY <3>1 DEF TableOK
    <3> QED BY <2>1, <2>2, <3>2, AppendProperties
  <2>4. \A t \in RecordedOnes' : Signed(t)' /\ bound'[t] >= Expiry(t)'
    <3>1. \A t \in Signatures : Signed(t)' = Signed(t) /\ Expiry(t)' = Expiry(t)
      BY DEF Insert, Signed, Expiry
    <3> QED BY <1>2, <2>1, <2>2, <3>1 DEF TableOK, RecordedOnes
  <2>5. status' \in [Signatures -> {"none"} \cup InFlight \cup Final] /\ bound' \in [Signatures -> Nat]
    BY <1>2, <2>1 DEF TableOK, InFlight
  <2>6. TableOK'
    BY <1>1, <1>4, <2>3, <2>4, <2>5 DEF TableOK, Onwards
  <2>7. JobOK'
    BY <1>1, <1>4, <2>2, JobCarried
  <2>8. OutcomeTrue'
    <3>1. ASSUME NEW t \in Signatures, NEW out, out = status'[t] PROVE OutcomeOf(t, out)'
      <4>1. CASE t = s
        <5>1. out = "pending"
          BY <1>2, <2>1, <3>1, <4>1 DEF TableOK
        <5> QED BY <5>1 DEF OutcomeOf
      <4>2. CASE t # s
        <5>1. out = status[t]
          BY <2>1, <3>1, <4>2 DEF TableOK
        <5>2. OutcomeOf(t, status[t]) /\ (status[t] = "none" \/ Signed(t))
          BY OutcomesApart DEF TableOK, RecordedOnes, Recorded
        <5>3. OutcomeOf(t, out) /\ (out = "none" \/ Signed(t))
          BY <5>1, <5>2
        <5> QED BY <1>1, <1>4, <5>3, OutcomeCarried DEF TableOK
      <4> QED BY <4>1, <4>2
    <3> QED BY <3>1, Zenon DEF OutcomeTrue, OutcomeOf
  <2> QED BY <1>1, <1>3, <2>6, <2>7, <2>8
<1> QED BY <1>5, <1>6

LEMMA RelayKeeps == ASSUME ReceiptsInv, NEW r \in Requests, Relay(r) PROVE ReceiptsInv'
<1> USE DEF ReceiptsInv
<1>1. request[r].of \in Signatures /\ Signed(request[r].of)
  BY DEF Relay, At, RequestsOK, RequestOK
<1>2. LedgerOK' /\ Onwards
  BY <1>1, SendMoves DEF Relay
<1>3. UNCHANGED <<table, indexed, job>> /\ status' = status /\ indexed' = indexed /\ indexed \in Nat
  BY DEF Relay, table, TableOK
<1>4. TableOK' /\ RecordedOnes' = RecordedOnes
  BY <1>2, <1>3, TableCarried
<1>5. JobOK' /\ OutcomeTrue'
  BY <1>2, <1>3, <1>4, JobCarried, OutcomesCarried
<1>6. RequestsOK'
  <2>1. NoRequest \in RequestStates /\ RequestOK(NoRequest)
    BY DEF NoRequest, RequestStates, RequestOK
  <2> QED BY <2>1, RequestChanged DEF Relay, Ends
<1> QED BY <1>2, <1>4, <1>5, <1>6

-----------------------------------------------------------------------------
(* The worker *)

LEMMA WithoutSeq ==
  ASSUME NEW S, NEW queue \in Seq(S), NEW s
  PROVE  Without(queue, s) \in Seq(S)
<1>1. CASE s \in ToSet(queue)
  <2> DEFINE i == CHOOSE i \in DOMAIN queue : queue[i] = s
  <2>1. i \in 1..Len(queue) /\ Len(queue) \in Nat /\ \A n \in 1..Len(queue) : queue[n] \in S
    BY <1>1, LenProperties, ElementOfSeq DEF ToSet
  <2> HIDE DEF i
  <2>2. SubSeq(queue, 1, i - 1) \in Seq(S)
    <3>1. \A n \in 1..(i - 1) : queue[n] \in S
      BY <2>1
    <3> QED BY <2>1, <3>1, SubSeqProperties
  <2>3. SubSeq(queue, i + 1, Len(queue)) \in Seq(S)
    <3>1. \A n \in (i + 1)..Len(queue) : queue[n] \in S
      BY <2>1
    <3> QED BY <2>1, <3>1, SubSeqProperties
  <2> QED BY <1>1, <2>2, <2>3, ConcatProperties DEF Without, RemoveAt, i
<1>2. CASE s \notin ToSet(queue)
  BY <1>2 DEF Without
<1> QED BY <1>1, <1>2

\* A step of the worker that only reads.
LEMMA ReadingKeeps ==
  ASSUME ReceiptsInv, Reading, NEW k, k = job', PassOK(k, indexed)
  PROVE  ReceiptsInv'
<1> USE DEF ReceiptsInv, Reading
<1>1. LedgerOK' /\ Onwards
  BY LedgerRests
<1>2. status' = status /\ indexed' = indexed /\ indexed \in Nat /\ indexed <= root
  BY DEF table, TableOK
<1>3. TableOK' /\ RecordedOnes' = RecordedOnes
  BY <1>1, TableCarried
<1>4. JobOK'
  <2>1. PICK i : i = indexed'
    OBVIOUS
  <2> QED BY <1>1, <1>2, <1>3, <2>1, JobBecomes
<1>5. OutcomeTrue' /\ RequestsOK'
  BY <1>1, <1>2, OutcomesCarried, RequestsCarried
<1> QED BY <1>1, <1>3, <1>4, <1>5

\* A true outcome may be saved, and what was true of the others stays so.
LEMMA UpdateKeeps ==
  ASSUME ReceiptsInv, NEW s \in RecordedOnes, NEW new \in InFlight \cup Final,
         Update(s, new), OutcomeOf(s, new), NEW k, k = job', PassOK(k, indexed)
  PROVE  ReceiptsInv'
<1> USE DEF ReceiptsInv
<1>0. UNCHANGED <<bound, indexed, request, born, sent, chain>>
  BY DEF Update
<1>1. LedgerOK' /\ Onwards
  BY <1>0, LedgerRests
<1>2. indexed' = indexed /\ indexed \in Nat /\ indexed <= root /\ s \in Signatures
  BY <1>0 DEF TableOK, RecordedOnes
<1>3. /\ status' \in [Signatures -> {"none"} \cup InFlight \cup Final]
      /\ \A t \in Signatures : status'[t] = status[t] \/ (t = s /\ status'[t] = new)
  BY <1>2 DEF Update, TableOK
<1>4. RecordedOnes' = RecordedOnes
  BY <1>2, <1>3 DEF RecordedOnes, Recorded, InFlight, Final, Update, TableOK
<1>5. fresh' \in Seq(RecordedOnes) /\ rest' \in Seq(RecordedOnes)
  <2>1. Without(fresh, s) \in Seq(RecordedOnes) /\ Without(rest, s) \in Seq(RecordedOnes)
    BY WithoutSeq DEF TableOK
  <2> DEFINE others == Without(rest, s)
  <2>2. rest' = others \/ rest' = Append(others, s)
    BY DEF Update
  <2>3. Append(others, s) \in Seq(RecordedOnes)
    BY <2>1, AppendProperties
  <2> QED BY <2>1, <2>2, <2>3 DEF Update
<1>6. TableOK'
  <2>1. \A t \in RecordedOnes : Signed(t)' /\ bound'[t] >= Expiry(t)'
    BY <1>0 DEF TableOK, Signed, Expiry
  <2> QED BY <1>0, <1>1, <1>2, <1>3, <1>4, <1>5, <2>1 DEF TableOK, Onwards
<1>7. JobOK'
  <2>1. PICK i : i = indexed'
    OBVIOUS
  <2> QED BY <1>1, <1>2, <1>4, <2>1, JobBecomes
<1>8. OutcomeTrue'
  <2>1. ASSUME NEW t \in Signatures, NEW out, out = status'[t] PROVE OutcomeOf(t, out)'
    <3>1. OutcomeOf(t, out) /\ (out = "none" \/ Signed(t))
      <4>1. OutcomeOf(t, status[t]) /\ (status[t] = "none" \/ Signed(t))
        BY OutcomesApart DEF TableOK, RecordedOnes, Recorded
      <4>2. t = s => Signed(t)
        BY DEF TableOK
      <4> QED BY <1>3, <2>1, <4>1, <4>2
    <3> QED BY <1>1, <1>2, <3>1, OutcomeCarried
  <2> QED BY <2>1, Zenon DEF OutcomeTrue, OutcomeOf
<1>9. RequestsOK'
  BY <1>0, <1>1, RequestsCarried
<1> QED BY <1>1, <1>6, <1>7, <1>8, <1>9

LEMMA IdlePass == ASSUME LedgerOK PROVE PassOK(NoJob, indexed)
<1>1. <<>> \in Seq(RecordedOnes) /\ <<>> \in Seq(Answers) /\ <<>> \in Seq(Entries) /\ root \in Nat
  BY EmptySeq, RootBehind DEF LedgerOK
<1> QED BY <1>1 DEF PassOK, JobStates, NoJob

LEMMA PickKeeps == ASSUME ReceiptsInv, Pick PROVE ReceiptsInv'
<1> DEFINE n == IF Len(Queue) < Limit THEN Len(Queue) ELSE Limit
           todo == SubSeq(Queue, 1, n)
<1>1. Queue \in Seq(RecordedOnes) /\ Queue # <<>>
  BY ConcatProperties DEF Queue, Pick, ReceiptsInv, TableOK
<1>2. Len(Queue) \in Nat \ {0} /\ \A i \in 1..Len(Queue) : Queue[i] \in RecordedOnes
  BY <1>1, EmptySeq, ElementOfSeq
<1>3. todo \in Seq(RecordedOnes) /\ todo # <<>>
  <2>1. n \in 1..Len(Queue)
    BY <1>2, ReceiptsAssumption
  <2> HIDE DEF n
  <2>2. \A i \in 1..n : Queue[i] \in RecordedOnes
    BY <1>2, <2>1
  <2>3. todo \in Seq(RecordedOnes) /\ Len(todo) = n
    BY <1>2, <2>1, <2>2, SubSeqProperties
  <2> QED BY <2>1, <2>3, EmptySeq
<1>4. PICK k : k = job' /\ k = [NoJob EXCEPT !.step = "root", !.todo = todo]
  BY DEF Pick
<1> HIDE DEF todo, n
<1>5. PassOK(k, indexed)
  <2>1. PassOK(NoJob, indexed)
    BY IdlePass DEF ReceiptsInv
  <2> QED BY <1>3, <1>4, <2>1 DEF PassOK, JobStates, NoJob
<1> QED BY <1>4, <1>5, ReadingKeeps DEF Pick

LEMMA ReadRootKeeps == ASSUME ReceiptsInv, ReadRoot PROVE ReceiptsInv'
<1>1. PICK v \in Views(root) : job' = [job EXCEPT !.step = "history", !.root = v, !.minimum = v]
  BY DEF ReadRoot
<1>2. PICK k : k = job' /\ k = [job EXCEPT !.step = "history", !.root = v, !.minimum = v]
  BY <1>1
<1>3. v \in Nat /\ v <= root
  BY RootBehind DEF Views, ReceiptsInv, LedgerOK
<1>4. PassOK(k, indexed)
  BY <1>2, <1>3 DEF PassOK, JobStates, ReceiptsInv, JobOK, ReadRoot, Doing
<1> QED BY <1>2, <1>4, ReadingKeeps DEF ReadRoot

LEMMA ReadHistoryKeeps == ASSUME ReceiptsInv, ReadHistory PROVE ReceiptsInv'
<1>1. job \in JobStates /\ PassOK(job, indexed) /\ job.step = "history"
      /\ Len(job.todo) \in Nat /\ \A n \in 1..Len(job.todo) : job.todo[n] \in Signatures
  <2>1. job \in JobStates
    BY DEF ReceiptsInv, JobOK, PassOK
  <2> QED BY <2>1, LenProperties, ElementOfSeq
          DEF ReceiptsInv, JobOK, ReadHistory, Doing, JobStates, RecordedOnes
<1>2. PICK final \in Views(root), newest \in Views(tip), said \in [1..Len(job.todo) -> Answers] :
        /\ \A i \in DOMAIN said : said[i] \in Said(job.todo[i], final, newest)
        /\ job' = [job EXCEPT !.step = "judge", !.said = said]
  BY DEF ReadHistory, Answers
<1>3. PICK k : k = job' /\ k = [job EXCEPT !.step = "judge", !.said = said]
  BY <1>2
<1>4. said \in Seq(Answers) /\ Len(said) = Len(job.todo)
  BY <1>1, SeqDef
<1>5. ASSUME NEW n \in 1..Len(job.todo), said[n] = "finalized"
      PROVE  landed[job.todo[n]] # 0 /\ landed[job.todo[n]] <= root
  <2>1. Known(job.todo[n], final)
    BY <1>2, <1>5 DEF Said
  <2>2. final \in Nat /\ final <= root /\ root \in Nat
    BY RootBehind DEF Views, ReceiptsInv, LedgerOK
  <2> QED BY <1>1, <2>1, <2>2 DEF Known, ReceiptsInv, LedgerOK
<1>6. k.completed \in Seq(TrueAt(k.minimum))
  BY <1>1, <1>3, EmptySeq DEF PassOK, JobStates
<1>7. PassOK(k, indexed)
  BY <1>1, <1>3, <1>4, <1>5, <1>6 DEF PassOK, JobStates
<1> QED BY <1>3, <1>7, ReadingKeeps DEF ReadHistory

\* The rest of a pass is in order when what it was given is.
LEMMA OnwardOK ==
  ASSUME LedgerOK, NEW j \in JobStates,
         j.step = "judge", j.root <= root, j.minimum <= root, Len(j.said) = Len(j.todo),
         \A n \in 1..Len(j.todo) : j.said[n] = "finalized" =>
           landed[j.todo[n]] # 0 /\ landed[j.todo[n]] <= root,
         j.completed \in Seq(TrueAt(j.minimum)),
         NEW k, k = Onward(j)
  PROVE  PassOK(k, indexed)
<1>1. root \in Nat
  BY RootBehind DEF LedgerOK
<1>2. CASE j.todo # <<>>
  <2>1. k = j
    BY <1>2 DEF Onward
  <2> QED BY <1>2, <2>1 DEF PassOK
<1>3. CASE j.todo = <<>> /\ j.completed = <<>>
  <2>1. k = NoJob
    BY <1>3 DEF Onward
  <2> QED BY <2>1, IdlePass
<1>4. CASE j.todo = <<>> /\ j.completed # <<>>
  <2>1. k = [j EXCEPT !.step = "index", !.root = 0]
    BY <1>4 DEF Onward
  <2>2. k.step = "index" /\ k.root = 0 /\ k.minimum = j.minimum /\ k.completed = j.completed
        /\ k = [step |-> "index", todo |-> j.todo, root |-> 0, said |-> j.said,
                minimum |-> j.minimum, completed |-> j.completed]
    BY <2>1 DEF JobStates
  <2>3. k \in JobStates
    BY <2>2 DEF JobStates
  <2>4. k.minimum <= root /\ k.root <= root /\ k.completed # <<>>
    BY <1>1, <1>4, <2>2
  <2>5. k.completed \in Seq(TrueAt(k.minimum))
    BY <2>2
  <2> QED BY <2>2, <2>3, <2>4, <2>5 DEF PassOK
<1> QED BY <1>2, <1>3, <1>4

\* The pass without the receipt that was just judged.
LEMMA Next1OK ==
  ASSUME ReceiptsInv, Doing("judge"), NEW j, j = Next1
  PROVE  /\ j \in JobStates /\ j.step = "judge" /\ j.root = job.root /\ j.minimum = job.minimum
         /\ j.completed = job.completed /\ Len(j.said) = Len(j.todo)
         /\ \A n \in 1..Len(j.todo) : j.said[n] = "finalized" =>
              landed[j.todo[n]] # 0 /\ landed[j.todo[n]] <= root
         /\ job.todo # <<>> /\ Head(job.todo) \in RecordedOnes
         /\ Head(job.said) = "finalized" =>
              landed[Head(job.todo)] # 0 /\ landed[Head(job.todo)] <= root
<1>1. PassOK(job, indexed) /\ job \in JobStates /\ job.step = "judge"
  BY DEF ReceiptsInv, JobOK, PassOK, Doing
<1>2. job.todo \in Seq(RecordedOnes) /\ job.todo # <<>> /\ job.said \in Seq(Answers)
      /\ Len(job.said) = Len(job.todo)
  BY <1>1 DEF PassOK, JobStates
<1>3. job.said # <<>>
  BY <1>2, EmptySeq
<1>4. /\ Head(job.todo) \in RecordedOnes /\ Tail(job.todo) \in Seq(RecordedOnes)
      /\ Len(Tail(job.todo)) = Len(job.todo) - 1
      /\ \A n \in 1..Len(Tail(job.todo)) : Tail(job.todo)[n] = job.todo[n + 1]
  BY <1>2, HeadTailProperties
<1>5. /\ Tail(job.said) \in Seq(Answers) /\ Len(Tail(job.said)) = Len(job.said) - 1
      /\ \A n \in 1..Len(Tail(job.said)) : Tail(job.said)[n] = job.said[n + 1]
  BY <1>2, <1>3, HeadTailProperties
<1>6. /\ j \in JobStates /\ j.step = "judge" /\ j.root = job.root /\ j.minimum = job.minimum
      /\ j.completed = job.completed /\ j.todo = Tail(job.todo) /\ j.said = Tail(job.said)
  BY <1>1, <1>4, <1>5 DEF Next1, JobStates
<1>7. Len(job.todo) \in Nat \ {0}
  BY <1>2, EmptySeq, LenProperties
<1>8. ASSUME NEW n \in 1..Len(j.todo), j.said[n] = "finalized"
      PROVE  landed[j.todo[n]] # 0 /\ landed[j.todo[n]] <= root
  <2>1. n + 1 \in 1..Len(job.todo) /\ n \in 1..Len(Tail(job.said))
    BY <1>2, <1>4, <1>5, <1>6, <1>7, <1>8
  <2>2. j.said[n] = job.said[n + 1] /\ j.todo[n] = job.todo[n + 1]
    BY <1>4, <1>5, <1>6, <1>8, <2>1
  <2> QED BY <1>1, <1>8, <2>1, <2>2 DEF PassOK
<1>9. Head(job.said) = "finalized" =>
        landed[Head(job.todo)] # 0 /\ landed[Head(job.todo)] <= root
  <2>1. Head(job.said) = job.said[1] /\ Head(job.todo) = job.todo[1] /\ 1 \in 1..Len(job.todo)
    BY <1>7
  <2> QED BY <1>1, <2>1 DEF PassOK
<1> QED BY <1>2, <1>4, <1>5, <1>6, <1>8, <1>9

\* A receipt whose outcome is known, or that is still in flight, is saved at once.
LEMMA SavesKeeps ==
  ASSUME ReceiptsInv, Doing("judge"), NEW new \in InFlight \cup Final, Saves(new),
         OutcomeOf(Head(job.todo), new)
  PROVE  ReceiptsInv'
<1>1. PICK j : j = Next1
  OBVIOUS
<1>2. PICK k : k = job' /\ k = Onward(j)
  BY <1>1 DEF Saves
<1>3. LedgerOK /\ job.root <= root /\ job.minimum <= root /\ job.completed \in Seq(TrueAt(job.minimum))
  BY DEF ReceiptsInv, JobOK, PassOK, Doing
<1>4. j \in JobStates /\ j.completed \in Seq(TrueAt(j.minimum))
  BY <1>1, <1>3, Next1OK
<1>5. PassOK(k, indexed)
  BY <1>1, <1>2, <1>3, <1>4, Next1OK, OnwardOK
<1>6. Head(job.todo) \in RecordedOnes
  BY <1>1, Next1OK
<1> QED BY <1>2, <1>5, <1>6, UpdateKeeps DEF Saves

\* An outcome that needs the index waits for it, with the block from which it is true.
LEMMA CompletesKeeps ==
  ASSUME ReceiptsInv, Doing("judge"), NEW new \in {"finalized", "reconciled"},
         NEW v \in Nat, v <= root, Completes(new, v),
         NEW e, e = [of |-> Head(job.todo), status |-> new], e \in TrueAt(v)
  PROVE  ReceiptsInv'
<1>1. PICK j : j = Next1
  OBVIOUS
<1> DEFINE w == IF v > job.minimum THEN v ELSE job.minimum
<1>2. LedgerOK /\ job.root <= root /\ job.minimum <= root /\ job.completed \in Seq(TrueAt(job.minimum))
      /\ job.minimum \in Nat
  BY DEF ReceiptsInv, JobOK, PassOK, Doing, JobStates
<1>3. w \in Nat /\ v <= w /\ job.minimum <= w /\ w <= root
  BY <1>2
<1>4. PICK m : m = [j EXCEPT !.completed = Append(@, e), !.minimum = w]
  OBVIOUS
<1>5. PICK k : k = job' /\ k = Onward(m)
  <2>1. [Next1 EXCEPT !.completed = Append(@, [of |-> Head(job.todo), status |-> new]),
                      !.minimum = IF v > @ THEN v ELSE @] = m
    <3>1. j.minimum = job.minimum /\ j \in JobStates
      BY <1>1, Next1OK
    <3> QED BY <1>1, <1>4, <3>1 DEF JobStates
  <2> QED BY <2>1 DEF Completes
<1> HIDE DEF w
<1>6. /\ m.step = "judge" /\ m.root = job.root /\ m.minimum = w /\ m.said = j.said /\ m.todo = j.todo
      /\ m.completed = Append(job.completed, e)
      /\ m = [step |-> "judge", todo |-> j.todo, root |-> j.root, said |-> j.said, minimum |-> w,
               completed |-> Append(job.completed, e)]
  <2>1. j \in JobStates /\ j.step = "judge" /\ j.root = job.root /\ j.completed = job.completed
    BY <1>1, Next1OK
  <2> QED BY <1>4, <2>1 DEF JobStates
<1>7. Append(job.completed, e) \in Seq(TrueAt(w))
  <2>1. TrueAt(job.minimum) \subseteq TrueAt(w) /\ TrueAt(v) \subseteq TrueAt(w)
    BY <1>2, <1>3, TrueGrows
  <2>2. \A q \in Seq(TrueAt(job.minimum)) : q \in Seq(TrueAt(w))
    BY <2>1, SeqMonotonic
  <2> QED BY <1>2, <2>1, <2>2, AppendProperties
<1>8. Append(job.completed, e) \in Seq(Entries)
  <2>1. TrueAt(w) \subseteq Entries
    BY DEF TrueAt
  <2>2. \A q \in Seq(TrueAt(w)) : q \in Seq(Entries)
    BY <2>1, SeqMonotonic
  <2> QED BY <1>7, <2>2
<1>9. m \in JobStates
  <2>1. j \in JobStates
    BY <1>1, Next1OK
  <2> QED BY <1>3, <1>6, <1>8, <2>1 DEF JobStates
<1>10. \A n \in 1..Len(m.todo) : m.said[n] = "finalized" =>
         landed[m.todo[n]] # 0 /\ landed[m.todo[n]] <= root
  BY <1>1, <1>6, Next1OK
<1>11. Len(m.said) = Len(m.todo)
  BY <1>1, <1>6, Next1OK
<1>12. m.completed \in Seq(TrueAt(m.minimum))
  BY <1>6, <1>7
<1>13. PassOK(k, indexed)
  BY <1>2, <1>3, <1>5, <1>6, <1>9, <1>10, <1>11, <1>12, OnwardOK
<1> QED BY <1>5, <1>13, ReadingKeeps DEF Completes

LEMMA JudgeKeeps == ASSUME ReceiptsInv, Judge PROVE ReceiptsInv'
<1> DEFINE s == Head(job.todo)
           said == Head(job.said)
<1> USE DEF ReceiptsInv
<1>1. Doing("judge")
  BY DEF Judge
<1>2. s \in RecordedOnes /\ s \in Signatures
      /\ (said = "finalized" => landed[s] # 0 /\ landed[s] <= root)
  <2>1. PICK j : j = Next1
    OBVIOUS
  <2> QED BY <1>1, <2>1, Next1OK DEF RecordedOnes
<1>3. LedgerOK /\ root \in Nat /\ landed[s] \in Nat /\ Expiry(s) \in Nat
  BY <1>2, RootBehind, ReceiptsAssumption DEF LedgerOK, Expiry
<1>4. ASSUME said = "finalized", s \in worked, Completes("finalized", landed[s]) PROVE ReceiptsInv'
  <2>1. PICK e : e = [of |-> s, status |-> "finalized"]
    OBVIOUS
  <2>2. e \in TrueAt(landed[s])
    BY <1>2, <1>3, <1>4, <2>1 DEF TrueAt, Entries
  <2> QED BY <1>1, <1>2, <1>3, <1>4, <2>1, <2>2, CompletesKeeps
<1>5. ASSUME said = "finalized", s \notin worked, Saves("failed") PROVE ReceiptsInv'
  <2>1. OutcomeOf(s, "failed")
    BY <1>2, <1>5 DEF OutcomeOf
  <2> QED BY <1>1, <1>5, <2>1, SavesKeeps DEF Final
<1>6. ASSUME NEW new \in InFlight, Saves(new) PROVE ReceiptsInv'
  <2>1. OutcomeOf(s, new)
    BY <1>6 DEF OutcomeOf, InFlight
  <2> QED BY <1>1, <1>6, <2>1, SavesKeeps DEF InFlight
<1>7. ASSUME Dead(s), Effect(s) PROVE ReceiptsInv'
  <2>1. PICK v \in Views(root) :
          /\ v >= job.root
          /\ \/ s \in Unprovable /\ Saves("unresolved")
             \/ s \notin Unprovable /\ Taken(v) /\ Completes("reconciled", v)
             \/ s \notin Unprovable /\ ~Taken(v) /\ Saves("expired")
    BY <1>7 DEF Effect
  <2>2. v \in Nat /\ v <= root /\ job.root \in Nat /\ bound[s] \in Nat /\ bound[s] >= Expiry(s)
    BY <1>2, <1>3 DEF Views, JobOK, PassOK, JobStates, TableOK
  <2>3. v > Expiry(s) /\ root > Expiry(s)
    BY <1>3, <1>7, <2>1, <2>2 DEF Dead
  <2>4. CASE s \notin Unprovable /\ Taken(v)
    <3>1. PICK e : e = [of |-> s, status |-> "reconciled"]
      OBVIOUS
    <3>2. e \in TrueAt(v)
      BY <1>2, <2>3, <2>4, <3>1 DEF TrueAt, Entries
    <3> QED BY <1>1, <2>1, <2>2, <2>4, <3>1, <3>2, CompletesKeeps
  <2>5. CASE s \notin Unprovable /\ ~Taken(v)
    <3>1. s \notin worked
      BY <1>2, <1>3, <2>2, <2>3, <2>5 DEF Taken, LedgerOK
    <3>2. OutcomeOf(s, "expired")
      BY <2>3, <3>1 DEF OutcomeOf
    <3> QED BY <1>1, <2>1, <2>5, <3>2, SavesKeeps DEF Final
  <2>6. CASE s \in Unprovable
    BY <1>6, <2>1, <2>6 DEF InFlight
  <2> QED BY <2>4, <2>5, <2>6
<1> QED BY <1>4, <1>5, <1>6, <1>7 DEF Judge, InFlight

LEMMA EffectFailsKeeps == ASSUME ReceiptsInv, EffectFails PROVE ReceiptsInv'
<1>1. OutcomeOf(Head(job.todo), "unresolved")
  BY DEF OutcomeOf
<1> QED BY <1>1, SavesKeeps DEF EffectFails, InFlight

\* The index only moves on, to a block that every outcome of the pass is true at.
LEMMA IndexKeeps == ASSUME ReceiptsInv, Index PROVE ReceiptsInv'
<1> USE DEF ReceiptsInv
<1>1. PICK v \in Views(root) : v >= job.minimum /\ indexed' = IF v > indexed THEN v ELSE indexed
  BY DEF Index
<1>2. LedgerOK' /\ Onwards
  BY LedgerRests DEF Index
<1>3. v \in Nat /\ v <= root /\ indexed \in Nat /\ indexed <= root /\ root \in Nat /\ root' = root
  BY RootBehind DEF Views, LedgerOK, TableOK, Index, chain, root
<1>4. PICK i : i = indexed' /\ i \in Nat /\ v <= i /\ indexed <= i /\ i <= root
  BY <1>1, <1>3
<1>5. PICK k : k = job' /\ k = [job EXCEPT !.step = "complete", !.minimum = 0]
  BY DEF Index
<1>6. job \in JobStates /\ PassOK(job, indexed) /\ job.step = "index"
      /\ job.completed \in Seq(TrueAt(job.minimum)) /\ job.minimum \in Nat
  BY DEF JobOK, PassOK, Index, Doing, JobStates
<1>7. job.completed \in Seq(TrueAt(i))
  <2>1. TrueAt(job.minimum) \subseteq TrueAt(i)
    BY <1>1, <1>3, <1>4, <1>6, TrueGrows
  <2> QED BY <1>6, <2>1, SeqMonotonic
<1>8. PassOK(k, i)
  <2>1. k.step = "complete" /\ k.minimum = 0 /\ k.root = job.root /\ k.completed = job.completed
        /\ k = [step |-> "complete", todo |-> job.todo, root |-> job.root, said |-> job.said,
                minimum |-> 0, completed |-> job.completed]
    BY <1>5, <1>6 DEF JobStates
  <2>2. k \in JobStates
    BY <1>6, <2>1 DEF JobStates
  <2>3. job.root <= root /\ job.completed # <<>>
    BY <1>6 DEF PassOK
  <2>4. k.root <= root /\ k.minimum <= root /\ k.completed # <<>> /\ k.completed \in Seq(TrueAt(i))
    BY <1>3, <1>7, <2>1, <2>3
  <2> QED BY <2>1, <2>2, <2>4 DEF PassOK
<1>9. UNCHANGED <<status, bound, fresh, rest, request, born>>
  BY DEF Index, table
<1>10. RecordedOnes' = RecordedOnes
  BY <1>9 DEF RecordedOnes, Recorded
<1>11. TableOK'
  BY <1>3, <1>4, <1>9, <1>10 DEF TableOK, Signed, Expiry
<1>12. JobOK'
  BY <1>2, <1>4, <1>5, <1>8, <1>10, JobBecomes
<1>13. OutcomeTrue' /\ RequestsOK'
  BY <1>2, <1>4, <1>9, OutcomesCarried, RequestsCarried
<1> QED BY <1>2, <1>11, <1>12, <1>13

LEMMA IndexFailsKeeps == ASSUME ReceiptsInv, IndexFails PROVE ReceiptsInv'
<1>1. PICK k : k = job' /\ k = [job EXCEPT !.step = "rotate", !.minimum = 0]
  BY DEF IndexFails
<1>2. job \in JobStates /\ PassOK(job, indexed) /\ job.step = "index" /\ root \in Nat
  BY RootBehind DEF ReceiptsInv, LedgerOK, JobOK, PassOK, IndexFails, Doing
<1>3. k.step = "rotate" /\ k.minimum = 0 /\ k.root = job.root /\ k.completed = job.completed
      /\ k = [step |-> "rotate", todo |-> job.todo, root |-> job.root, said |-> job.said,
              minimum |-> 0, completed |-> job.completed]
  BY <1>1, <1>2 DEF JobStates
<1>4. k \in JobStates
  BY <1>2, <1>3 DEF JobStates
<1>5. job.root <= root /\ job.completed # <<>>
  BY <1>2 DEF PassOK
<1>6. k.root <= root /\ k.minimum <= root /\ k.completed # <<>>
  BY <1>2, <1>3, <1>5
<1>7. PassOK(k, indexed)
  BY <1>3, <1>4, <1>6 DEF PassOK
<1> QED BY <1>1, <1>7, ReadingKeeps DEF IndexFails

\* What is left of a pass that saves its outcomes, or gives them up.
LEMMA DoneOK ==
  ASSUME ReceiptsInv, job.step \in {"complete", "rotate"}, NEW k, k = Done
  PROVE  PassOK(k, indexed) /\ Head1 \in Entries /\ (job.step = "complete" => Head1 \in TrueAt(indexed))
<1>1. job \in JobStates /\ PassOK(job, indexed) /\ job.completed \in Seq(Entries) /\ job.completed # <<>>
      /\ (job.step = "complete" => job.completed \in Seq(TrueAt(indexed)))
  BY DEF ReceiptsInv, JobOK, PassOK, JobStates
<1>2. Len(job.completed) \in Nat \ {0} /\ Head1 \in Entries
      /\ Tail(job.completed) \in Seq(Entries) /\ Len(Tail(job.completed)) = Len(job.completed) - 1
  BY <1>1, EmptySeq, LenProperties, HeadTailProperties DEF Head1
<1>3. job.step = "complete" => Head1 \in TrueAt(indexed) /\ Tail(job.completed) \in Seq(TrueAt(indexed))
  BY <1>1, HeadTailProperties DEF Head1
<1>4. PassOK(k, indexed)
  <2>1. CASE Len(job.completed) = 1
    <3>1. k = NoJob
      BY <2>1 DEF Done
    <3> QED BY <3>1, IdlePass DEF ReceiptsInv
  <2>2. CASE Len(job.completed) # 1
    <3>1. k = [job EXCEPT !.completed = Tail(@)]
      BY <2>2 DEF Done
    <3>2. k.step = job.step /\ k.minimum = job.minimum /\ k.root = job.root
          /\ k.completed = Tail(job.completed)
          /\ k = [step |-> job.step, todo |-> job.todo, root |-> job.root, said |-> job.said,
                  minimum |-> job.minimum, completed |-> Tail(job.completed)]
      BY <1>1, <3>1 DEF JobStates
    <3>3. k \in JobStates
      BY <1>1, <1>2, <3>2 DEF JobStates
    <3>4. Tail(job.completed) # <<>>
      <4>1. Len(Tail(job.completed)) # 0
        BY <1>2, <2>2
      <4> QED BY <4>1, EmptySeq
    <3>5. job.root <= root /\ job.minimum <= root
      BY <1>1 DEF PassOK
    <3> QED BY <1>3, <3>2, <3>3, <3>4, <3>5 DEF PassOK
  <2> QED BY <2>1, <2>2
<1> QED BY <1>2, <1>3, <1>4

LEMMA CompleteKeeps == ASSUME ReceiptsInv, Complete PROVE ReceiptsInv'
<1>1. PICK k : k = job' /\ k = Done
  BY DEF Complete
<1>2. PassOK(k, indexed) /\ Head1 \in TrueAt(indexed) /\ Head1 \in Entries
  BY <1>1, DoneOK DEF Complete, Doing
<1>3. Head1.of \in RecordedOnes /\ Head1.status \in {"finalized", "reconciled"}
  BY <1>2 DEF Entries
<1>4. indexed \in Nat /\ indexed <= root /\ root \in Nat /\ landed[Head1.of] \in Nat
  BY <1>3, RootBehind DEF ReceiptsInv, LedgerOK, TableOK, RecordedOnes
<1>5. PICK new : new = Head1.status
  OBVIOUS
<1>6. OutcomeOf(Head1.of, new)
  <2>1. CASE new = "finalized"
    <3>1. Head1.of \in worked /\ landed[Head1.of] <= indexed
      BY <1>2, <1>5, <2>1 DEF TrueAt
    <3> QED BY <1>4, <2>1, <3>1 DEF OutcomeOf
  <2>2. CASE new = "reconciled"
    <3>1. root > Expiry(Head1.of) /\ Taken(indexed)
      BY <1>2, <1>5, <2>2 DEF TrueAt
    <3> QED BY <2>2, <3>1 DEF OutcomeOf
  <2> QED BY <1>3, <1>5, <2>1, <2>2
<1> QED BY <1>1, <1>2, <1>3, <1>5, <1>6, UpdateKeeps DEF Complete, Final

LEMMA RotateKeeps == ASSUME ReceiptsInv, Rotate PROVE ReceiptsInv'
<1>1. PICK k : k = job' /\ k = Done
  BY DEF Rotate
<1>2. PassOK(k, indexed) /\ Head1.of \in RecordedOnes
  BY <1>1, DoneOK DEF Rotate, Doing, Entries
<1>3. PICK new : new = status[Head1.of]
  OBVIOUS
<1>4. new \in InFlight \cup Final /\ OutcomeOf(Head1.of, new)
  BY <1>2, <1>3, OutcomesApart DEF ReceiptsInv, TableOK, RecordedOnes, Recorded
<1> QED BY <1>1, <1>2, <1>3, <1>4, UpdateKeeps DEF Rotate

LEMMA StopKeeps == ASSUME ReceiptsInv, Stop PROVE ReceiptsInv'
<1>1. PICK k : k = job' /\ k = NoJob
  BY DEF Stop
<1>2. PassOK(k, indexed)
  BY <1>1, IdlePass DEF ReceiptsInv
<1> QED BY <1>1, <1>2, ReadingKeeps DEF Stop

-----------------------------------------------------------------------------
(* The theorems *)

LEMMA ReceiptsKeeps == ASSUME ReceiptsInv, [ReceiptsNext]_receiptsVars PROVE ReceiptsInv'
<1>1. ASSUME NEW r \in Requests,
             (\E s \in Signatures : Arrive(r, s)) \/ Refuse(r) \/ Steps(r) \/ Drop(r)
      PROVE  ReceiptsInv'
  <2>1. CASE Insert(r) \/ Relay(r)
    BY <2>1, InsertKeeps, RelayKeeps
  <2>2. CASE \/ \E s \in Signatures : Arrive(r, s)
             \/ Refuse(r) \/ CheckBlockhash(r) \/ Lifetime(r) \/ Simulate(r) \/ LookAgain(r) \/ Drop(r)
    <3>1. RequestsOK'
      BY <2>2, RequestStepOK DEF ReceiptsInv
    <3>2. ASSUME NEW s \in Signatures, Arrive(r, s) PROVE Asking
      BY <3>2 DEF Arrive
    <3>3. ASSUME Refuse(r) PROVE Asking
      BY <3>3 DEF Refuse
    <3>4. ASSUME CheckBlockhash(r) PROVE Asking
      BY <3>4 DEF CheckBlockhash
    <3>5. ASSUME Lifetime(r) PROVE Asking
      BY <3>5 DEF Lifetime
    <3>6. ASSUME Simulate(r) PROVE Asking
      BY <3>6 DEF Simulate
    <3>7. ASSUME LookAgain(r) PROVE Asking
      BY <3>7 DEF LookAgain
    <3>8. ASSUME Drop(r) PROVE Asking
      BY <3>8 DEF Drop
    <3>9. Asking
      BY <2>2, <3>2, <3>3, <3>4, <3>5, <3>6, <3>7, <3>8
    <3> QED BY <3>1, <3>9, AskingKeeps
  <2> QED BY <1>1, <2>1, <2>2 DEF Steps
<1>2. CASE Work
  BY <1>2, PickKeeps, ReadRootKeeps, ReadHistoryKeeps, JudgeKeeps, IndexKeeps, CompleteKeeps, RotateKeeps
     DEF Work
<1>3. CASE UNCHANGED receiptsVars
  <2>1. Reading /\ job' = job
    BY <1>3 DEF receiptsVars, Reading
  <2>2. PICK k : k = job' /\ PassOK(k, indexed)
    BY <2>1 DEF ReceiptsInv, JobOK
  <2> QED BY <2>1, <2>2, ReadingKeeps
<1>4. CASE EffectFails \/ IndexFails \/ Stop
  BY <1>4, EffectFailsKeeps, IndexFailsKeeps, StopKeeps
<1>5. CASE LedgerStep
  BY <1>5, LedgerKeeps
<1> QED BY <1>1, <1>2, <1>3, <1>4, <1>5 DEF ReceiptsNext, LedgerStep

THEOREM ReceiptsAlways == ReceiptsSpec => []ReceiptsInv
BY InitReceipts, ReceiptsKeeps, PTL DEF ReceiptsSpec

\* A receipt's bound is never before the last block in which its transaction may land,
\* whichever nodes answered the server's reads.
THEOREM BoundsCover == ReceiptsSpec => []BoundCovers
<1>1. ReceiptsInv => BoundCovers
  BY DEF ReceiptsInv, TableOK, BoundCovers, RecordedOnes
<1> QED BY <1>1, ReceiptsAlways, PTL

\* A saved outcome is true, and stays true, of the finalized ledger; a success that is read
\* is one the index already shows.
THEOREM OutcomesAreTrue == ReceiptsSpec => []OutcomeTrue
<1>1. ReceiptsInv => OutcomeTrue
  BY DEF ReceiptsInv
<1> QED BY <1>1, ReceiptsAlways, PTL
=============================================================================
