---------------------------- MODULE JournalProofs ----------------------------
(***************************************************************************)
(* What holds of one wallet's signatures in one browser for any tabs,      *)
(* attempts, life of a blockhash and bounds.                               *)
(***************************************************************************)
EXTENDS Journal, TLAPS

\* The ledger: only what was relayed lands, in time, and nothing is sent without a lifetime.
LedgerOK ==
  /\ tip \in Nat \ {0} /\ root < tip
  /\ \A n \in Attempts :
       /\ landed[n] # 0 => wire[n] = "relayed" /\ landed[n] <= expiry[n]
       /\ wire[n] # "none" => expiry[n] # 0
       /\ receipts[n] # "none" => wire[n] # "none"
       /\ n \in Foreign /\ wire[n] = "none" => expiry[n] = 0
  /\ \A n \in worked : landed[n] # 0

\* Somebody beyond its own execute knows of the attempt.
Marked(n) ==
  \/ wire[n] # "none" \/ journal = n \/ Signed(history[n])
  \/ \E t \in Tabs : tracked[t] = n \/ poll[t].of = n \/ (seen[t] # Unknown /\ n \in seen[t])

MarksOK == \A n \in Attempts : Marked(n) => expiry[n] # 0

Early == {"preparing", "awaiting", "failing"}
Late  == {"journaled", "posted"}

\* The progress of a tab's execute: x is exec[t].
ExecOK(x) ==
  /\ x.step = "idle" <=> x.attempt = None
  /\ x.step \in Early => ~Marked(x.attempt)
  /\ x.step = "preparing" => expiry[x.attempt] = 0
  /\ x.step \in {"awaiting"} \cup Late => expiry[x.attempt] # 0
  /\ x.step \in {"preparing", "awaiting"} => journal = None
  /\ x.step \in Late => history[x.attempt] \notin {"draft", "unsent"}
  /\ x.step = "journaled" => wire[x.attempt] = "none"
ExecsOK ==
  /\ \A t \in Tabs : ExecOK(exec[t])
  /\ \A t, u \in Tabs : exec[t].attempt = exec[u].attempt /\ exec[t].attempt # None => t = u

\* A draft, or what became of one that failed, is nowhere else.
DraftsOK == \A n \in Attempts : history[n] \in {"draft", "unsent"} => n \in Own /\ ~Marked(n)

\* What a final status says.
TrueOf(n, status) ==
  CASE status = "finalized"  -> n \in worked /\ Rooted(n)
    [] status = "failed"     -> n \notin worked /\ Rooted(n)
    [] status = "expired"    -> n \notin worked /\ root > expiry[n]
    [] status = "reconciled" -> Taken /\ root > expiry[n]
    [] OTHER -> TRUE

\* p is poll[t], record is tracked[t].
PollOK(p, record) ==
  /\ p.step \in {"history", "account"} => p.of = record /\ p.of \in Attempts /\ root > expiry[p.of]
  /\ p.step = "apply" => p.of \in Attempts /\ TrueOf(p.of, p.verdict)
PollsOK == \A t \in Tabs : PollOK(poll[t], tracked[t])

JournalInv ==
  /\ JournalTypeOK /\ LedgerOK /\ MarksOK /\ ExecsOK /\ DraftsOK /\ PollsOK
  /\ StatusTrue /\ Remembered

LEMMA StatusApart == StatusTrue <=> \A n \in Attempts : TrueOf(n, history[n])
BY Zenon DEF StatusTrue, TrueOf

LEMMA InitJournal == JournalInit => JournalInv
<1> SUFFICES ASSUME JournalInit PROVE JournalInv
  OBVIOUS
<1> USE DEF JournalInit
<1>1. JournalTypeOK
  <2>1. LockHeld
    BY JournalAssumption DEF LockHeld, NoExec
  <2>2. /\ tracked \in [Tabs -> Attempts \cup {None, Unknown}] /\ news \in [Tabs -> BOOLEAN]
        /\ seen \in [Tabs -> (SUBSET Attempts) \cup {Unknown}]
    OBVIOUS
  <2> QED BY <2>1, <2>2 DEF JournalTypeOK, Statuses, NoExec, NoPoll
<1>2. LedgerOK
  BY DEF LedgerOK
<1>3. \A n \in Attempts : ~Marked(n)
  BY JournalAssumption DEF Marked, Signed, Final, NoPoll
<1>4. MarksOK /\ DraftsOK
  BY <1>3 DEF MarksOK, DraftsOK
<1>5. ExecsOK
  BY DEF ExecsOK, ExecOK, NoExec, Early, Late
<1>6. PollsOK
  BY DEF PollsOK, PollOK, NoPoll
<1>7. StatusTrue
  BY StatusApart DEF TrueOf
<1>8. Remembered
  <2>1. ASSUME NEW n \in Own PROVE ~Open(n)
    <3>1. \A t \in Tabs : exec[t].step = "idle"
      BY DEF NoExec
    <3>2. wire[n] = "none"
      BY DEF Attempts
    <3> QED BY <3>1, <3>2 DEF Open
  <2> QED BY <2>1 DEF Remembered
<1> QED BY <1>1, <1>2, <1>4, <1>5, <1>6, <1>7, <1>8 DEF JournalInv

-----------------------------------------------------------------------------
(* What a step of the browser leaves true *)

Quiet == UNCHANGED <<receipts, wire, chain, expiry>>
NoNewMark == \A n \in Attempts : Marked(n)' => Marked(n)
NoNewOpen == \A n \in Own : Open(n)' => Open(n)

\* While a tab holds the lock, no other one is before its signature.
LEMMA OthersWait ==
  ASSUME JournalTypeOK, NEW t \in Tabs, exec[t].step \in {"preparing", "awaiting"} \cup Late
  PROVE  holder = t /\ \A u \in Tabs : u # t => exec[u].step \notin {"preparing", "awaiting"} \cup Late
BY DEF JournalTypeOK, LockHeld, Late

LEMMA QuietLedger == ASSUME LedgerOK, Quiet PROVE LedgerOK'
BY DEF LedgerOK, Quiet, chain

LEMMA QuietTruth ==
  ASSUME Quiet, NEW n, NEW status PROVE TrueOf(n, status)' <=> TrueOf(n, status)
<1>1. Taken' <=> Taken
  BY DEF Taken, Quiet, chain
<1>2. Rooted(n)' <=> Rooted(n)
  BY DEF Rooted, Quiet, chain
<1>3. root' = root /\ worked' = worked /\ expiry' = expiry
  BY DEF Quiet, chain
<1> QED BY <1>1, <1>2, <1>3, Zenon DEF TrueOf

LEMMA StatusCarried ==
  ASSUME StatusTrue, Quiet,
         \A n \in Attempts : history'[n] = history[n] \/ history'[n] \notin Final \/ TrueOf(n, history'[n])
  PROVE  StatusTrue'
<1>1. ASSUME NEW n \in Attempts, NEW status, status = history'[n] PROVE TrueOf(n, status)'
  <2>1. TrueOf(n, history[n])
    BY StatusApart
  <2>2. status \notin Final => TrueOf(n, status)
    BY DEF TrueOf, Final
  <2>3. TrueOf(n, status)
    BY <1>1, <2>1, <2>2
  <2> QED BY <2>3, QuietTruth
<1> QED BY <1>1, Zenon DEF StatusTrue, TrueOf

LEMMA PollsCarried ==
  ASSUME PollsOK, Quiet,
         \A u \in Tabs : \/ poll'[u] = NoPoll
                         \/ /\ poll'[u] = poll[u]
                            /\ tracked'[u] = tracked[u] \/ poll[u].step \in {"start", "apply"}
  PROVE  PollsOK'
<1>1. ASSUME NEW u \in Tabs PROVE PollOK(poll[u], tracked[u])'
  <2>1. PollOK(poll[u], tracked[u])
    BY DEF PollsOK
  <2>2. root' = root /\ expiry' = expiry
    BY DEF Quiet, chain
  <2>3. CASE poll'[u] = NoPoll
    BY <2>3 DEF PollOK, NoPoll
  <2>4. CASE /\ poll'[u] = poll[u]
             /\ tracked'[u] = tracked[u] \/ poll[u].step \in {"start", "apply"}
    <3> DEFINE p == poll[u]
    <3>1. p.step = "apply" => TrueOf(p.of, p.verdict)'
      <4>1. \A n, status : TrueOf(n, status)' <=> TrueOf(n, status)
        BY QuietTruth
      <4>2. PICK n, status : n = p.of /\ status = p.verdict
        OBVIOUS
      <4>3. p.step = "apply" => TrueOf(n, status)
        BY <2>1, <4>2 DEF PollOK
      <4>4. n = poll'[u].of /\ status = poll'[u].verdict
        BY <2>4, <4>2
      <4>5. p.step = "apply" => TrueOf(n, status)'
        BY <4>1, <4>3
      <4> QED BY <4>4, <4>5, Zenon DEF TrueOf
    <3> QED BY <2>1, <2>2, <2>4, <3>1 DEF PollOK
  <2> QED BY <2>3, <2>4
<1> QED BY <1>1 DEF PollsOK

\* A tab's execute that does not move.
LEMMA ExecsCarried ==
  ASSUME ExecsOK, JournalTypeOK, UNCHANGED <<exec, expiry, wire>>, NoNewMark,
         journal' \in {journal, None} \/ holder = None,
         \A n \in Attempts : history'[n] \in {"draft", "unsent"} =>
           history[n] \in {"draft", "unsent"} \/ expiry[n] = 0
  PROVE  ExecsOK'
<1>1. ASSUME NEW u \in Tabs PROVE ExecOK(exec[u])'
  <2> DEFINE x == exec[u]
  <2>1. ExecOK(x)
    BY DEF ExecsOK
  <2>2. x.attempt \in Own \cup {None} /\ (x.step # "idle" => x.attempt \in Attempts)
    BY <2>1 DEF ExecOK, JournalTypeOK, Attempts
  <2>3. x.step \in Early => ~Marked(x.attempt)'
    <3>1. \A n \in Attempts : n = x.attempt /\ ~Marked(n) => ~Marked(n)'
      BY DEF NoNewMark
    <3>2. PICK n : n = x.attempt
      OBVIOUS
    <3>3. x.step \in Early => n \in Attempts /\ ~Marked(n)
      BY <2>1, <2>2, <3>2 DEF ExecOK, Early
    <3>4. x.step \in Early => ~Marked(n)'
      BY <3>1, <3>2, <3>3
    <3> QED BY <3>2, <3>4, Zenon DEF Marked
  <2>4. x.step \in {"preparing", "awaiting"} => journal' = None
    BY <2>1, JournalAssumption DEF ExecOK, JournalTypeOK, LockHeld
  <2>5. x.step \in Late => history'[x.attempt] \notin {"draft", "unsent"}
    BY <2>1, <2>2 DEF ExecOK, Late
  <2> QED BY <2>1, <2>3, <2>4, <2>5 DEF ExecOK
<1> QED BY <1>1 DEF ExecsOK

LEMMA DraftsCarried ==
  ASSUME DraftsOK, NoNewMark,
         \A n \in Attempts : history'[n] \in {"draft", "unsent"} =>
           history[n] \in {"draft", "unsent"} \/ (n \in Own /\ ~Marked(n))
  PROVE  DraftsOK'
BY DEF DraftsOK, NoNewMark

LEMMA MarksCarried == ASSUME MarksOK, NoNewMark, expiry' = expiry PROVE MarksOK'
BY DEF MarksOK, NoNewMark

LEMMA RememberedCarried ==
  ASSUME Remembered, NoNewOpen, clears' = clears,
         journal' = journal \/ \A n \in Own : clears = 0 /\ journal = n => ~Open(n)
  PROVE  Remembered'
BY DEF Remembered, NoNewOpen

\* How a history, the polls and the journal may move.
HistoryMoves ==
  \A n \in Attempts :
    \/ history'[n] = history[n] \/ (history'[n] \in Final /\ TrueOf(n, history'[n]))
    \/ history'[n] \in {"absent", "flying"}
    \/ history'[n] \in {"draft", "unsent"} /\ n \in Own /\ ~Marked(n)
PollsMove ==
  \A u \in Tabs : \/ poll'[u] = NoPoll
                  \/ /\ poll'[u] = poll[u]
                     /\ tracked'[u] = tracked[u] \/ poll[u].step \in {"start", "apply"}
JournalMoves == journal' = journal \/ \A n \in Own : clears = 0 /\ journal = n => ~Open(n)

\* Any step of the browser that marks no attempt and opens none.
LEMMA QuietKeeps ==
  ASSUME JournalInv, JournalTypeOK', Quiet, NoNewMark, NoNewOpen, ExecsOK', clears' = clears,
         HistoryMoves, PollsMove, JournalMoves
  PROVE  JournalInv'
<1> USE DEF JournalInv
<1>1. LedgerOK' /\ PollsOK' /\ Remembered'
  BY QuietLedger, PollsCarried, RememberedCarried DEF PollsMove, JournalMoves
<1>2. MarksOK'
  BY MarksCarried DEF Quiet
<1>3. DraftsOK'
  <2>1. \A n \in Attempts : history'[n] \in {"draft", "unsent"} =>
          history[n] \in {"draft", "unsent"} \/ (n \in Own /\ ~Marked(n))
    BY DEF Final, HistoryMoves
  <2> QED BY <2>1, DraftsCarried
<1>4. StatusTrue'
  <2>1. \A n \in Attempts : history'[n] = history[n] \/ history'[n] \notin Final \/ TrueOf(n, history'[n])
    BY DEF Final, HistoryMoves
  <2> QED BY <2>1, StatusCarried
<1> QED BY <1>1, <1>2, <1>3, <1>4

\* Without a change of what is sent or of the executes, nothing opens.
LEMMA NothingOpens ==
  ASSUME Quiet, exec' = exec PROVE NoNewOpen
BY DEF Quiet, chain, NoNewOpen, Open, Settled, Rooted, Gone

\* Tracking another record.
LEMMA TrackPolls ==
  ASSUME JournalTypeOK, NEW t \in Tabs, NEW record \in Attempts \cup {None}, Track(t, record)
  PROVE  /\ tracked' \in [Tabs -> Attempts \cup {None, Unknown}]
         /\ poll' \in [Tabs -> [step : {"start", "height", "history", "account", "apply"},
                                of : Attempts \cup {None}, verdict : Final \cup {"flying"}]]
         /\ \A u \in Tabs : tracked'[u] = tracked[u] \/ tracked'[u] = record
         /\ PollsMove
<1>1. PICK kept \in {NoPoll} \cup {p \in {poll[t]} : p.step = "apply"} : poll' = [poll EXCEPT ![t] = kept]
  BY DEF Track
<1>2. kept = NoPoll \/ (kept = poll[t] /\ poll[t].step = "apply")
  OBVIOUS
<1>3. kept \in [step : {"start", "height", "history", "account", "apply"},
                of : Attempts \cup {None}, verdict : Final \cup {"flying"}]
  BY <1>2 DEF JournalTypeOK, NoPoll
<1>4. tracked' = [tracked EXCEPT ![t] = record]
  BY DEF Track
<1> QED BY <1>1, <1>2, <1>3, <1>4 DEF JournalTypeOK, PollsMove

LEMMA TrackMarks ==
  ASSUME JournalTypeOK, NEW t \in Tabs, NEW record \in Attempts \cup {None}, Track(t, record),
         record \in Attempts => Marked(record), UNCHANGED <<wire, seen>>,
         journal' \in {journal, None} \/ (journal' = record),
         \A n \in Attempts : Signed(history'[n]) => Marked(n)
  PROVE  NoNewMark
<1> SUFFICES ASSUME NEW n \in Attempts, Marked(n)' PROVE Marked(n)
  BY DEF NoNewMark
<1>1. n # None
  BY JournalAssumption
<1>2. \A u \in Tabs : (tracked'[u] = tracked[u] \/ tracked'[u] = record)
                      /\ (poll'[u] = NoPoll \/ poll'[u] = poll[u])
  BY TrackPolls DEF PollsMove
<1>3. CASE wire'[n] # "none" \/ journal' = n \/ Signed(history'[n])
  BY <1>1, <1>3 DEF Marked
<1>4. CASE \E u \in Tabs : tracked'[u] = n \/ poll'[u].of = n \/ (seen'[u] # Unknown /\ n \in seen'[u])
  BY <1>1, <1>2, <1>4 DEF Marked, NoPoll
<1>5. wire'[n] # "none" \/ journal' = n \/ Signed(history'[n])
      \/ \E u \in Tabs : tracked'[u] = n \/ poll'[u].of = n \/ (seen'[u] # Unknown /\ n \in seen'[u])
  BY Zenon DEF Marked, Signed
<1> QED BY <1>3, <1>4, <1>5

-----------------------------------------------------------------------------
(* Mounting and recovering *)

LEMMA RestoreKeeps == ASSUME JournalInv, NEW t \in Tabs, Restore(t) PROVE JournalInv'
<1> USE DEF JournalInv
<1>1. /\ journal \in Attempts \cup {None} /\ Track(t, journal) /\ Quiet
      /\ UNCHANGED <<journal, holder, exec, seen, crashes, clears>> /\ wire' = wire /\ expiry' = expiry
      /\ news' = [news EXCEPT ![t] = FALSE]
  BY DEF Restore, Quiet, JournalTypeOK
<1>2. PICK h : h = (IF journal = None THEN history ELSE Recorded(history, journal)) /\ history' = Interrupts(h)
  BY DEF Restore
<1>3. /\ h \in [Attempts -> Statuses]
      /\ \A n \in Attempts : h[n] = history[n] \/ (n = journal /\ h[n] = "flying")
  BY <1>1, <1>2 DEF Recorded, JournalTypeOK, Statuses
<1>4. /\ history' \in [Attempts -> Statuses]
      /\ \A n \in Attempts : history'[n] = h[n] \/ (h[n] = "draft" /\ history'[n] = "unsent")
  BY <1>2, <1>3 DEF Interrupts, Statuses
<1>5. \A n \in Attempts : \/ history'[n] = history[n]
                          \/ n = journal /\ history'[n] = "flying"
                          \/ history[n] = "draft" /\ history'[n] = "unsent"
  BY <1>3, <1>4
<1>6. JournalTypeOK'
  <2>1. tracked' \in [Tabs -> Attempts \cup {None, Unknown}]
        /\ poll' \in [Tabs -> [step : {"start", "height", "history", "account", "apply"},
                               of : Attempts \cup {None}, verdict : Final \cup {"flying"}]]
    BY <1>1, TrackPolls
  <2>2. LockHeld'
    BY <1>1 DEF JournalTypeOK, LockHeld
  <2> QED BY <1>1, <1>4, <2>1, <2>2 DEF JournalTypeOK, Quiet, chain
<1>7. NoNewMark
  <2>1. \A n \in Attempts : Signed(history'[n]) => Marked(n)
    BY <1>5 DEF Marked, Signed, Final
  <2>2. journal \in Attempts => Marked(journal)
    BY DEF Marked
  <2> QED BY <1>1, <2>1, <2>2, TrackMarks
<1>8. NoNewOpen
  BY <1>1, NothingOpens
<1>9. ExecsOK'
  <2>1. \A n \in Attempts : history'[n] \in {"draft", "unsent"} => history[n] \in {"draft", "unsent"}
    BY <1>5
  <2> QED BY <1>1, <1>7, <2>1, ExecsCarried
<1>10. HistoryMoves /\ JournalMoves
  BY <1>1, <1>5 DEF DraftsOK, HistoryMoves, JournalMoves
<1>11. PollsMove
  BY <1>1, TrackPolls
<1> HIDE DEF JournalInv
<1> QED BY <1>1, <1>6, <1>7, <1>8, <1>9, <1>10, <1>11, QuietKeeps

LEMMA FetchKeeps == ASSUME JournalInv, NEW t \in Tabs, Fetch(t) PROVE JournalInv'
<1> USE DEF JournalInv
<1>1. /\ UNCHANGED <<journal, history, holder, tracked, news, exec, poll, crashes, clears>> /\ Quiet
      /\ wire' = wire /\ expiry' = expiry /\ receipts' = receipts
      /\ seen' = [seen EXCEPT ![t] = {n \in Attempts : receipts[n] = "pending"}]
  BY DEF Fetch, browser, Quiet
<1>2. JournalTypeOK'
  <2>1. LockHeld'
    BY <1>1 DEF JournalTypeOK, LockHeld
  <2> QED BY <1>1, <2>1 DEF JournalTypeOK, Quiet, chain
<1>3. NoNewMark
  <2> SUFFICES ASSUME NEW n \in Attempts, Marked(n)', ~Marked(n) PROVE FALSE
    BY DEF NoNewMark
  <2>1. PICK u \in Tabs : seen'[u] # Unknown /\ n \in seen'[u] /\ seen'[u] # seen[u]
    BY <1>1 DEF Marked
  <2>2. receipts[n] = "pending"
    BY <1>1, <2>1 DEF JournalTypeOK
  <2> QED BY <2>2 DEF LedgerOK, Marked
<1>4. NoNewOpen
  BY <1>1, NothingOpens
<1>5. ExecsOK'
  BY <1>1, <1>3, ExecsCarried
<1>6. HistoryMoves /\ PollsMove /\ JournalMoves
  BY <1>1 DEF HistoryMoves, PollsMove, JournalMoves
<1> HIDE DEF JournalInv
<1> QED BY <1>1, <1>2, <1>3, <1>4, <1>5, <1>6, QuietKeeps

LEMMA RecoverKeeps == ASSUME JournalInv, NEW t \in Tabs, Recover(t) PROVE JournalInv'
<1> USE DEF JournalInv
<1>1. holder = None /\ UNCHANGED <<holder, exec, seen, crashes, clears>> /\ Quiet /\ wire' = wire /\ expiry' = expiry
  BY DEF Recover, Quiet
<1>2. PICK n, record :
        /\ n \in Recoverable(t) /\ record = (IF journal # None THEN journal ELSE n)
        /\ SetJournal(t, record) /\ history' = Recorded(history, record) /\ Track(t, record)
  BY DEF Recover
<1>3. record \in Attempts /\ Marked(record)
  BY <1>2 DEF Recoverable, Marked, Signed, JournalTypeOK
<1>4. /\ history' \in [Attempts -> Statuses]
      /\ \A m \in Attempts : history'[m] = history[m] \/ (m = record /\ history'[m] = "flying")
  BY <1>2, <1>3 DEF Recorded, JournalTypeOK, Statuses
<1>5. journal' = record /\ news' \in [Tabs -> BOOLEAN] /\ (journal' = journal \/ journal = None)
  BY <1>2 DEF SetJournal, JournalTypeOK
<1>6. JournalTypeOK'
  <2>1. tracked' \in [Tabs -> Attempts \cup {None, Unknown}]
        /\ poll' \in [Tabs -> [step : {"start", "height", "history", "account", "apply"},
                               of : Attempts \cup {None}, verdict : Final \cup {"flying"}]]
    BY <1>2, <1>3, TrackPolls
  <2>2. LockHeld'
    BY <1>1 DEF JournalTypeOK, LockHeld
  <2> QED BY <1>1, <1>3, <1>4, <1>5, <2>1, <2>2 DEF JournalTypeOK, Quiet, chain
<1>7. NoNewMark
  <2>1. \A m \in Attempts : Signed(history'[m]) => Marked(m)
    BY <1>3, <1>4 DEF Marked
  <2> QED BY <1>1, <1>2, <1>3, <1>5, <2>1, TrackMarks
<1>8. NoNewOpen
  BY <1>1, NothingOpens
<1>9. ExecsOK'
  <2>1. \A m \in Attempts : history'[m] \in {"draft", "unsent"} => history[m] \in {"draft", "unsent"}
    BY <1>4
  <2> QED BY <1>1, <1>7, <2>1, ExecsCarried
<1>10. JournalMoves
  BY <1>5, JournalAssumption DEF Attempts, JournalMoves
<1>11. PollsMove
  BY <1>2, <1>3, TrackPolls
<1>12. HistoryMoves
  BY <1>4 DEF HistoryMoves
<1> HIDE DEF JournalInv
<1> QED BY <1>1, <1>6, <1>7, <1>8, <1>9, <1>10, <1>11, <1>12, QuietKeeps

LEMMA AdoptKeeps == ASSUME JournalInv, NEW t \in Tabs, Adopt(t) PROVE JournalInv'
<1> USE DEF JournalInv
<1>1. /\ journal \in Attempts /\ Track(t, journal) /\ Quiet /\ wire' = wire /\ expiry' = expiry
      /\ UNCHANGED <<journal, history, holder, news, exec, seen, crashes, clears>>
  BY DEF Adopt, Quiet, JournalTypeOK
<1>2. /\ tracked' \in [Tabs -> Attempts \cup {None, Unknown}]
      /\ poll' \in [Tabs -> [step : {"start", "height", "history", "account", "apply"},
                             of : Attempts \cup {None}, verdict : Final \cup {"flying"}]]
      /\ PollsMove
  BY <1>1, TrackPolls
<1>3. JournalTypeOK'
  <2>1. LockHeld'
    BY <1>1 DEF JournalTypeOK, LockHeld
  <2> QED BY <1>1, <1>2, <2>1 DEF JournalTypeOK, Quiet, chain
<1>4. NoNewMark
  <2>1. Marked(journal) /\ \A m \in Attempts : Signed(history'[m]) => Marked(m)
    BY <1>1 DEF Marked
  <2> QED BY <1>1, <2>1, TrackMarks
<1>5. NoNewOpen
  BY <1>1, NothingOpens
<1>6. ExecsOK'
  BY <1>1, <1>4, ExecsCarried
<1>7. HistoryMoves /\ JournalMoves
  BY <1>1 DEF HistoryMoves, JournalMoves
<1> HIDE DEF JournalInv
<1> QED BY <1>1, <1>2, <1>3, <1>4, <1>5, <1>6, <1>7, QuietKeeps

LEMMA ClearKeeps == ASSUME JournalInv, Clear PROVE JournalInv'
<1> USE DEF JournalInv
<1>1. /\ journal' = None /\ history' = [n \in Attempts |-> "absent"] /\ news' = [t \in Tabs |-> TRUE]
      /\ clears' = clears + 1 /\ clears \in Nat
      /\ UNCHANGED <<holder, tracked, exec, poll, seen, crashes>> /\ Quiet /\ wire' = wire /\ expiry' = expiry
  BY DEF Clear, Quiet, JournalTypeOK
<1>2. JournalTypeOK'
  <2>1. LockHeld'
    BY <1>1 DEF JournalTypeOK, LockHeld
  <2> QED BY <1>1, <2>1 DEF JournalTypeOK, Quiet, chain, Statuses
<1>3. NoNewMark
  BY <1>1, JournalAssumption DEF NoNewMark, Marked, Signed, Final
<1>4. ExecsOK'
  BY <1>1, <1>3, ExecsCarried
<1>5. LedgerOK' /\ MarksOK' /\ PollsOK'
  BY <1>1, <1>3, QuietLedger, MarksCarried, PollsCarried
<1>6. DraftsOK'
  BY <1>1 DEF DraftsOK
<1>7. StatusTrue'
  BY <1>1, StatusCarried DEF Final
<1>8. Remembered'
  BY <1>1 DEF Remembered
<1> QED BY <1>2, <1>4, <1>5, <1>6, <1>7, <1>8

LEMMA ReloadKeeps == ASSUME JournalInv, NEW t \in Tabs, Reload(t) PROVE JournalInv'
<1> USE DEF JournalInv
<1>1. /\ tracked' = [tracked EXCEPT ![t] = Unknown] /\ news' = [news EXCEPT ![t] = FALSE]
      /\ seen' = [seen EXCEPT ![t] = Unknown] /\ crashes' = crashes + 1
      /\ exec' = [exec EXCEPT ![t] = NoExec] /\ poll' = [poll EXCEPT ![t] = NoPoll]
      /\ holder' = IF holder = t THEN None ELSE holder
      /\ UNCHANGED <<journal, history, clears>> /\ Quiet /\ wire' = wire /\ expiry' = expiry
  BY DEF Reload, Quiet
<1>2. JournalTypeOK'
  <2>1. LockHeld'
    BY <1>1, JournalAssumption DEF JournalTypeOK, LockHeld, NoExec
  <2> QED BY <1>1, <2>1 DEF JournalTypeOK, Quiet, chain, NoExec, NoPoll
<1>3. NoNewMark
  <2> SUFFICES ASSUME NEW n \in Attempts, Marked(n)', ~Marked(n) PROVE FALSE
    BY DEF NoNewMark
  <2>1. PICK u \in Tabs : tracked'[u] = n \/ poll'[u].of = n \/ (seen'[u] # Unknown /\ n \in seen'[u])
    BY <1>1 DEF Marked
  <2> QED BY <1>1, <2>1, JournalAssumption DEF JournalTypeOK, Marked, NoPoll
<1>4. NoNewOpen
  <2>1. \A u \in Tabs, n \in Own : exec'[u] = [step |-> "journaled", attempt |-> n] =>
          exec[u] = [step |-> "journaled", attempt |-> n]
    BY <1>1 DEF JournalTypeOK, NoExec
  <2> QED BY <1>1, <2>1 DEF NoNewOpen, Open, Settled, Rooted, Gone, Quiet, chain
<1>5. ExecsOK'
  <2>1. ExecOK(NoExec)'
    BY DEF ExecOK, NoExec, Early, Late
  <2>2. ASSUME NEW u \in Tabs PROVE ExecOK(exec[u])'
    <3>1. CASE u = t
      BY <1>1, <2>1, <3>1 DEF JournalTypeOK, ExecOK, NoExec, Early, Late
    <3>2. CASE u # t
      <4> DEFINE x == exec[u]
      <4>1. exec'[u] = x /\ ExecOK(x) /\ (x.step # "idle" => x.attempt \in Attempts)
        BY <1>1, <3>2 DEF ExecsOK, ExecOK, JournalTypeOK, Attempts
      <4>2. x.step \in Early => ~Marked(x.attempt)'
        <5>1. PICK n : n = x.attempt /\ n = exec'[u].attempt
          BY <4>1
        <5>2. x.step \in Early => n \in Attempts /\ ~Marked(n)
          BY <4>1, <5>1 DEF ExecOK, Early
        <5>3. x.step \in Early => ~Marked(n)'
          BY <1>3, <5>2 DEF NoNewMark
        <5> QED BY <5>1, <5>3, Zenon DEF Marked
      <4> QED BY <1>1, <4>1, <4>2 DEF ExecOK
    <3> QED BY <3>1, <3>2
  <2>3. \A u, v \in Tabs : exec'[u].attempt = exec'[v].attempt /\ exec'[u].attempt # None => u = v
    BY <1>1 DEF ExecsOK, NoExec, JournalTypeOK
  <2> QED BY <2>2, <2>3 DEF ExecsOK
<1>6. HistoryMoves /\ PollsMove /\ JournalMoves
  BY <1>1 DEF JournalTypeOK, HistoryMoves, PollsMove, JournalMoves
<1> HIDE DEF JournalInv
<1> QED BY <1>1, <1>2, <1>3, <1>4, <1>5, <1>6, QuietKeeps

-----------------------------------------------------------------------------
(* execute *)

ExecStates == [step : {"idle", "preparing", "awaiting", "journaled", "posted", "failing"},
               attempt : Own \cup {None}]

\* One tab's execute moves: the others keep to their own attempts.
LEMMA ExecMoved ==
  ASSUME ExecsOK, JournalTypeOK, NEW t \in Tabs, NEW x \in ExecStates,
         exec' = [exec EXCEPT ![t] = x], ExecOK(x)',
         x.attempt \in {None, exec[t].attempt} \/ \A u \in Tabs : exec[u].attempt # x.attempt,
         \A m \in Attempts : m # exec[t].attempt => 
           (Marked(m)' => Marked(m)) /\ expiry'[m] = expiry[m] /\ wire'[m] = wire[m],
         journal' \in {journal, None} \/ holder \in {None, t},
         \A m \in Attempts : history'[m] \in {"draft", "unsent"} =>
           history[m] \in {"draft", "unsent"} \/ expiry[m] = 0 \/ m = exec[t].attempt
  PROVE  ExecsOK'
<1>1. \A u \in Tabs : exec'[u] = IF u = t THEN x ELSE exec[u]
  BY DEF JournalTypeOK
<1>2. ASSUME NEW u \in Tabs PROVE ExecOK(exec[u])'
  <2>1. CASE u = t
    <3>1. exec'[u] = x
      BY <1>1, <2>1
    <3> QED BY <3>1 DEF ExecOK, Marked
  <2>2. CASE u # t
    <3> DEFINE y == exec[u]
    <3>1. exec'[u] = y /\ ExecOK(y)
      BY <1>1, <2>2 DEF ExecsOK
    <3>2. y.step # "idle" => y.attempt \in Attempts /\ y.attempt # exec[t].attempt
      BY <2>2, <3>1 DEF ExecsOK, ExecOK, JournalTypeOK, Attempts
    <3>3. y.step \in Early => ~Marked(y.attempt)'
      <4>1. PICK n : n = y.attempt /\ n = exec'[u].attempt
        BY <3>1
      <4>2. y.step \in Early => n \in Attempts /\ n # exec[t].attempt /\ ~Marked(n)
        BY <3>1, <3>2, <4>1 DEF ExecOK, Early
      <4>3. y.step \in Early => ~Marked(n)'
        BY <4>2
      <4> QED BY <4>1, <4>3, Zenon DEF Marked
    <3>4. y.step \in {"preparing", "awaiting"} => journal' = None
      BY <2>2, <3>1, JournalAssumption DEF ExecOK, JournalTypeOK, LockHeld
    <3>5. y.step \in Late => history'[y.attempt] \notin {"draft", "unsent"}
      BY <3>1, <3>2 DEF ExecOK, Late
    <3>6. y.step # "idle" => expiry'[y.attempt] = expiry[y.attempt] /\ wire'[y.attempt] = wire[y.attempt]
      BY <3>2
    <3>7. ExecOK(y)'
      <4>1. y' = y
        BY <3>1
      <4>2. (y.step = "idle" <=> y.attempt = None)
            /\ (y.step = "preparing" => expiry'[y.attempt] = 0)
            /\ (y.step \in {"awaiting"} \cup Late => expiry'[y.attempt] # 0)
            /\ (y.step = "journaled" => wire'[y.attempt] = "none")
        BY <3>1, <3>6 DEF ExecOK, Late
      <4> QED BY <3>1, <3>3, <3>4, <3>5, <4>2 DEF ExecOK
    <3> QED BY <3>1, <3>7
  <2> QED BY <2>1, <2>2
<1>3. \A u, v \in Tabs : exec'[u].attempt = exec'[v].attempt /\ exec'[u].attempt # None => u = v
  BY <1>1 DEF ExecsOK
<1> QED BY <1>2, <1>3 DEF ExecsOK

LEMMA BeginKeeps == ASSUME JournalInv, NEW t \in Tabs, NEW n \in Own, Begin(t, n) PROVE JournalInv'
<1> USE DEF JournalInv
<1> DEFINE x == [step |-> "preparing", attempt |-> n]
<1>1. /\ holder = None /\ holder' = t /\ journal = None /\ Fresh(n) /\ n \in Attempts /\ exec[t] = NoExec
      /\ exec' = [exec EXCEPT ![t] = x] /\ history' = [history EXCEPT ![n] = "draft"]
      /\ UNCHANGED <<journal, tracked, news, poll, seen, crashes, clears>> /\ Quiet /\ wire' = wire /\ expiry' = expiry
  BY DEF Begin, Idle, Quiet, Attempts
<1>2. ~Marked(n) /\ expiry[n] = 0
  BY <1>1 DEF MarksOK, Fresh
<1>3. JournalTypeOK'
  <2>1. exec' \in [Tabs -> ExecStates] /\ exec'[t].step = "preparing"
    BY <1>1 DEF JournalTypeOK, ExecStates
  <2>2. LockHeld'
    BY <1>1, JournalAssumption DEF JournalTypeOK, LockHeld
  <2> QED BY <1>1, <2>1, <2>2 DEF JournalTypeOK, Quiet, chain, Statuses, ExecStates
<1>4. NoNewMark
  BY <1>1 DEF NoNewMark, Marked, Signed, Final, JournalTypeOK
<1>5. NoNewOpen
  <2>1. \A u \in Tabs, m \in Own : exec'[u] = [step |-> "journaled", attempt |-> m] =>
          exec[u] = [step |-> "journaled", attempt |-> m]
    BY <1>1 DEF JournalTypeOK
  <2> QED BY <1>1, <2>1 DEF NoNewOpen, Open, Settled, Rooted, Gone, Quiet, chain
<1>6. ExecsOK'
  <2>1. x \in ExecStates /\ x.attempt = n /\ x.step = "preparing"
    BY DEF ExecStates
  <2>2. ~Marked(n)'
    BY <1>1, <1>2, <1>4 DEF NoNewMark
  <2>3. ExecOK(x)'
    <3>1. n # None
      BY <1>1, JournalAssumption
    <3> QED BY <1>1, <1>2, <2>1, <2>2, <3>1 DEF ExecOK, Early, Late
  <2>4. \A u \in Tabs : exec[u].attempt # x.attempt
    BY <1>1, <2>1 DEF Fresh
  <2>5. \A m \in Attempts : history'[m] \in {"draft", "unsent"} => history[m] \in {"draft", "unsent"} \/ expiry[m] = 0
    BY <1>1, <1>2 DEF JournalTypeOK
  <2> HIDE DEF x
  <2> QED BY <1>1, <1>4, <2>1, <2>3, <2>4, <2>5, ExecMoved DEF NoNewMark
<1>7. HistoryMoves /\ PollsMove /\ JournalMoves
  BY <1>1, <1>2 DEF HistoryMoves, PollsMove, JournalMoves, JournalTypeOK
<1> HIDE DEF JournalInv
<1> QED BY <1>1, <1>3, <1>4, <1>5, <1>6, <1>7, QuietKeeps

\* A lifetime is given to an attempt that nobody knows of yet.
LEMMA AskKeeps == ASSUME JournalInv, NEW t \in Tabs, Ask(t) PROVE JournalInv'
<1> USE DEF JournalInv
<1>0. PICK n : n = exec[t].attempt
  OBVIOUS
<1> DEFINE x == [step |-> "awaiting", attempt |-> n]
<1>1. /\ exec[t].step = "preparing" /\ expiry' = [expiry EXCEPT ![n] = tip + Life]
      /\ exec' = [exec EXCEPT ![t].step = "awaiting"]
      /\ UNCHANGED <<journal, history, holder, tracked, news, poll, seen, receipts, wire, chain, crashes, clears>>
      /\ UNCHANGED <<tip, root, landed, worked>>
  BY <1>0 DEF Ask, chain
<1>2. ExecOK(exec[t]) /\ exec[t] \in ExecStates
  BY DEF ExecsOK, JournalTypeOK, ExecStates
<1>3. n \in Own /\ n \in Attempts /\ n # None /\ ~Marked(n) /\ expiry[n] = 0 /\ journal = None
  BY <1>0, <1>1, <1>2, JournalAssumption DEF ExecOK, ExecStates, Attempts, Early
<1>4. /\ exec' = [exec EXCEPT ![t] = x] /\ x \in ExecStates /\ x.step = "awaiting" /\ x.attempt = n
      /\ expiry'[n] = tip + Life /\ expiry'[n] # 0 /\ expiry'[n] \in Nat
      /\ \A m \in Attempts : m # n => expiry'[m] = expiry[m]
  <2>1. exec' = [exec EXCEPT ![t] = x]
    <3>1. [exec[t] EXCEPT !.step = "awaiting"] = x
      BY <1>0, <1>2 DEF ExecStates
    <3>2. exec' = [exec EXCEPT ![t] = [exec[t] EXCEPT !.step = "awaiting"]]
      BY <1>1
    <3> QED BY <3>1, <3>2
  <2>2. tip + Life # 0 /\ tip + Life \in Nat
    BY JournalAssumption DEF LedgerOK
  <2>3. expiry'[n] = tip + Life /\ \A m \in Attempts : m # n => expiry'[m] = expiry[m]
    BY <1>1, <1>3 DEF JournalTypeOK
  <2> QED BY <1>3, <2>1, <2>2, <2>3 DEF ExecStates
<1> HIDE DEF x
<1>5. wire[n] = "none" /\ landed[n] = 0 /\ n \notin worked /\ history[n] \notin Final
  BY <1>3 DEF Marked, LedgerOK, Signed
<1>6. JournalTypeOK'
  <2>1. exec' \in [Tabs -> ExecStates] /\ expiry' \in [Attempts -> Nat]
    BY <1>1, <1>3, <1>4 DEF JournalTypeOK, ExecStates
  <2>2. LockHeld'
    BY <1>1, <1>4 DEF JournalTypeOK, LockHeld
  <2> QED BY <1>1, <2>1, <2>2 DEF JournalTypeOK, ExecStates
<1>7. LedgerOK'
  <2>1. \A m \in Attempts : expiry'[m] = expiry[m] \/ m = n
    BY <1>4
  <2>2. n \notin Foreign
    BY <1>3, JournalAssumption
  <2> QED BY <1>1, <1>4, <1>5, <2>1, <2>2 DEF LedgerOK
<1>8. \A m \in Attempts : Marked(m)' <=> Marked(m)
  BY <1>1 DEF Marked
<1>9. MarksOK' /\ DraftsOK'
  BY <1>1, <1>3, <1>4, <1>8 DEF MarksOK, DraftsOK
<1>10. ExecsOK'
  <2>1. ExecOK(x)'
    <3>1. ~Marked(n)'
      BY <1>3, <1>8
    <3> QED BY <1>1, <1>3, <1>4, <3>1 DEF ExecOK, Early, Late
  <2> QED BY <1>0, <1>1, <1>4, <1>8, <2>1, ExecMoved
<1>11. PollsOK'
  <2>1. ASSUME NEW u \in Tabs PROVE PollOK(poll[u], tracked[u])'
    <3>1. PollOK(poll[u], tracked[u])
      BY DEF PollsOK
    <3>2. poll[u].of # n
      BY <1>3 DEF Marked
    <3>3. poll'[u] = poll[u] /\ tracked'[u] = tracked[u] /\ (poll[u].of \in Attempts => expiry'[poll[u].of] = expiry[poll[u].of])
      BY <1>1, <1>4, <3>2
    <3>4. poll[u].step = "apply" => TrueOf(poll[u].of, poll[u].verdict)'
      BY <1>1, <3>1, <3>3 DEF PollOK, TrueOf, Rooted, Taken
    <3> QED BY <1>1, <3>1, <3>3, <3>4 DEF PollOK
  <2> QED BY <2>1 DEF PollsOK
<1>12. StatusTrue'
  <2>1. ASSUME NEW m \in Attempts, NEW status, status = history'[m] PROVE TrueOf(m, status)'
    <3>1. TrueOf(m, history[m]) /\ status = history[m]
      BY <1>1, <2>1, StatusApart
    <3>2. m = n => status \notin Final
      BY <1>5, <3>1
    <3>3. m # n => expiry'[m] = expiry[m]
      BY <1>4
    <3> QED BY <1>1, <3>1, <3>2, <3>3 DEF TrueOf, Rooted, Taken, Final
  <2> QED BY <2>1, Zenon DEF StatusTrue, TrueOf
<1>13. Remembered'
  <2> SUFFICES ASSUME clears = 0, NEW m \in Own, Open(m)' PROVE journal = m
    BY <1>1 DEF Remembered
  <2>1. \A u \in Tabs : exec'[u] = [step |-> "journaled", attempt |-> m] =>
          exec[u] = [step |-> "journaled", attempt |-> m]
    BY <1>1, <1>4 DEF JournalTypeOK
  <2>2. CASE m = n
    <3>1. PICK u \in Tabs : exec[u] = [step |-> "journaled", attempt |-> n]
      BY <1>1, <1>5, <2>1, <2>2 DEF Open
    <3>2. u = t
      BY <1>0, <1>3, <3>1 DEF ExecsOK
    <3> QED BY <1>0, <1>1, <3>1, <3>2
  <2>3. CASE m # n
    <3>1. Open(m)
      BY <1>1, <1>4, <2>1, <2>3 DEF Open, Settled, Rooted, Gone, Attempts
    <3> QED BY <3>1 DEF Remembered
  <2> QED BY <2>2, <2>3
<1> QED BY <1>6, <1>7, <1>9, <1>10, <1>11, <1>12, <1>13

\* The journal takes the signature over before anything is sent; it was empty, as only the
\* owner of the lock writes it.
LEMMA SaveKeeps == ASSUME JournalInv, NEW t \in Tabs, Save(t) PROVE JournalInv'
<1> USE DEF JournalInv
<1>0. PICK n : n = exec[t].attempt
  OBVIOUS
<1> DEFINE x == [step |-> "journaled", attempt |-> n]
<1>1. /\ exec[t].step = "awaiting" /\ SetJournal(t, n) /\ journal' = n
      /\ history' = [history EXCEPT ![n] = IF history[n] = "absent" THEN "absent" ELSE "flying"]
      /\ exec' = [exec EXCEPT ![t] = x] /\ Track(t, n)
      /\ UNCHANGED <<holder, seen, crashes, clears>> /\ Quiet /\ wire' = wire /\ expiry' = expiry
  <2>1. [exec[t] EXCEPT !.step = "journaled"] = x
    BY <1>0 DEF JournalTypeOK
  <2>2. exec' = [exec EXCEPT ![t] = x]
    BY <2>1 DEF Save
  <2> HIDE DEF x
  <2> QED BY <1>0, <2>2 DEF Save, SetJournal, Quiet
<1>2. ExecOK(exec[t]) /\ exec[t] \in ExecStates
  BY DEF ExecsOK, JournalTypeOK, ExecStates
<1>3. /\ n \in Own /\ n \in Attempts /\ n # None /\ ~Marked(n) /\ expiry[n] # 0 /\ journal = None
      /\ wire[n] = "none" /\ x \in ExecStates /\ x.step = "journaled" /\ x.attempt = n
  BY <1>0, <1>1, <1>2, JournalAssumption DEF ExecOK, ExecStates, Attempts, Early, Marked
<1> HIDE DEF x
<1>4. /\ history' \in [Attempts -> Statuses] /\ history'[n] \in {"absent", "flying"}
      /\ \A m \in Attempts : m # n => history'[m] = history[m]
  BY <1>1, <1>3 DEF JournalTypeOK, Statuses
<1>5. /\ tracked' \in [Tabs -> Attempts \cup {None, Unknown}]
      /\ poll' \in [Tabs -> [step : {"start", "height", "history", "account", "apply"},
                             of : Attempts \cup {None}, verdict : Final \cup {"flying"}]]
      /\ \A u \in Tabs : tracked'[u] = tracked[u] \/ tracked'[u] = n
      /\ PollsMove
  BY <1>1, <1>3, TrackPolls
<1>6. JournalTypeOK'
  <2>1. exec' \in [Tabs -> ExecStates]
    BY <1>1, <1>3 DEF JournalTypeOK, ExecStates
  <2>2. news' \in [Tabs -> BOOLEAN]
    BY <1>1 DEF SetJournal, JournalTypeOK
  <2>3. LockHeld'
    BY <1>1, <1>3 DEF JournalTypeOK, LockHeld
  <2> QED BY <1>1, <1>3, <1>4, <1>5, <2>1, <2>2, <2>3 DEF JournalTypeOK, ExecStates, Quiet, chain
<1>7. \A m \in Attempts : m # n => (Marked(m)' => Marked(m))
  <2> SUFFICES ASSUME NEW m \in Attempts, m # n, Marked(m)' PROVE Marked(m)
    OBVIOUS
  <2>1. m # None
    BY JournalAssumption
  <2>2. \/ wire'[m] # "none" \/ journal' = m \/ Signed(history'[m])
        \/ \E u \in Tabs : tracked'[u] = m \/ poll'[u].of = m \/ (seen'[u] # Unknown /\ m \in seen'[u])
    BY Zenon DEF Marked, Signed
  <2>3. \A u \in Tabs : poll'[u].of = m => poll[u].of = m
    BY <1>5, <2>1 DEF PollsMove, NoPoll
  <2> QED BY <1>1, <1>4, <1>5, <2>2, <2>3 DEF Marked
<1>8. LedgerOK' /\ PollsOK'
  BY <1>1, <1>5, QuietLedger, PollsCarried DEF PollsMove
<1>9. StatusTrue'
  BY <1>1, <1>4, StatusCarried DEF Final
<1>10. MarksOK' /\ DraftsOK'
  BY <1>1, <1>3, <1>4, <1>7 DEF MarksOK, DraftsOK
<1>11. ExecsOK'
  <2>1. ExecOK(x)'
    BY <1>1, <1>3, <1>4 DEF ExecOK, Early, Late
  <2>2. holder = t
    BY <1>1, OthersWait
  <2>3. \A m \in Attempts : history'[m] \in {"draft", "unsent"} => history[m] \in {"draft", "unsent"}
    BY <1>4
  <2> QED BY <1>0, <1>1, <1>3, <1>7, <2>1, <2>2, <2>3, ExecMoved
<1>12. Remembered'
  <2> SUFFICES ASSUME clears = 0, NEW m \in Own, Open(m)' PROVE m = n
    BY <1>1 DEF Remembered
  <2>1. ~Open(m)
    BY <1>3, JournalAssumption DEF Remembered, Attempts
  <2>2. Settled(m)' <=> Settled(m)
    BY <1>1 DEF Settled, Rooted, Gone, Quiet, chain
  <2>3. wire[m] = "none"
    BY <1>1, <2>1, <2>2 DEF Open
  <2>4. PICK u \in Tabs : exec'[u] = [step |-> "journaled", attempt |-> m]
    BY <1>1, <2>3 DEF Open
  <2>5. u = t
    BY <1>1, <2>1, <2>2, <2>4 DEF Open, JournalTypeOK
  <2> QED BY <1>1, <1>3, <2>4, <2>5 DEF JournalTypeOK
<1> QED BY <1>6, <1>8, <1>9, <1>10, <1>11, <1>12

LEMMA PostKeeps == ASSUME JournalInv, NEW t \in Tabs, Post(t) PROVE JournalInv'
<1> USE DEF JournalInv
<1>0. PICK n : n = exec[t].attempt
  OBVIOUS
<1> DEFINE x == [step |-> "posted", attempt |-> n]
<1>1. /\ exec[t].step = "journaled" /\ wire' = [wire EXCEPT ![n] = "sent"] /\ exec' = [exec EXCEPT ![t] = x]
      /\ UNCHANGED <<journal, history, holder, tracked, news, poll, seen, receipts, chain, expiry, crashes, clears>>
      /\ UNCHANGED <<tip, root, landed, worked>>
  <2>1. [exec[t] EXCEPT !.step = "posted"] = x
    BY <1>0 DEF JournalTypeOK
  <2>2. exec' = [exec EXCEPT ![t] = x]
    BY <2>1 DEF Post
  <2> HIDE DEF x
  <2> QED BY <1>0, <2>2 DEF Post, chain
<1>2. ExecOK(exec[t]) /\ exec[t] \in ExecStates
  BY DEF ExecsOK, JournalTypeOK, ExecStates
<1>3. /\ n \in Own /\ n \in Attempts /\ n # None /\ expiry[n] # 0 /\ wire[n] = "none"
      /\ history[n] \notin {"draft", "unsent"} /\ x \in ExecStates /\ x.step = "posted" /\ x.attempt = n
      /\ exec[t] = [step |-> "journaled", attempt |-> n]
  BY <1>0, <1>1, <1>2, JournalAssumption DEF ExecOK, ExecStates, Attempts, Late
<1> HIDE DEF x
<1>4. wire'[n] = "sent" /\ \A m \in Attempts : m # n => wire'[m] = wire[m]
  BY <1>1, <1>3 DEF JournalTypeOK
<1>5. JournalTypeOK'
  <2>1. exec' \in [Tabs -> ExecStates] /\ wire' \in [Attempts -> {"none", "sent", "relayed"}]
    BY <1>1, <1>3 DEF JournalTypeOK, ExecStates
  <2>2. LockHeld'
    BY <1>1, <1>3 DEF JournalTypeOK, LockHeld
  <2> QED BY <1>1, <2>1, <2>2 DEF JournalTypeOK, ExecStates
<1>6. LedgerOK'
  BY <1>1, <1>3, <1>4 DEF LedgerOK
<1>7. \A m \in Attempts : m # n => (Marked(m)' => Marked(m))
  BY <1>1, <1>4 DEF Marked
<1>8. MarksOK' /\ DraftsOK'
  BY <1>1, <1>3, <1>7 DEF MarksOK, DraftsOK
<1>9. ExecsOK'
  <2>1. ExecOK(x)'
    BY <1>1, <1>3, <1>4 DEF ExecOK, Early, Late
  <2> QED BY <1>0, <1>1, <1>3, <1>4, <1>7, <2>1, ExecMoved
<1>10. PollsOK' /\ StatusTrue'
  <2>1. \A m, status : TrueOf(m, status)' <=> TrueOf(m, status)
    BY <1>1, Zenon DEF TrueOf, Rooted, Taken
  <2>2. StatusTrue'
    BY <1>1 DEF StatusTrue, Rooted, Taken
  <2>3. ASSUME NEW u \in Tabs PROVE PollOK(poll[u], tracked[u])'
    BY <1>1 DEF PollsOK, PollOK, TrueOf, Rooted, Taken
  <2> QED BY <2>2, <2>3 DEF PollsOK
<1>11. Remembered'
  <2> SUFFICES ASSUME clears = 0, NEW m \in Own, Open(m)' PROVE journal = m
    BY <1>1 DEF Remembered
  <2>1. ~Settled(m)
    BY <1>1 DEF Open, Settled, Rooted, Gone
  <2>2. CASE m = n
    BY <1>3, <2>1, <2>2 DEF Open, Remembered
  <2>3. CASE m # n
    <3>1. \A u \in Tabs : exec'[u] = [step |-> "journaled", attempt |-> m] =>
            exec[u] = [step |-> "journaled", attempt |-> m]
      BY <1>1, <1>3 DEF JournalTypeOK
    <3>2. Open(m)
      BY <1>4, <2>1, <2>3, <3>1 DEF Open, Attempts
    <3> QED BY <3>2 DEF Remembered
  <2> QED BY <2>2, <2>3
<1> QED BY <1>5, <1>6, <1>8, <1>9, <1>10, <1>11

LEMMA DoneKeeps == ASSUME JournalInv, NEW t \in Tabs, Done(t) PROVE JournalInv'
<1> USE DEF JournalInv
<1>0. PICK n : n = exec[t].attempt
  OBVIOUS
<1>1. /\ exec[t].step \in Late /\ exec' = [exec EXCEPT ![t] = NoExec] /\ holder' = None
      /\ history' = Noted(history, n, "flying")
      /\ UNCHANGED <<journal, tracked, news, poll, seen, crashes, clears>> /\ Quiet /\ wire' = wire /\ expiry' = expiry
  BY <1>0 DEF Done, Late, Quiet
<1>2. holder = t /\ \A u \in Tabs : u # t => exec[u].step \notin {"preparing", "awaiting"} \cup Late
  BY <1>1, OthersWait
<1>3. /\ history' \in [Attempts -> Statuses]
      /\ \A m \in Attempts : history'[m] = history[m] \/ (history'[m] = "flying" /\ Signed(history[m]))
  BY <1>1 DEF Noted, JournalTypeOK, Statuses
<1>4. JournalTypeOK'
  <2>1. exec' \in [Tabs -> ExecStates]
    BY <1>1 DEF JournalTypeOK, ExecStates, NoExec
  <2>2. LockHeld'
    BY <1>1, <1>2, JournalAssumption DEF JournalTypeOK, LockHeld, NoExec, Late
  <2> QED BY <1>1, <1>3, <2>1, <2>2 DEF JournalTypeOK, ExecStates, Quiet, chain
<1>5. NoNewMark
  BY <1>1, <1>3 DEF NoNewMark, Marked
<1>6. NoNewOpen
  <2>1. \A u \in Tabs, m \in Own : exec'[u] = [step |-> "journaled", attempt |-> m] =>
          exec[u] = [step |-> "journaled", attempt |-> m]
    BY <1>1 DEF JournalTypeOK, NoExec
  <2> QED BY <1>1, <2>1 DEF NoNewOpen, Open, Settled, Rooted, Gone, Quiet, chain
<1>7. ExecsOK'
  <2>1. ExecOK(NoExec)' /\ NoExec \in ExecStates /\ NoExec.attempt = None
    BY DEF ExecOK, NoExec, Early, Late, ExecStates
  <2>2. \A m \in Attempts : history'[m] \in {"draft", "unsent"} => history[m] \in {"draft", "unsent"}
    BY <1>3
  <2> QED BY <1>1, <1>5, <2>1, <2>2, ExecMoved DEF NoNewMark
<1>8. HistoryMoves /\ PollsMove /\ JournalMoves
  BY <1>1, <1>3 DEF HistoryMoves, PollsMove, JournalMoves
<1> HIDE DEF JournalInv
<1> QED BY <1>1, <1>4, <1>5, <1>6, <1>7, <1>8, QuietKeeps

LEMMA FailKeeps == ASSUME JournalInv, NEW t \in Tabs, Fail(t) PROVE JournalInv'
<1> USE DEF JournalInv
<1>0. PICK n : n = exec[t].attempt
  OBVIOUS
<1> DEFINE x == [step |-> "failing", attempt |-> n]
<1>1. /\ exec[t].step \in {"preparing", "awaiting"} /\ exec' = [exec EXCEPT ![t] = x] /\ holder' = None
      /\ UNCHANGED <<journal, history, tracked, news, poll, seen, crashes, clears>>
      /\ Quiet /\ wire' = wire /\ expiry' = expiry
  <2>1. [exec[t] EXCEPT !.step = "failing"] = x
    BY <1>0 DEF JournalTypeOK
  <2>2. exec' = [exec EXCEPT ![t] = x]
    BY <2>1 DEF Fail
  <2> HIDE DEF x
  <2> QED BY <2>2 DEF Fail, Quiet
<1>2. holder = t /\ \A u \in Tabs : u # t => exec[u].step \notin {"preparing", "awaiting"} \cup Late
  BY <1>1, OthersWait
<1>3. n \in Own /\ n # None /\ ~Marked(n) /\ x \in ExecStates /\ x.step = "failing" /\ x.attempt = n
  <2>1. ExecOK(exec[t]) /\ exec[t] \in ExecStates
    BY DEF ExecsOK, JournalTypeOK, ExecStates
  <2> QED BY <1>0, <1>1, <2>1, JournalAssumption DEF ExecOK, ExecStates, Attempts, Early
<1> HIDE DEF x
<1>4. JournalTypeOK'
  <2>1. exec' \in [Tabs -> ExecStates]
    BY <1>1, <1>3 DEF JournalTypeOK, ExecStates
  <2>2. LockHeld'
    BY <1>1, <1>2, <1>3, JournalAssumption DEF JournalTypeOK, LockHeld, Late
  <2> QED BY <1>1, <2>1, <2>2 DEF JournalTypeOK, ExecStates, Quiet, chain
<1>5. NoNewMark
  BY <1>1 DEF NoNewMark, Marked
<1>6. NoNewOpen
  <2>1. \A u \in Tabs, m \in Own : exec'[u] = [step |-> "journaled", attempt |-> m] =>
          exec[u] = [step |-> "journaled", attempt |-> m]
    BY <1>1, <1>3 DEF JournalTypeOK
  <2> QED BY <1>1, <2>1 DEF NoNewOpen, Open, Settled, Rooted, Gone, Quiet, chain
<1>7. ExecsOK'
  <2>1. n \in Attempts /\ ~Marked(n)'
    BY <1>3, <1>5 DEF NoNewMark, Attempts
  <2>2. ExecOK(x)'
    BY <1>3, <2>1 DEF ExecOK, Early, Late
  <2> QED BY <1>0, <1>1, <1>3, <1>5, <2>2, ExecMoved DEF NoNewMark
<1>8. HistoryMoves /\ PollsMove /\ JournalMoves
  BY <1>1 DEF HistoryMoves, PollsMove, JournalMoves
<1> HIDE DEF JournalInv
<1> QED BY <1>1, <1>4, <1>5, <1>6, <1>7, <1>8, QuietKeeps

LEMMA NoteFailureKeeps == ASSUME JournalInv, NEW t \in Tabs, NoteFailure(t) PROVE JournalInv'
<1> USE DEF JournalInv
<1>0. PICK n : n = exec[t].attempt
  OBVIOUS
<1>1. /\ exec[t].step = "failing" /\ exec' = [exec EXCEPT ![t] = NoExec]
      /\ history' = history \/ history' = [history EXCEPT ![n] = "unsent"]
      /\ UNCHANGED <<journal, holder, tracked, news, poll, seen, crashes, clears>>
      /\ Quiet /\ wire' = wire /\ expiry' = expiry
  BY <1>0 DEF NoteFailure, Quiet
<1>2. n \in Own /\ n \in Attempts /\ ~Marked(n)
  <2>1. ExecOK(exec[t]) /\ exec[t] \in ExecStates
    BY DEF ExecsOK, JournalTypeOK, ExecStates
  <2> QED BY <1>0, <1>1, <2>1, JournalAssumption DEF ExecOK, ExecStates, Attempts, Early
<1>3. /\ history' \in [Attempts -> Statuses]
      /\ \A m \in Attempts : history'[m] = history[m] \/ (m = n /\ history'[m] = "unsent")
  BY <1>1, <1>2 DEF JournalTypeOK, Statuses
<1>4. JournalTypeOK'
  <2>1. exec' \in [Tabs -> ExecStates]
    BY <1>1 DEF JournalTypeOK, ExecStates, NoExec
  <2>2. LockHeld'
    BY <1>1 DEF JournalTypeOK, LockHeld, NoExec
  <2> QED BY <1>1, <1>3, <2>1, <2>2 DEF JournalTypeOK, ExecStates, Quiet, chain
<1>5. NoNewMark
  BY <1>1, <1>3 DEF NoNewMark, Marked, Signed, Final
<1>6. NoNewOpen
  <2>1. \A u \in Tabs, m \in Own : exec'[u] = [step |-> "journaled", attempt |-> m] =>
          exec[u] = [step |-> "journaled", attempt |-> m]
    BY <1>1 DEF JournalTypeOK, NoExec
  <2> QED BY <1>1, <2>1 DEF NoNewOpen, Open, Settled, Rooted, Gone, Quiet, chain
<1>7. ExecsOK'
  <2>1. ExecOK(NoExec)' /\ NoExec \in ExecStates /\ NoExec.attempt = None
    BY DEF ExecOK, NoExec, Early, Late, ExecStates
  <2>2. \A m \in Attempts : history'[m] \in {"draft", "unsent"} => history[m] \in {"draft", "unsent"} \/ m = n
    BY <1>3
  <2> QED BY <1>0, <1>1, <1>5, <2>1, <2>2, ExecMoved DEF NoNewMark
<1>8. HistoryMoves /\ PollsMove /\ JournalMoves
  BY <1>1, <1>2, <1>3 DEF HistoryMoves, PollsMove, JournalMoves
<1> HIDE DEF JournalInv
<1> QED BY <1>1, <1>4, <1>5, <1>6, <1>7, <1>8, QuietKeeps

-----------------------------------------------------------------------------
(* poll *)

PollStates == [step : {"start", "height", "history", "account", "apply"},
               of : Attempts \cup {None}, verdict : Final \cup {"flying"}]

\* An observation only has to be true of the signature it was made for.
LEMMA ObservedKeeps ==
  ASSUME JournalInv, NEW t \in Tabs, tracked[t] \in Attempts,
         NEW step \in {"height", "history", "account", "apply"}, NEW verdict \in Final \cup {"flying"},
         Observed(t, step, verdict), NEW n, n = tracked[t],
         step \in {"history", "account"} => root > expiry[n],
         step = "apply" => TrueOf(n, verdict)
  PROVE  JournalInv'
<1> USE DEF JournalInv
<1> DEFINE p == [step |-> step, of |-> n, verdict |-> verdict]
<1>1. /\ poll' = [poll EXCEPT ![t] = p]
      /\ UNCHANGED <<journal, history, holder, tracked, news, exec, seen, crashes, clears>>
      /\ Quiet /\ wire' = wire /\ expiry' = expiry /\ chain' = chain
  BY DEF Observed, Quiet
<1>2. p \in PollStates /\ p.step = step /\ p.of = n /\ p.verdict = verdict
  BY DEF PollStates
<1> HIDE DEF p
<1>3. JournalTypeOK'
  <2>1. poll' \in [Tabs -> PollStates]
    BY <1>1, <1>2 DEF JournalTypeOK, PollStates
  <2>2. LockHeld'
    BY <1>1 DEF JournalTypeOK, LockHeld
  <2> QED BY <1>1, <2>1, <2>2 DEF JournalTypeOK, PollStates, Quiet, chain
<1>4. NoNewMark
  BY <1>1, <1>2 DEF NoNewMark, Marked, JournalTypeOK
<1>5. NoNewOpen
  BY <1>1, NothingOpens
<1>6. ExecsOK'
  BY <1>1, <1>4, ExecsCarried
<1>7. LedgerOK' /\ MarksOK' /\ DraftsOK' /\ Remembered'
  BY <1>1, <1>4, <1>5, QuietLedger, MarksCarried, DraftsCarried, RememberedCarried
<1>8. StatusTrue'
  BY <1>1, StatusCarried
<1>9. PollsOK'
  <2>1. ASSUME NEW u \in Tabs PROVE PollOK(poll[u], tracked[u])'
    <3>1. PollOK(poll[u], tracked[u])
      BY DEF PollsOK
    <3>2. PICK m, status : m = poll'[u].of /\ status = poll'[u].verdict
      OBVIOUS
    <3>3. poll'[u].step = "apply" => TrueOf(m, status)
      <4>1. CASE u = t
        <5>1. m = n /\ status = verdict /\ poll'[u].step = step
          BY <1>1, <1>2, <3>2, <4>1 DEF JournalTypeOK
        <5> QED BY <5>1
      <4>2. CASE u # t
        <5>1. poll'[u] = poll[u]
          BY <1>1, <4>2 DEF JournalTypeOK
        <5> QED BY <3>1, <3>2, <5>1 DEF PollOK
      <4> QED BY <4>1, <4>2
    <3>4. poll'[u].step = "apply" => TrueOf(m, status)'
      BY <1>1, <3>3, QuietTruth
    <3>5. poll'[u].step = "apply" => TrueOf(poll[u].of, poll[u].verdict)'
      BY <3>2, <3>4, Zenon DEF TrueOf
    <3>6. poll'[u].step \in {"history", "account"} =>
            poll'[u].of = tracked'[u] /\ poll'[u].of \in Attempts /\ root' > expiry'[poll'[u].of]
      BY <1>1, <1>2, <3>1 DEF PollOK, JournalTypeOK, chain
    <3>7. poll'[u].step = "apply" => poll'[u].of \in Attempts
      BY <1>1, <1>2, <3>1 DEF PollOK, JournalTypeOK
    <3> QED BY <3>5, <3>6, <3>7 DEF PollOK
  <2> QED BY <2>1 DEF PollsOK
<1> QED BY <1>3, <1>6, <1>7, <1>8, <1>9

LEMMA AnswersTrue ==
  ASSUME NEW n, "finalized" \in Answers(n) PROVE Rooted(n)
BY DEF Answers

LEMMA OutcomeIsTrue ==
  ASSUME NEW n, Rooted(n) PROVE Outcome(n) \in Final /\ TrueOf(n, Outcome(n))
BY DEF Outcome, TrueOf, Final

\* A look at the status, or at the history: what is finalized is reported as it is.
LEMMA LookKeeps == ASSUME JournalInv, NEW t \in Tabs, Look(t) PROVE JournalInv'
<1>1. PICK n : n = tracked[t]
  OBVIOUS
<1>2. PICK answer \in Answers(n) :
        CASE answer = "finalized" -> Observed(t, "apply", Outcome(n))
          [] answer = "confirmed" -> Observed(t, "apply", "flying")
          [] OTHER -> Observed(t, "height", "flying")
  BY <1>1 DEF Look
<1>3. n \in Attempts
  BY <1>1 DEF Look, Polling
<1>4. CASE answer = "finalized"
  <2>1. Observed(t, "apply", Outcome(n)) /\ Rooted(n)
    BY <1>2, <1>4, AnswersTrue
  <2>2. PICK verdict : verdict = Outcome(n) /\ verdict \in Final /\ TrueOf(n, verdict)
    BY <2>1, OutcomeIsTrue
  <2> QED BY <1>1, <1>3, <2>1, <2>2, ObservedKeeps
<1>5. CASE answer # "finalized"
  <2>1. Observed(t, "apply", "flying") \/ Observed(t, "height", "flying")
    BY <1>2, <1>5
  <2>2. TrueOf(n, "flying")
    BY DEF TrueOf
  <2> QED BY <1>1, <1>3, <2>1, <2>2, ObservedKeeps
<1> QED BY <1>4, <1>5

LEMMA SearchKeeps == ASSUME JournalInv, NEW t \in Tabs, Search(t) PROVE JournalInv'
<1>1. PICK n : n = tracked[t]
  OBVIOUS
<1>2. PICK answer \in Answers(n) :
        CASE answer = "finalized" -> Observed(t, "apply", Outcome(n))
          [] answer = "null" -> Observed(t, "account", "flying")
          [] OTHER -> Observed(t, "apply", "flying")
  BY <1>1 DEF Search
<1>3. n \in Attempts /\ root > expiry[n]
  BY <1>1 DEF Search, Polling, JournalInv, PollsOK, PollOK
<1>4. CASE answer = "finalized"
  <2>1. Observed(t, "apply", Outcome(n)) /\ Rooted(n)
    BY <1>2, <1>4, AnswersTrue
  <2>2. PICK verdict : verdict = Outcome(n) /\ verdict \in Final /\ TrueOf(n, verdict)
    BY <2>1, OutcomeIsTrue
  <2> QED BY <1>1, <1>3, <2>1, <2>2, ObservedKeeps
<1>5. CASE answer # "finalized"
  <2>1. Observed(t, "apply", "flying") \/ Observed(t, "account", "flying")
    BY <1>2, <1>5
  <2>2. TrueOf(n, "flying")
    BY DEF TrueOf
  <2> QED BY <1>1, <1>3, <2>1, <2>2, ObservedKeeps
<1> QED BY <1>4, <1>5

LEMMA MeasureKeeps == ASSUME JournalInv, NEW t \in Tabs, Measure(t) PROVE JournalInv'
<1>1. PICK n : n = tracked[t] /\ n \in Attempts
  BY DEF Measure, Polling
<1>2. (root > expiry[n] /\ Observed(t, "history", "flying")) \/ Observed(t, "apply", "flying")
  BY <1>1 DEF Measure, Dead
<1>3. TrueOf(n, "flying")
  BY DEF TrueOf
<1> QED BY <1>1, <1>2, <1>3, ObservedKeeps

\* What succeeded did so before the root that outlived it, and the account shows it.
LEMMA JudgeKeeps == ASSUME JournalInv, NEW t \in Tabs, Judge(t) PROVE JournalInv'
<1>1. PICK n : n = tracked[t] /\ n \in Attempts /\ root > expiry[n]
  BY DEF Judge, Polling, JournalInv, PollsOK, PollOK
<1>2. CASE n \in Unprovable
  <2>1. Observed(t, "apply", "flying") /\ TrueOf(n, "flying")
    BY <1>1, <1>2 DEF Judge, TrueOf
  <2> QED BY <1>1, <2>1, ObservedKeeps
<1>3. CASE n \notin Unprovable /\ Taken
  <2>1. Observed(t, "apply", "reconciled") /\ TrueOf(n, "reconciled")
    BY <1>1, <1>3 DEF Judge, TrueOf
  <2> QED BY <1>1, <2>1, ObservedKeeps DEF Final
<1>4. CASE n \notin Unprovable /\ ~Taken
  <2>1. n \notin worked
    BY <1>1, <1>4 DEF Taken, JournalInv, LedgerOK, JournalTypeOK
  <2>2. Observed(t, "apply", "expired") /\ TrueOf(n, "expired")
    BY <1>1, <1>4, <2>1 DEF Judge, TrueOf
  <2> QED BY <1>1, <2>2, ObservedKeeps DEF Final
<1> QED BY <1>2, <1>3, <1>4

\* Who has an outcome cannot change the account any more.
LEMMA DecidedSettles ==
  ASSUME LedgerOK, JournalTypeOK, NEW n \in Attempts, NEW v \in Final, TrueOf(n, v)
  PROVE  Settled(n)
<1>1. CASE v \in {"finalized", "failed"}
  <2>1. Rooted(n)
    BY <1>1 DEF TrueOf
  <2> QED BY <2>1 DEF Settled
<1>2. CASE v \in {"expired", "reconciled"}
  <2>1. root > expiry[n]
    BY <1>2 DEF TrueOf
  <2> QED BY <2>1 DEF Settled, Rooted, Gone, LedgerOK, JournalTypeOK
<1> QED BY <1>1, <1>2 DEF Final

LEMMA ApplyKeeps == ASSUME JournalInv, NEW t \in Tabs, Apply(t) PROVE JournalInv'
<1> USE DEF JournalInv
<1>0. PICK n, v : n = poll[t].of /\ v = poll[t].verdict
  OBVIOUS
<1>1. /\ poll[t].step = "apply" /\ holder = None /\ history' = Noted(history, n, v)
      /\ journal' = (IF v \in Final /\ journal = n THEN None ELSE journal)
      /\ tracked' = (IF v \in Final /\ tracked[t] = n THEN [tracked EXCEPT ![t] = None] ELSE tracked)
      /\ poll' = [poll EXCEPT ![t] = NoPoll]
      /\ UNCHANGED <<holder, exec, seen, crashes, clears>> /\ Quiet /\ wire' = wire /\ expiry' = expiry
  BY <1>0 DEF Apply, SetJournal, Quiet
<1>2. n \in Attempts /\ v \in Final \cup {"flying"} /\ TrueOf(n, v)
  BY <1>0, <1>1 DEF PollsOK, PollOK, JournalTypeOK
<1>3. /\ history' \in [Attempts -> Statuses]
      /\ \A m \in Attempts : history'[m] = history[m] \/ (m = n /\ history'[m] = v /\ Signed(history[m]))
  BY <1>1, <1>2 DEF Noted, JournalTypeOK, Statuses
<1>4. /\ \A u \in Tabs : poll'[u] = IF u = t THEN NoPoll ELSE poll[u]
      /\ \A u \in Tabs : tracked'[u] = tracked[u] \/ (u = t /\ tracked'[u] = None)
      /\ tracked' \in [Tabs -> Attempts \cup {None, Unknown}]
  BY <1>1 DEF JournalTypeOK
<1>5. JournalTypeOK'
  <2>1. poll' \in [Tabs -> PollStates]
    BY <1>1 DEF JournalTypeOK, PollStates, NoPoll
  <2>2. news' \in [Tabs -> BOOLEAN]
    BY DEF Apply, SetJournal, JournalTypeOK
  <2>3. LockHeld'
    BY <1>1 DEF JournalTypeOK, LockHeld
  <2> QED BY <1>1, <1>3, <1>4, <2>1, <2>2, <2>3 DEF JournalTypeOK, PollStates, Quiet, chain
<1>6. NoNewMark
  <2> SUFFICES ASSUME NEW m \in Attempts, Marked(m)' PROVE Marked(m)
    BY DEF NoNewMark
  <2>1. m # None
    BY JournalAssumption
  <2>2. \/ wire'[m] # "none" \/ journal' = m \/ Signed(history'[m])
        \/ \E u \in Tabs : tracked'[u] = m \/ poll'[u].of = m \/ (seen'[u] # Unknown /\ m \in seen'[u])
    BY Zenon DEF Marked, Signed
  <2> QED BY <1>1, <1>3, <1>4, <2>1, <2>2 DEF Marked, NoPoll
<1>7. NoNewOpen
  BY <1>1, NothingOpens
<1>8. ExecsOK'
  <2>1. \A m \in Attempts : history'[m] \in {"draft", "unsent"} => history[m] \in {"draft", "unsent"}
    BY <1>2, <1>3 DEF Final
  <2> QED BY <1>1, <1>6, <2>1, ExecsCarried
<1>9. HistoryMoves /\ PollsMove
  BY <1>2, <1>3, <1>4 DEF HistoryMoves, PollsMove
<1>10. JournalMoves
  <2>1. CASE v \in Final /\ journal = n
    <3>1. ~Open(n)
      BY <1>2, <2>1, DecidedSettles DEF Open
    <3> QED BY <2>1, <3>1 DEF JournalMoves
  <2>2. CASE ~(v \in Final /\ journal = n)
    BY <1>1, <2>2 DEF JournalMoves
  <2> QED BY <2>1, <2>2
<1> HIDE DEF JournalInv
<1> QED BY <1>1, <1>5, <1>6, <1>7, <1>8, <1>9, <1>10, QuietKeeps

LEMMA RetryKeeps == ASSUME JournalInv, NEW t \in Tabs, Retry(t) PROVE JournalInv'
<1> USE DEF JournalInv
<1>1. /\ poll' = [poll EXCEPT ![t] = NoPoll]
      /\ UNCHANGED <<journal, history, holder, tracked, news, exec, seen, crashes, clears>>
      /\ Quiet /\ wire' = wire /\ expiry' = expiry
  BY DEF Retry, Quiet
<1>2. \A u \in Tabs : poll'[u] = IF u = t THEN NoPoll ELSE poll[u]
  BY <1>1 DEF JournalTypeOK
<1>3. JournalTypeOK'
  <2>1. poll' \in [Tabs -> PollStates]
    BY <1>1 DEF JournalTypeOK, PollStates, NoPoll
  <2>2. LockHeld'
    BY <1>1 DEF JournalTypeOK, LockHeld
  <2> QED BY <1>1, <2>1, <2>2 DEF JournalTypeOK, PollStates, Quiet, chain
<1>4. NoNewMark
  BY <1>1, <1>2, JournalAssumption DEF NoNewMark, Marked, NoPoll
<1>5. NoNewOpen
  BY <1>1, NothingOpens
<1>6. ExecsOK'
  BY <1>1, <1>4, ExecsCarried
<1>7. HistoryMoves /\ PollsMove /\ JournalMoves
  BY <1>1, <1>2 DEF HistoryMoves, PollsMove, JournalMoves
<1> HIDE DEF JournalInv
<1> QED BY <1>1, <1>3, <1>4, <1>5, <1>6, <1>7, QuietKeeps

-----------------------------------------------------------------------------
(* Steps of the server, the other device and the ledger *)

\* What is decided stays so.
Onwards ==
  /\ root' \in Nat /\ root <= root' /\ worked \subseteq worked'
  /\ \A n \in Attempts : expiry[n] # 0 =>
       /\ expiry'[n] = expiry[n]
       /\ landed[n] # 0 => landed'[n] = landed[n] /\ (n \in worked' => n \in worked)
       /\ landed[n] = 0 /\ root > expiry[n] => landed'[n] = 0 /\ (n \in worked' => n \in worked)

LEMMA OnwardTaken == ASSUME JournalTypeOK, LedgerOK, Onwards, Taken PROVE Taken'
<1>1. PICK n \in worked \ Unprovable : landed[n] <= root
  BY DEF Taken
<1>2. n \in Attempts /\ landed[n] # 0 /\ expiry[n] # 0
  BY <1>1 DEF JournalTypeOK, LedgerOK
<1>3. n \in worked' /\ landed'[n] = landed[n] /\ landed[n] \in Nat /\ root \in Nat
  BY <1>1, <1>2 DEF Onwards, JournalTypeOK
<1>4. landed'[n] <= root'
  BY <1>1, <1>3 DEF Onwards
<1> QED BY <1>3, <1>4 DEF Taken

LEMMA OnwardTruth ==
  ASSUME JournalTypeOK, LedgerOK, Onwards, NEW n \in Attempts, expiry[n] # 0, NEW status, TrueOf(n, status)
  PROVE  TrueOf(n, status)'
<1>1. /\ landed[n] \in Nat /\ root \in Nat /\ expiry[n] \in Nat /\ root' \in Nat /\ root <= root'
      /\ expiry'[n] = expiry[n]
  BY DEF JournalTypeOK, Onwards
<1>2. Rooted(n) => Rooted(n)' /\ (n \in worked' <=> n \in worked)
  BY <1>1 DEF Rooted, Onwards
<1>3. root > expiry[n] => root' > expiry'[n] /\ (n \in worked' => n \in worked)
  BY <1>1 DEF Onwards
<1>4. Taken => Taken'
  BY OnwardTaken
<1>5. \A s : s = status => TrueOf(n, s)
  OBVIOUS
<1>6. /\ status = "finalized" => n \in worked' /\ Rooted(n)'
      /\ status = "failed" => n \notin worked' /\ Rooted(n)'
      /\ status = "expired" => n \notin worked' /\ root' > expiry'[n]
      /\ status = "reconciled" => Taken' /\ root' > expiry'[n]
  BY <1>2, <1>3, <1>4 DEF TrueOf
<1> QED BY <1>6, Zenon DEF TrueOf

LEMMA OutsideKeeps ==
  ASSUME JournalInv, JournalTypeOK', LedgerOK', Onwards, UNCHANGED <<browser, seen, clears>>,
         \A n \in Attempts : wire'[n] # "none" => wire[n] # "none" \/ (n \in Foreign /\ expiry'[n] # 0),
         \A n \in Own : expiry'[n] = expiry[n]
  PROVE  JournalInv'
<1> USE DEF JournalInv
<1>0. UNCHANGED <<journal, history, holder, tracked, news, exec, poll, seen, clears>>
  BY DEF browser
<1>1. ASSUME NEW n \in Attempts, Marked(n)' PROVE Marked(n) \/ (n \in Foreign /\ expiry'[n] # 0)
  BY <1>0, <1>1 DEF Marked
<1>2. MarksOK'
  <2> SUFFICES ASSUME NEW n \in Attempts, Marked(n)' PROVE expiry'[n] # 0
    BY Zenon DEF MarksOK
  <2>1. CASE Marked(n)
    BY <2>1 DEF MarksOK, Onwards
  <2> QED BY <1>1, <2>1
<1>3. ASSUME NEW n \in Own, Marked(n)' PROVE Marked(n)
  BY <1>1, <1>3, JournalAssumption DEF Attempts
<1>4. DraftsOK'
  <2> SUFFICES ASSUME NEW n \in Attempts, history'[n] \in {"draft", "unsent"} PROVE n \in Own /\ ~Marked(n)'
    BY Zenon DEF DraftsOK
  <2> QED BY <1>0, <1>3 DEF DraftsOK
<1>5. ExecsOK'
  <2>1. ASSUME NEW u \in Tabs PROVE ExecOK(exec[u])'
    <3>0. PICK x, n : x = exec[u] /\ n = x.attempt /\ x = exec'[u]
      BY <1>0
    <3>1. ExecOK(x) /\ n \in Own \cup {None}
      <4>1. ExecOK(exec[u]) /\ exec[u].attempt \in Own \cup {None}
        BY DEF ExecsOK, JournalTypeOK
      <4> QED BY <3>0, <4>1
    <3>2. x.step # "idle" => n \in Own
      BY <3>0, <3>1 DEF ExecOK
    <3>3. x.step \in Early => n \in Own /\ ~Marked(n)
      BY <3>0, <3>1, <3>2 DEF ExecOK, Early
    <3>4. x.step \in Early => ~Marked(n)'
      BY <1>3, <3>3
    <3>5. x.step # "idle" => expiry'[n] = expiry[n] /\ (wire[n] = "none" => wire'[n] = "none")
      BY <3>2, JournalAssumption DEF Attempts
    <3>6. /\ x.step = "idle" <=> n = None
          /\ x.step = "preparing" => expiry'[n] = 0
          /\ x.step \in {"awaiting"} \cup Late => expiry'[n] # 0
          /\ x.step \in {"preparing", "awaiting"} => journal' = None
          /\ x.step \in Late => history'[n] \notin {"draft", "unsent"}
          /\ x.step = "journaled" => wire'[n] = "none"
      BY <1>0, <3>0, <3>1, <3>5 DEF ExecOK, Late
    <3>7. x.step \in Early => ~Marked(exec[u].attempt)'
      BY <3>0, <3>4, Zenon DEF Marked
    <3> QED BY <3>0, <3>6, <3>7 DEF ExecOK
  <2> QED BY <1>0, <2>1 DEF ExecsOK
<1>6. StatusTrue'
  <2>1. ASSUME NEW n \in Attempts PROVE TrueOf(n, history[n])'
    <3>0. PICK s : s = history[n] /\ s = history'[n]
      BY <1>0
    <3>1. TrueOf(n, s)
      BY <3>0, StatusApart
    <3>2. CASE s \in Final
      <4>1. expiry[n] # 0
        BY <3>0, <3>2 DEF MarksOK, Marked, Signed
      <4>2. TrueOf(n, s)'
        BY <3>1, <4>1, OnwardTruth
      <4> QED BY <3>0, <4>2, Zenon DEF TrueOf
    <3>3. CASE s \notin Final
      BY <3>0, <3>3 DEF TrueOf, Final
    <3> QED BY <3>2, <3>3
  <2> QED BY <2>1, Zenon DEF StatusTrue, TrueOf
<1>7. PollsOK'
  <2>1. ASSUME NEW u \in Tabs PROVE PollOK(poll[u], tracked[u])'
    <3>0. PICK p, n, v : p = poll[u] /\ p = poll'[u] /\ n = p.of /\ v = p.verdict
      BY <1>0
    <3>1. PollOK(p, tracked[u]) /\ tracked'[u] = tracked[u] /\ n \in Attempts \cup {None}
      BY <1>0, <3>0 DEF PollsOK, JournalTypeOK
    <3>2. n \in Attempts => expiry[n] # 0
      BY <3>0 DEF MarksOK, Marked
    <3>3. n \in Attempts => expiry'[n] = expiry[n] /\ (root > expiry[n] => root' > expiry'[n])
      BY <3>2 DEF Onwards, JournalTypeOK
    <3>4. p.step = "apply" => n \in Attempts /\ TrueOf(n, v)
      BY <3>0, <3>1 DEF PollOK
    <3>5. p.step = "apply" => TrueOf(n, v)'
      BY <3>2, <3>4, OnwardTruth
    <3>6. p.step \in {"history", "account"} => n = tracked'[u] /\ n \in Attempts /\ root' > expiry'[n]
      BY <3>0, <3>1, <3>3 DEF PollOK
    <3>7. p.step = "apply" => TrueOf(poll[u].of, poll[u].verdict)'
      BY <3>0, <3>5, Zenon DEF TrueOf
    <3> QED BY <3>0, <3>4, <3>6, <3>7 DEF PollOK
  <2> QED BY <2>1 DEF PollsOK
<1>8. Remembered'
  <2>1. ASSUME NEW n \in Own, Open(n)' PROVE Open(n)
    <3>1. n \in Attempts
      BY DEF Attempts
    <3>2. wire'[n] # "none" => wire[n] # "none"
      BY <3>1, JournalAssumption
    <3>3. wire[n] # "none" \/ \E t \in Tabs : exec[t] = [step |-> "journaled", attempt |-> n]
      BY <1>0, <2>1, <3>2 DEF Open
    <3>4. expiry[n] # 0
      <4>1. CASE wire[n] # "none"
        BY <3>1, <4>1 DEF LedgerOK
      <4>2. CASE \E t \in Tabs : exec[t] = [step |-> "journaled", attempt |-> n]
        BY <4>2 DEF ExecsOK, ExecOK, Late
      <4> QED BY <3>3, <4>1, <4>2
    <3>5. Settled(n) => Settled(n)'
      BY <3>1, <3>4 DEF Onwards, Settled, Rooted, Gone, JournalTypeOK
    <3>6. ~Settled(n)'
      BY <2>1 DEF Open
    <3> QED BY <3>3, <3>5, <3>6 DEF Open
  <2> QED BY <1>0, <2>1 DEF Remembered
<1> QED BY <1>2, <1>4, <1>5, <1>6, <1>7, <1>8

\* A step outside the browser that leaves the chain and the lifetimes alone.
LEMMA RelayOnwards ==
  ASSUME JournalTypeOK, UNCHANGED <<Same, chain, expiry>>,
         receipts' \in [Attempts -> {"none", "pending", "final"}], wire' \in [Attempts -> {"none", "sent", "relayed"}]
  PROVE  JournalTypeOK' /\ Onwards
<1>1. UNCHANGED <<journal, history, holder, tracked, news, exec, poll, seen, crashes, clears>>
  BY DEF Same, browser
<1>2. UNCHANGED <<tip, root, landed, worked, expiry>>
  BY DEF chain
<1>3. LockHeld'
  BY <1>1 DEF JournalTypeOK, LockHeld
<1>4. JournalTypeOK'
  BY <1>1, <1>2, <1>3 DEF JournalTypeOK
<1>5. Onwards
  BY <1>2 DEF Onwards, JournalTypeOK
<1> QED BY <1>4, <1>5

LEMMA ReceiveKeeps == ASSUME JournalInv, NEW n \in Attempts, Receive(n) PROVE JournalInv'
<1>0. JournalTypeOK /\ LedgerOK
  BY DEF JournalInv
<1>1. /\ wire[n] = "sent" /\ UNCHANGED <<Same, chain, expiry>>
      /\ wire' \in [Attempts -> {"none", "sent", "relayed"}]
      /\ receipts' \in [Attempts -> {"none", "pending", "final"}]
      /\ \A m \in Attempts : /\ wire'[m] = IF m = n THEN "relayed" ELSE wire[m]
                             /\ receipts'[m] = IF m = n THEN "pending" ELSE receipts[m]
  BY <1>0 DEF Receive, JournalTypeOK
<1>2. JournalTypeOK' /\ Onwards
  BY <1>0, <1>1, RelayOnwards
<1>3. LedgerOK'
  BY <1>0, <1>1 DEF LedgerOK, chain
<1>4. UNCHANGED <<browser, seen, clears>> /\ \A m \in Own : expiry'[m] = expiry[m]
  BY <1>1 DEF Same
<1>5. \A m \in Attempts : wire'[m] # "none" => wire[m] # "none"
  BY <1>1
<1> QED BY <1>2, <1>3, <1>4, <1>5, OutsideKeeps

LEMMA ReconcileKeeps == ASSUME JournalInv, NEW n \in Attempts, Reconcile(n) PROVE JournalInv'
<1>0. JournalTypeOK /\ LedgerOK
  BY DEF JournalInv
<1>1. /\ receipts[n] = "pending" /\ wire' = wire /\ UNCHANGED <<Same, chain, expiry>>
      /\ wire' \in [Attempts -> {"none", "sent", "relayed"}]
      /\ receipts' \in [Attempts -> {"none", "pending", "final"}]
      /\ \A m \in Attempts : receipts'[m] = IF m = n THEN "final" ELSE receipts[m]
  BY <1>0 DEF Reconcile, JournalTypeOK
<1>2. JournalTypeOK' /\ Onwards
  BY <1>0, <1>1, RelayOnwards
<1>3. LedgerOK'
  BY <1>0, <1>1 DEF LedgerOK, chain
<1>4. UNCHANGED <<browser, seen, clears>> /\ \A m \in Own : expiry'[m] = expiry[m]
  BY <1>1 DEF Same
<1> QED BY <1>1, <1>2, <1>3, <1>4, OutsideKeeps

LEMMA ElsewhereSignsKeeps == ASSUME JournalInv, NEW n \in Attempts, ElsewhereSigns(n) PROVE JournalInv'
<1>0. JournalTypeOK /\ LedgerOK
  BY DEF JournalInv
<1>1. /\ n \in Foreign /\ wire[n] = "none" /\ expiry[n] = 0 /\ landed[n] = 0 /\ n \notin worked
      /\ UNCHANGED <<Same, receipts, chain>> /\ tip + Life \in Nat /\ tip + Life # 0
  BY <1>0, JournalAssumption DEF ElsewhereSigns, JournalTypeOK, LedgerOK
<1>2. /\ wire' \in [Attempts -> {"none", "sent", "relayed"}] /\ expiry' \in [Attempts -> Nat]
      /\ \A m \in Attempts : /\ wire'[m] = IF m = n THEN "sent" ELSE wire[m]
                             /\ expiry'[m] = IF m = n THEN tip + Life ELSE expiry[m]
  BY <1>0, <1>1 DEF ElsewhereSigns, JournalTypeOK
<1>3. UNCHANGED <<journal, history, holder, tracked, news, exec, poll, seen, crashes, clears, tip, root, landed, worked>>
  BY <1>1 DEF Same, browser, chain
<1>4. JournalTypeOK'
  <2>1. LockHeld'
    BY <1>0, <1>3 DEF JournalTypeOK, LockHeld
  <2> QED BY <1>0, <1>1, <1>2, <1>3, <2>1 DEF JournalTypeOK
<1>5. Onwards
  BY <1>0, <1>1, <1>2, <1>3 DEF Onwards, JournalTypeOK
<1>6. LedgerOK'
  BY <1>0, <1>1, <1>2, <1>3 DEF LedgerOK
<1>7. /\ \A m \in Attempts : wire'[m] # "none" => wire[m] # "none" \/ (m \in Foreign /\ expiry'[m] # 0)
      /\ \A m \in Own : expiry'[m] = expiry[m]
  BY <1>1, <1>2, JournalAssumption DEF Attempts
<1> QED BY <1>1, <1>4, <1>5, <1>6, <1>7, OutsideKeeps DEF Same

\* Only what has not outlived its root lands, so no verdict of an expiry is contradicted.
LEMMA LandKeeps == ASSUME JournalInv, NEW n \in Attempts, Land(n) PROVE JournalInv'
<1>0. JournalTypeOK /\ LedgerOK
  BY DEF JournalInv
<1>1. /\ wire[n] = "relayed" /\ landed[n] = 0 /\ tip <= expiry[n] /\ UNCHANGED <<Same, receipts, wire, tip, root, expiry>>
      /\ landed' \in [Attempts -> Nat] /\ \A m \in Attempts : landed'[m] = IF m = n THEN tip ELSE landed[m]
  BY <1>0 DEF Land, JournalTypeOK
<1>2. worked \subseteq worked' /\ \A m \in worked' : m \in worked \/ m = n
  BY DEF Land
<1>3. UNCHANGED <<journal, history, holder, tracked, news, exec, poll, seen, crashes, clears>>
  BY <1>1 DEF Same, browser
<1>4. root \in Nat /\ tip \in Nat \ {0} /\ root < tip /\ expiry[n] \in Nat
  BY <1>0 DEF JournalTypeOK, LedgerOK
<1>5. JournalTypeOK'
  <2>1. LockHeld'
    BY <1>0, <1>3 DEF JournalTypeOK, LockHeld
  <2>2. worked' \in SUBSET Attempts
    BY <1>0, <1>2 DEF JournalTypeOK
  <2> QED BY <1>0, <1>1, <1>3, <2>1, <2>2 DEF JournalTypeOK
<1>6. Onwards
  BY <1>1, <1>2, <1>4 DEF Onwards
<1>7. LedgerOK'
  BY <1>0, <1>1, <1>2, <1>4 DEF LedgerOK, JournalTypeOK
<1> QED BY <1>1, <1>5, <1>6, <1>7, OutsideKeeps DEF Same

LEMMA BlocksKeep == ASSUME JournalInv, Advance \/ Finalize PROVE JournalInv'
<1>0. JournalTypeOK /\ LedgerOK
  BY DEF JournalInv
<1>1. /\ UNCHANGED <<Same, receipts, wire, expiry, landed, worked>>
      /\ tip' \in Nat \ {0} /\ root' \in Nat /\ root <= root' /\ root' < tip'
  BY <1>0 DEF Advance, Finalize, JournalTypeOK, LedgerOK
<1>2. UNCHANGED <<journal, history, holder, tracked, news, exec, poll, seen, crashes, clears>>
  BY <1>1 DEF Same, browser
<1>3. JournalTypeOK'
  <2>1. LockHeld'
    BY <1>0, <1>2 DEF JournalTypeOK, LockHeld
  <2> QED BY <1>0, <1>1, <1>2, <2>1 DEF JournalTypeOK
<1>4. Onwards /\ LedgerOK'
  BY <1>0, <1>1 DEF Onwards, LedgerOK
<1> QED BY <1>1, <1>3, <1>4, OutsideKeeps DEF Same

LEMMA StutterKeeps == ASSUME JournalInv, UNCHANGED journalVars PROVE JournalInv'
<1>0. JournalTypeOK /\ LedgerOK
  BY DEF JournalInv
<1>1. UNCHANGED <<Same, chain, expiry>> /\ receipts' = receipts /\ wire' = wire
  BY DEF journalVars, Same
<1>2. JournalTypeOK' /\ Onwards
  BY <1>0, <1>1, RelayOnwards DEF JournalTypeOK
<1>3. LedgerOK'
  BY <1>0, <1>1 DEF LedgerOK, chain
<1> QED BY <1>1, <1>2, <1>3, OutsideKeeps DEF Same

LEMMA JournalKeeps == JournalInv /\ [JournalNext]_journalVars => JournalInv'
<1> SUFFICES ASSUME JournalInv, [JournalNext]_journalVars PROVE JournalInv'
  OBVIOUS
<1>1. CASE UNCHANGED journalVars
  BY <1>1, StutterKeeps
<1>2. CASE OutsideStep
  <2>1. CASE Clear \/ Advance \/ Finalize
    BY <2>1, ClearKeeps, BlocksKeep
  <2>2. CASE \E n \in Attempts : Receive(n) \/ Reconcile(n) \/ ElsewhereSigns(n) \/ Land(n)
    BY <2>2, ReceiveKeeps, ReconcileKeeps, ElsewhereSignsKeeps, LandKeeps
  <2> QED BY <1>2, <2>1, <2>2 DEF OutsideStep
<1>3. ASSUME NEW t \in Tabs, TabStep(t) PROVE JournalInv'
  <2>1. CASE Restore(t) \/ Fetch(t) \/ Recover(t) \/ Reload(t) \/ Adopt(t)
    BY <2>1, RestoreKeeps, FetchKeeps, RecoverKeeps, ReloadKeeps, AdoptKeeps
  <2>2. CASE \E n \in Own : Begin(t, n)
    BY <2>2, BeginKeeps
  <2>3. CASE Ask(t) \/ Save(t) \/ Post(t) \/ Done(t) \/ Fail(t) \/ NoteFailure(t)
    BY <2>3, AskKeeps, SaveKeeps, PostKeeps, DoneKeeps, FailKeeps, NoteFailureKeeps
  <2>4. CASE Look(t) \/ Measure(t) \/ Search(t) \/ Judge(t) \/ Apply(t) \/ Retry(t)
    BY <2>4, LookKeeps, MeasureKeeps, SearchKeeps, JudgeKeeps, ApplyKeeps, RetryKeeps
  <2> QED BY <1>3, <2>1, <2>2, <2>3, <2>4 DEF TabStep
<1> QED BY <1>1, <1>2, <1>3 DEF JournalNext

\* While an approval is in progress its tab holds the lock, and the journal is empty.
LEMMA ApprovalStep ==
  ASSUME JournalInv, [JournalNext]_journalVars, NEW t \in Tabs, exec[t].step \in {"preparing", "awaiting"},
         exec'[t] = exec[t], clears' = clears
  PROVE  history'[exec[t].attempt] = history[exec[t].attempt]
<1>0. JournalTypeOK
  BY DEF JournalInv
<1>1. holder = t /\ holder # None /\ \A u \in Tabs : u # t => exec[u].step \notin {"preparing", "awaiting"} \cup Late
  BY <1>0, OthersWait, JournalAssumption
<1>2. journal = None
  BY DEF JournalInv, ExecsOK, ExecOK
<1>3. CASE UNCHANGED journalVars
  BY <1>3 DEF journalVars, browser
<1>4. CASE OutsideStep
  <2>1. ~Clear
    BY <1>0 DEF Clear, JournalTypeOK
  <2>2. history' = history
    BY <1>4, <2>1 DEF OutsideStep, Advance, Finalize, Receive, Reconcile, ElsewhereSigns, Land, Same, browser
  <2> QED BY <2>2
<1>5. ASSUME NEW u \in Tabs, TabStep(u) PROVE history'[exec[t].attempt] = history[exec[t].attempt]
  <2>1. CASE Restore(u)
    BY <1>1, <1>2, <2>1 DEF Restore, Interrupts
  <2>2. CASE Recover(u) \/ Apply(u) \/ \E n \in Own : Begin(u, n)
    BY <1>1, <2>2 DEF Recover, Apply, Begin
  <2>3. CASE Save(u) \/ Done(u)
    <3>1. exec[u].step \in {"preparing", "awaiting"} \cup Late
      BY <2>3 DEF Save, Done, Late
    <3>2. u = t
      BY <1>1, <3>1
    <3>3. exec'[u].step \in {"journaled", "idle"}
      BY <1>0, <2>3 DEF Save, Done, NoExec, JournalTypeOK
    <3> QED BY <3>2, <3>3
  <2>4. CASE NoteFailure(u)
    BY <1>1, <2>4 DEF NoteFailure
  <2>5. CASE Fetch(u) \/ Reload(u) \/ Adopt(u) \/ Ask(u) \/ Post(u) \/ Fail(u) \/ Retry(u)
    BY <2>5 DEF Fetch, Reload, Adopt, Ask, Post, Fail, Retry, browser
  <2>6. CASE Look(u) \/ Measure(u) \/ Search(u) \/ Judge(u)
    <3>1. \E step, verdict : Observed(u, step, verdict)
      <4>1. CASE Look(u)
        <5>1. PICK answer : CASE answer = "finalized" -> Observed(u, "apply", Outcome(tracked[u]))
                              [] answer = "confirmed" -> Observed(u, "apply", "flying")
                              [] OTHER -> Observed(u, "height", "flying")
          BY <4>1 DEF Look
        <5> QED BY <5>1
      <4>2. CASE Search(u)
        <5>1. PICK answer : CASE answer = "finalized" -> Observed(u, "apply", Outcome(tracked[u]))
                              [] answer = "null" -> Observed(u, "account", "flying")
                              [] OTHER -> Observed(u, "apply", "flying")
          BY <4>2 DEF Search
        <5> QED BY <5>1
      <4>3. CASE Measure(u)
        BY <4>3 DEF Measure
      <4>4. CASE Judge(u)
        BY <4>4 DEF Judge
      <4> QED BY <2>6, <4>1, <4>2, <4>3, <4>4
    <3> QED BY <3>1 DEF Observed
  <2> QED BY <1>5, <2>1, <2>2, <2>3, <2>4, <2>5, <2>6 DEF TabStep
<1> QED BY <1>3, <1>4, <1>5 DEF JournalNext

-----------------------------------------------------------------------------
(* Theorems *)

\* In every reachable state the invariant holds: whatever the tabs do, and however they are
\* reloaded, their storage erased or their answers lost.
THEOREM JournalAlways == JournalSpec => []JournalInv
BY InitJournal, JournalKeeps, PTL DEF JournalSpec

\* The types of the state, and the lock held exactly from the start of an execute to its
\* answer (useTransaction.ts, the Web Lock).
THEOREM JournalTypes == JournalSpec => []JournalTypeOK
<1>1. JournalInv => JournalTypeOK
  BY DEF JournalInv
<1> QED BY <1>1, JournalAlways, PTL

\* As long as the storage is not erased, a signature of this browser that may still take
\* effect is the record of the journal (useTransaction.ts, journal before submit).
THEOREM SignaturesRemembered == JournalSpec => []Remembered
<1>1. JournalInv => Remembered
  BY DEF JournalInv
<1> QED BY <1>1, JournalAlways, PTL

\* And so two of them are never in the air together.
THEOREM OneInTheAir == JournalSpec => []OneAtATime
<1>1. JournalInv => OneAtATime
  BY DEF JournalInv, Remembered, OneAtATime
<1> QED BY <1>1, JournalAlways, PTL

\* A final status in the history is true of the ledger, when written and ever after
\* (reconcile.ts: root, history and account in that order).
THEOREM StatusesAreTrue == JournalSpec => []StatusTrue
<1>1. JournalInv => StatusTrue
  BY DEF JournalInv
<1> QED BY <1>1, JournalAlways, PTL

\* What the history calls interrupted or not submitted was never sent and is not in the
\* journal (storage.ts, recoverInterrupted).
THEOREM UnsentIsTrue == JournalSpec => []UnsentTrue
<1>1. JournalInv => UnsentTrue
  BY DEF JournalInv, DraftsOK, Marked, UnsentTrue
<1> QED BY <1>1, JournalAlways, PTL

\* No other tab touches the attempt whose approval is in progress (storage.ts:85).
THEOREM ApprovalsKept == JournalSpec => ApprovalKept
<1>1. JournalInv /\ [JournalNext]_journalVars =>
        [\A t \in Tabs : exec[t].step \in {"preparing", "awaiting"} /\ exec'[t] = exec[t] /\ clears' = clears
           => history'[exec[t].attempt] = history[exec[t].attempt]]_journalVars
  BY ApprovalStep
<1> QED BY <1>1, JournalAlways, PTL DEF JournalSpec, ApprovalKept
=============================================================================
