------------------------------- MODULE Journal --------------------------------
(***************************************************************************)
(* One wallet's signed operations in one browser (useTransaction.ts,       *)
(* journal.ts, activity/storage.ts, reconcile.ts).  Tabs share a journal   *)
(* that holds at most one signature, a history of attempts, and a Web Lock *)
(* that is never waited for.  Tabs reload at any moment, storage events    *)
(* arrive late, the answer of a submission may be lost, and a signature    *)
(* may land at any height up to its last valid one.  Attempts of Foreign   *)
(* are signed by the same wallet on another device.                        *)
(***************************************************************************)
EXTENDS Naturals, FiniteSets

CONSTANTS
  Tabs, Own, Foreign,
  Unprovable,  \* attempts whose effect the agreement cannot show: cleanups, which can be
               \* repeated, and creations of an identity that other terms have
  Life,        \* blocks for which a blockhash is valid
  MaxHeight,   \* bound: the last block
  MaxLag,      \* bound: blocks the finalized root lags behind
  MaxCrashes,  \* bound: reloads of a tab
  MaxClears,   \* bound: times the user erases the site's storage
  None, Unknown

Attempts == Own \cup Foreign

ASSUME JournalAssumption ==
  /\ Own \cap Foreign = {} /\ Unprovable \subseteq Attempts
  /\ {None, Unknown} \cap (Attempts \cup Tabs) = {} /\ None # Unknown
  /\ Life \in Nat /\ MaxHeight \in Nat /\ MaxLag \in Nat /\ MaxCrashes \in Nat /\ MaxClears \in Nat

VARIABLES
  journal,   \* localStorage: the signature being tracked, or None
  history,   \* localStorage: status of every attempt
  holder,    \* the tab whose execute holds the Web Lock, or None
  tracked,   \* per tab: tracking.pending; Unknown before the tab has restored it
  news,      \* per tab: a storage event is on its way
  seen,      \* per tab: the server's in-flight receipts at the last fetch, or Unknown
  exec,      \* per tab: where execute is, and on which attempt
  poll,      \* per tab: where poll is, on which signature, with what verdict
  receipts,  \* server: what it knows of every attempt
  wire,      \* the way of every submission
  tip, root, \* the block being produced, the last finalized block
  expiry,    \* lastValidBlockHeight of every attempt, 0 before it has one
  landed,    \* block that includes the attempt, 0 when none
  worked,    \* attempts that landed without an error
  crashes, clears

browser == <<journal, history, holder, tracked, news, exec, poll>>
chain   == <<tip, root, landed, worked>>
journalVars == <<browser, seen, receipts, wire, chain, expiry, crashes, clears>>

\* The statuses that no guard tells apart are one: "draft" is preparing and awaiting-
\* signature, "unsent" is interrupted and not-submitted, "flying" is pending, provisional
\* and unresolved.
Final    == {"finalized", "failed", "expired", "reconciled"}
Statuses == Final \cup {"absent", "draft", "unsent", "flying"}
Signed(status) == status \in Final \cup {"flying"}

NoPoll == [step |-> "start", of |-> None, verdict |-> "flying"]
NoExec == [step |-> "idle", attempt |-> None]

JournalInit ==
  /\ journal = None /\ history = [n \in Attempts |-> "absent"] /\ holder = None
  /\ tracked = [t \in Tabs |-> Unknown] /\ news = [t \in Tabs |-> FALSE]
  /\ seen = [t \in Tabs |-> Unknown]
  /\ exec = [t \in Tabs |-> NoExec] /\ poll = [t \in Tabs |-> NoPoll]
  /\ receipts = [n \in Attempts |-> "none"] /\ wire = [n \in Attempts |-> "none"]
  /\ tip = 1 /\ root = 0
  /\ expiry = [n \in Attempts |-> 0] /\ landed = [n \in Attempts |-> 0] /\ worked = {}
  /\ crashes = 0 /\ clears = 0

-----------------------------------------------------------------------------
(* Storage *)

\* Writing the journal: the other tabs get a storage event if its value changes.
SetJournal(t, record) ==
  /\ journal' = record
  /\ news' = [u \in Tabs |-> news[u] \/ (u # t /\ record # journal)]

\* saveActivity of a journaled record whose signature the history does not have.
Recorded(h, n) == IF Signed(h[n]) THEN h ELSE [h EXCEPT ![n] = "flying"]

\* updateActivity by signature: an entry the history does not have is not added.
Noted(h, n, status) == IF Signed(h[n]) THEN [h EXCEPT ![n] = status] ELSE h

SlipInterrupts(h) == [n \in Attempts |-> IF h[n] = "draft" THEN "unsent" ELSE h[n]]

\* recoverInterrupted, skipped while another tab owns the lock.
Interrupts(h) ==
  IF holder = None THEN [n \in Attempts |-> IF h[n] = "draft" THEN "unsent" ELSE h[n]]
  ELSE h

\* The signatures a tab could take up: mergeActivity of the history with the fetched
\* receipts, in flight and with a signature.
Recoverable(t) ==
  LET remote == IF seen[t] = Unknown THEN {} ELSE seen[t]
  IN  {n \in Attempts : history[n] = "flying" \/ (n \in remote /\ history[n] \notin Final)}

\* A tracked record replaced or dropped cancels the poll, except for a lock request that
\* is already on its way.
Track(t, record) ==
  /\ tracked' = [tracked EXCEPT ![t] = record]
  /\ \E kept \in {NoPoll} \cup {p \in {poll[t]} : p.step = "apply"} :
       poll' = [poll EXCEPT ![t] = kept]

-----------------------------------------------------------------------------
(* Mounting, reloading and recovering *)

\* restore: on mount, and on a storage event of the journal.
Restore(t) ==
  /\ tracked[t] = Unknown \/ news[t]
  /\ Track(t, journal)
  /\ news' = [news EXCEPT ![t] = FALSE]
  /\ history' = Interrupts(IF journal = None THEN history ELSE Recorded(history, journal))
  /\ UNCHANGED <<journal, holder, exec, seen, receipts, wire, chain, expiry, crashes, clears>>

\* The request of useActivity: the receipts the server still follows.
Fetch(t) ==
  /\ seen' = [seen EXCEPT ![t] = {n \in Attempts : receipts[n] = "pending"}]
  /\ UNCHANGED <<browser, receipts, wire, chain, expiry, crashes, clears>>

\* The recovery effect: a signature in flight that the journal does not hold is taken up.
Recover(t) ==
  /\ tracked[t] = None /\ exec[t] = NoExec /\ holder = None
  /\ \E n \in Recoverable(t) :
       LET record == IF journal # None THEN journal ELSE n IN
       /\ SetJournal(t, record)
       /\ history' = Recorded(history, record)
       /\ Track(t, record)
  /\ UNCHANGED <<holder, exec, seen, receipts, wire, chain, expiry, crashes, clears>>

\* The page is closed or reloaded at any point: its memory is gone and its lock released.
Reload(t) ==
  /\ crashes < MaxCrashes /\ crashes' = crashes + 1
  /\ tracked' = [tracked EXCEPT ![t] = Unknown] /\ news' = [news EXCEPT ![t] = FALSE]
  /\ seen' = [seen EXCEPT ![t] = Unknown]
  /\ exec' = [exec EXCEPT ![t] = NoExec] /\ poll' = [poll EXCEPT ![t] = NoPoll]
  /\ holder' = IF holder = t THEN None ELSE holder
  /\ UNCHANGED <<journal, history, receipts, wire, chain, expiry, clears>>

\* The user erases the site's data; every tab is told (event.key is null).
Clear ==
  /\ clears < MaxClears /\ clears' = clears + 1
  /\ journal' = None /\ history' = [n \in Attempts |-> "absent"]
  /\ news' = [t \in Tabs |-> TRUE]
  /\ UNCHANGED <<holder, tracked, exec, poll, seen, receipts, wire, chain, expiry, crashes>>

-----------------------------------------------------------------------------
(* execute *)

Idle(t) == tracked[t] = None /\ exec[t] = NoExec

\* An attempt that exists in the journal after all is adopted, and nothing is signed.
Adopt(t) ==
  /\ Idle(t) /\ holder = None /\ journal # None
  /\ Track(t, journal)
  /\ UNCHANGED <<journal, history, holder, news, exec, seen, receipts, wire, chain, expiry, crashes, clears>>

\* Attempt ids are fresh (crypto.randomUUID).
Fresh(n) == /\ n \in Own /\ history[n] = "absent" /\ expiry[n] = 0
            /\ \A t \in Tabs : exec[t].attempt # n

SlipBegin(t, n) ==
  /\ Idle(t) /\ holder = None
  /\ seen[t] # Unknown /\ (news[t] \/ Recoverable(t) = {})
  /\ Fresh(n)
  /\ holder' = t
  /\ exec' = [exec EXCEPT ![t] = [step |-> "preparing", attempt |-> n]]
  /\ history' = [history EXCEPT ![n] = "draft"]
  /\ UNCHANGED <<journal, tracked, news, poll, seen, receipts, wire, chain, expiry, crashes, clears>>

\* The lock is free, the journal empty and the server's list read without a signature in
\* flight: the attempt is saved and the transaction built and compared with the review.  The
\* list is the one last rendered, so a tab that a storage event has yet to reach may act on
\* an older one.
Begin(t, n) ==
  /\ Idle(t) /\ holder = None /\ journal = None
  /\ seen[t] # Unknown /\ (news[t] \/ Recoverable(t) = {})
  /\ Fresh(n)
  /\ holder' = t
  /\ exec' = [exec EXCEPT ![t] = [step |-> "preparing", attempt |-> n]]
  /\ history' = [history EXCEPT ![n] = "draft"]
  /\ UNCHANGED <<journal, tracked, news, poll, seen, receipts, wire, chain, expiry, crashes, clears>>

\* prepareTransaction up to the wallet: a blockhash, and beforeSign.
Ask(t) ==
  LET n == exec[t].attempt IN
  /\ exec[t].step = "preparing"
  /\ tip + Life + 1 < MaxHeight
  /\ expiry' = [expiry EXCEPT ![n] = tip + Life]
  /\ exec' = [exec EXCEPT ![t].step = "awaiting"]
  /\ UNCHANGED <<journal, history, holder, tracked, news, poll, seen, receipts, wire, chain, crashes, clears>>

SlipSave(t) ==
  LET n == exec[t].attempt IN
  /\ exec[t].step = "awaiting"
  /\ wire' = [wire EXCEPT ![n] = "sent"]
  /\ exec' = [exec EXCEPT ![t].step = "journaled"]
  /\ history' = [history EXCEPT ![n] = IF history[n] = "absent" THEN "absent" ELSE "flying"]
  /\ Track(t, n)
  /\ UNCHANGED <<journal, news, holder, seen, receipts, chain, expiry, crashes, clears>>

\* The wallet has signed the pinned bytes: the record is journaled before anything is sent.
Save(t) ==
  LET n == exec[t].attempt IN
  /\ exec[t].step = "awaiting"
  /\ SetJournal(t, n)
  /\ exec' = [exec EXCEPT ![t].step = "journaled"]
  /\ history' = [history EXCEPT ![n] = IF history[n] = "absent" THEN "absent" ELSE "flying"]
  /\ Track(t, n)
  /\ UNCHANGED <<holder, seen, receipts, wire, chain, expiry, crashes, clears>>

\* submitTransaction posts the signed bytes.
Post(t) ==
  /\ exec[t].step = "journaled"
  /\ wire' = [wire EXCEPT ![exec[t].attempt] = "sent"]
  /\ exec' = [exec EXCEPT ![t].step = "posted"]
  /\ UNCHANGED <<journal, history, holder, tracked, news, poll, seen, receipts, chain, expiry, crashes, clears>>

\* The call ends: answered, refused, timed out or lost; a write that failed after the record
\* was journaled ends here too, with nothing posted.  The lock is released.
Done(t) ==
  LET n == exec[t].attempt IN
  /\ exec[t].step \in {"journaled", "posted"}
  /\ exec' = [exec EXCEPT ![t] = NoExec] /\ holder' = None
  /\ history' = Noted(history, n, "flying")
  /\ UNCHANGED <<journal, tracked, news, poll, seen, receipts, wire, chain, expiry, crashes, clears>>

SlipFail(t) ==
  /\ exec[t].step \in {"preparing", "awaiting", "posted"}
  /\ exec' = [exec EXCEPT ![t].step = "failing"] /\ holder' = None
  /\ UNCHANGED <<journal, history, tracked, news, poll, seen, receipts, wire, chain, expiry, crashes, clears>>

\* Anything that fails before the record is journaled releases the lock ...
Fail(t) ==
  /\ exec[t].step \in {"preparing", "awaiting"}
  /\ exec' = [exec EXCEPT ![t].step = "failing"] /\ holder' = None
  /\ UNCHANGED <<journal, history, tracked, news, poll, seen, receipts, wire, chain, expiry, crashes, clears>>

\* ... and then asks for it again to note the failure, which it may not get.
NoteFailure(t) ==
  LET n == exec[t].attempt IN
  /\ exec[t].step = "failing"
  /\ exec' = [exec EXCEPT ![t] = NoExec]
  /\ history' = IF holder = None /\ history[n] # "absent" THEN [history EXCEPT ![n] = "unsent"] ELSE history
  /\ UNCHANGED <<journal, holder, tracked, news, poll, seen, receipts, wire, chain, expiry, crashes, clears>>

-----------------------------------------------------------------------------
(* poll *)

SlipDead(n) == tip > expiry[n]

\* The root has outlived the signature.
Dead(n) == root > expiry[n]

\* The effect the other attempts pursue shows in the finalized agreement.
Taken == \E n \in worked \ Unprovable : landed[n] <= root

Rooted(n) == landed[n] # 0 /\ landed[n] <= root
Outcome(n) == IF n \in worked THEN "finalized" ELSE "failed"

\* What a node may answer for a signature: it may not know it yet, or no longer.
Answers(n) ==
  {"null"} \cup (IF Rooted(n) THEN {"finalized"}
                 ELSE IF landed[n] # 0 THEN {"processed", "confirmed"} ELSE {})

Observed(t, step, verdict) ==
  /\ poll' = [poll EXCEPT ![t] = [step |-> step, of |-> tracked[t], verdict |-> verdict]]
  /\ UNCHANGED <<journal, history, holder, tracked, news, exec, seen, receipts, wire, chain, expiry, crashes, clears>>

Polling(t, step) == tracked[t] \in Attempts /\ poll[t].step = step

\* observeTransaction: the signature's status ...
Look(t) ==
  LET n == tracked[t] IN
  /\ Polling(t, "start")
  /\ \E answer \in Answers(n) :
       CASE answer = "finalized" -> Observed(t, "apply", Outcome(n))
         [] answer = "confirmed" -> Observed(t, "apply", "flying")
         [] OTHER -> Observed(t, "height", "flying")

\* ... and the finalized height, read by observeTransaction and once more by observeAction.
Measure(t) ==
  /\ Polling(t, "height")
  /\ IF Dead(tracked[t]) THEN Observed(t, "history", "flying") ELSE Observed(t, "apply", "flying")

\* The history, read again after that root.
Search(t) ==
  LET n == tracked[t] IN
  /\ Polling(t, "history")
  /\ \E answer \in Answers(n) :
       CASE answer = "finalized" -> Observed(t, "apply", Outcome(n))
         [] answer = "null" -> Observed(t, "account", "flying")
         [] OTHER -> Observed(t, "apply", "flying")

SlipJudge(t) ==
  /\ Polling(t, "account")
  /\ Observed(t, "apply", IF Taken /\ tracked[t] \notin Unprovable THEN "reconciled" ELSE "flying")

\* The agreement, at a slot no older than the root (the module Outcome is about what it
\* proves).  Of an unprovable attempt it says nothing, and the poll begins again.
Judge(t) ==
  /\ Polling(t, "account")
  /\ Observed(t, "apply", IF tracked[t] \in Unprovable THEN "flying"
                          ELSE IF Taken THEN "reconciled" ELSE "expired")

\* Under the lock: the history is updated and a decided signature leaves the journal.
Apply(t) ==
  LET n == poll[t].of   verdict == poll[t].verdict
      complete == verdict \in Final
  IN
  /\ poll[t].step = "apply" /\ holder = None
  /\ history' = Noted(history, n, verdict)
  /\ SetJournal(t, IF complete /\ journal = n THEN None ELSE journal)
  /\ tracked' = IF complete /\ tracked[t] = n THEN [tracked EXCEPT ![t] = None] ELSE tracked
  /\ poll' = [poll EXCEPT ![t] = NoPoll]
  /\ UNCHANGED <<holder, exec, seen, receipts, wire, chain, expiry, crashes, clears>>

\* A read that fails, or a lock somebody holds: the observation is dropped and made again.
Retry(t) ==
  /\ poll[t].step # "start"
  /\ poll' = [poll EXCEPT ![t] = NoPoll]
  /\ UNCHANGED <<journal, history, holder, tracked, news, exec, seen, receipts, wire, chain, expiry, crashes, clears>>

-----------------------------------------------------------------------------
(* The server, the other device and the ledger *)

Same == <<browser, seen, crashes, clears>>

\* record_submission and the relay.  (A relay that does not happen is a transaction that
\* does not land.)
Receive(n) ==
  /\ wire[n] = "sent" /\ tip <= expiry[n]
  /\ wire' = [wire EXCEPT ![n] = "relayed"]
  /\ receipts' = [receipts EXCEPT ![n] = "pending"]
  /\ UNCHANGED <<Same, chain, expiry>>

\* The server's own reconciliation (module Receipts), which keeps following an unprovable
\* attempt until it finds the signature.
Reconcile(n) ==
  /\ receipts[n] = "pending"
  /\ Rooted(n) \/ (n \notin Unprovable /\ landed[n] = 0 /\ root > expiry[n])
  /\ receipts' = [receipts EXCEPT ![n] = "final"]
  /\ UNCHANGED <<Same, wire, chain, expiry>>

ElsewhereSigns(n) ==
  /\ n \in Foreign /\ wire[n] = "none" /\ tip + Life + 1 < MaxHeight
  /\ wire' = [wire EXCEPT ![n] = "sent"]
  /\ expiry' = [expiry EXCEPT ![n] = tip + Life]
  /\ UNCHANGED <<Same, receipts, chain>>

\* All attempts but the unprovable ones pursue one effect, which the program grants once.
Land(n) ==
  /\ wire[n] = "relayed" /\ landed[n] = 0 /\ tip <= expiry[n]
  /\ landed' = [landed EXCEPT ![n] = tip]
  /\ \/ worked' = worked
     \/ (n \in Unprovable \/ worked \subseteq Unprovable) /\ worked' = worked \cup {n}
  /\ UNCHANGED <<Same, receipts, wire, tip, root, expiry>>

Advance  == tip < MaxHeight /\ tip < root + MaxLag /\ tip' = tip + 1
            /\ UNCHANGED <<Same, receipts, wire, expiry, root, landed, worked>>
Finalize == root + 1 < tip /\ root' = root + 1
            /\ UNCHANGED <<Same, receipts, wire, expiry, tip, landed, worked>>

TabStep(t) ==
  \/ Restore(t) \/ Fetch(t) \/ Recover(t) \/ Reload(t) \/ Adopt(t)
  \/ \E n \in Own : Begin(t, n)
  \/ Ask(t) \/ Save(t) \/ Post(t) \/ Done(t) \/ Fail(t) \/ NoteFailure(t)
  \/ Look(t) \/ Measure(t) \/ Search(t) \/ Judge(t) \/ Apply(t) \/ Retry(t)

OutsideStep ==
  \/ Clear \/ Advance \/ Finalize
  \/ \E n \in Attempts : Receive(n) \/ Reconcile(n) \/ ElsewhereSigns(n) \/ Land(n)

JournalNext == OutsideStep \/ \E t \in Tabs : TabStep(t)

\* Blocks are produced and finalized; the server reconciles what can be proved; an open tab
\* fetches, restores and polls (its timers), a wallet answers one way or the other, a request
\* ends, and reads that may fail do not fail for ever (the strong fairness).  No submission
\* need arrive, be relayed or land, and no tab need sign.
Fairness ==
  /\ WF_journalVars(Advance) /\ WF_journalVars(Finalize)
  /\ \A n \in Attempts \ Unprovable : WF_journalVars(Reconcile(n))
  /\ \A t \in Tabs :
       /\ WF_journalVars(Restore(t)) /\ WF_journalVars(Fetch(t)) /\ WF_journalVars(Recover(t))
       /\ WF_journalVars(Done(t)) /\ WF_journalVars(Fail(t)) /\ WF_journalVars(NoteFailure(t))
       /\ WF_journalVars(Look(t))
       /\ SF_journalVars(Measure(t)) /\ SF_journalVars(Search(t)) /\ SF_journalVars(Judge(t)) /\ SF_journalVars(Apply(t))

JournalSpec == JournalInit /\ [][JournalNext]_journalVars /\ Fairness

-----------------------------------------------------------------------------
(* Properties *)

\* The lock is held by the tab whose execute is between its start and its answer.
LockHeld == \A t \in Tabs :
  holder = t <=> exec[t].step \in {"preparing", "awaiting", "journaled", "posted"}

JournalTypeOK ==
  /\ LockHeld
  /\ journal \in Attempts \cup {None} /\ history \in [Attempts -> Statuses]
  /\ holder \in Tabs \cup {None} /\ tracked \in [Tabs -> Attempts \cup {None, Unknown}]
  /\ news \in [Tabs -> BOOLEAN] /\ seen \in [Tabs -> (SUBSET Attempts) \cup {Unknown}]
  /\ exec \in [Tabs -> [step : {"idle", "preparing", "awaiting", "journaled", "posted", "failing"},
                        attempt : Own \cup {None}]]
  /\ poll \in [Tabs -> [step : {"start", "height", "history", "account", "apply"},
                        of : Attempts \cup {None}, verdict : Final \cup {"flying"}]]
  /\ receipts \in [Attempts -> {"none", "pending", "final"}]
  /\ wire \in [Attempts -> {"none", "sent", "relayed"}]
  /\ tip \in Nat /\ root \in Nat /\ expiry \in [Attempts -> Nat] /\ landed \in [Attempts -> Nat]
  /\ worked \in SUBSET Attempts /\ crashes \in Nat /\ clears \in Nat

\* Finally unable to land.
Gone(n) == landed[n] = 0 /\ root > expiry[n]

Settled(n) == Rooted(n) \/ Gone(n)

\* Journaled, and so perhaps sent, and still able to change the account.
Open(n) == /\ wire[n] # "none" \/ \E t \in Tabs : exec[t] = [step |-> "journaled", attempt |-> n]
           /\ ~Settled(n)

\* A signature that may still take effect is the journal's record: whatever tab is opened,
\* reloaded or closed, every one of them tracks it again and refuses to sign.  (An erased
\* storage is what the server's receipts are for: see Freed.)
Remembered == clears = 0 => \A n \in Own : Open(n) => journal = n

\* Two signatures of this browser are never in the air together: a retry is only signed
\* once the earlier one is decided.
OneAtATime == clears = 0 => \A m, n \in Own : Open(m) /\ Open(n) => m = n

\* A final status is true when it is written and for ever after, also for a signature that
\* landed late, that no node remembers, or that was signed on another device.
StatusTrue ==
  \A n \in Attempts :
    CASE history[n] = "finalized"  -> n \in worked /\ Rooted(n)
      [] history[n] = "failed"     -> n \notin worked /\ Rooted(n)
      [] history[n] = "expired"    -> n \notin worked /\ root > expiry[n]
      [] history[n] = "reconciled" -> Taken /\ root > expiry[n]
      [] OTHER -> TRUE

\* "Interrupted" and "not submitted" are said only of attempts no part of which has left
\* the browser, or ever will.
UnsentTrue == \A n \in Attempts : history[n] = "unsent" => wire[n] = "none" /\ journal # n

\* An approval in progress is never cancelled by another tab (storage.ts:85).
ApprovalKept ==
  [][\A t \in Tabs : exec[t].step \in {"preparing", "awaiting"} /\ exec'[t] = exec[t] /\ clears' = clears
       => history'[exec[t].attempt] = history[exec[t].attempt]]_journalVars

Ready(t) == Idle(t) /\ seen[t] # Unknown /\ Recoverable(t) = {}

\* An unprovable attempt that can land no more: only its signature's history, which a node
\* may not have, or never have had, can tell what became of it.
Lost(n) == n \in Unprovable /\ root > expiry[n]

\* However the page was reloaded, its storage erased, an answer lost or a signature signed
\* on another device: every tab is able to sign again in the end, again and again, except
\* while it tracks a cleanup that was lost, which may be for ever ("Repeatable residual
\* recovery cannot be proven from balances alone and can remain unresolved if its signature
\* history is lost", docs/offer-lifecycle.md:74).
Freed == \A t \in Tabs : []<>(Ready(t) \/ Lost(tracked[t]))
=============================================================================
