# Volaryn: models, checks and proofs

Volaryn lets two parties fix a protection agreement on a Token-2022 balance: a writer
locks a USDC payout, a holder pays a premium, and until expiry the holder may deliver the
quantity against the payout. This directory holds TLA+ models translated from the
repository's source, the TLC instances that check them and the TLAPS proofs about them.
Paths below are relative to the repository root; line numbers of single definitions are in
`PROJECT.json` under `map`.

## The system

| Part | State | Operations | Talks to |
|---|---|---|---|
| Settlement program (`programs/volaryn/src`) | `ProtocolConfig`, one `AssetPolicy` per mint, one `Agreement` with a USDC reserve and a settlement token account per `(creator, nonce)` | `initialize`, `create_asset_policy`, `update_asset_policy`, `create_offer`, `activate`, `accept_request`, `exercise`, `cancel_offer`, `reclaim_expired`, `cleanup_terminal` | SPL Token (USDC), Token-2022 (underlying), the loader's upgrade authority, the clock |
| Client library (`packages/protocol/src`) | none | builders, parsers, codecs, addresses | the program's interface |
| Index (`backend/src/indexer.rs`, `adapters/store.rs`, `adapters/chain.rs`, `application.rs`) | `agreements` rows with the finalized slot they were read at, `last_slot`, `discovered` | full scan, batched upsert, lag check, direct chain read when stale | RPC nodes (lagging, failing), PostgreSQL, the activity worker |
| Receipts (`backend/src/activity`, `adapters/activity.rs`, `http.rs`) | `activity`: one row per recorded signature | decode, record before relay, observe, prove an effect, expire, retry the least recently checked first | HTTP proxy, RPC history, Index |
| Journal (`frontend/src/features/useTransaction.ts`, `journal.ts`, `pending.ts`, `reconcile.ts`) | one journal per wallet in browser storage shared by tabs | execute (sign, journal, submit), poll, restore, recover from receipts | wallet, RPC proxy, Receipts, Web Lock |
| Activity history (`features/activity`) | local attempts merged with the server's receipts | save, note, interrupt, merge, discover | Journal, Receipts |
| Action building and review (`lib/chain/buildAction.ts`, `useTransaction.ts`, `App`) | the review on screen | check against the confirmed chain, review, confirm, build again, sign | program, Index rows, Journal |
| Queries and lifecycle (`queries.rs`, `store.rs`, `agreementLifecycle.ts`) | none of their own | filtered keyset pages, labels | Index, chain time |
| Terms and pricing (`features/offers`) | draft terms | suggested dates, premium and rate rounding | `buildAction` |
| Catalog (`catalog.rs`, `assets.rs`) | cached issuer and catalogue snapshots | refresh, eligibility | two external sources |
| WalletConnect adapter (`lib/walletconnect`) | session, revision, pairing | pair, cancel, restore, sign, session events | relay, wallet |
| HTTP routing, RPC transport, deployment, layout | - | I/O, start-up checks, rendering | - |

What is hard in each, and what makes it correct:

- **Settlement program.** Instructions of any wallets in any order at any clock value;
  policy and mint changing between creation and acceptance; tokens and USDC arriving
  unasked in program accounts; a fee withheld from a delivery; a frozen account at
  handoff; what a former beneficiary does with the account it got. Correct when every
  reserve is backed exactly, rights move forward only and along one path, the two
  outcomes have disjoint windows, the live settlement account is movable by the program
  alone, and nobody's money gets stuck.
- **Client library and decoding.** The order of accounts, of fields and of arguments is
  written down four times: in the program, in each builder, in each parser and in the
  server's decoder. Correct when all of them read one message alike, and when what the
  server recorded is what the program did.
- **Index.** Two workers write rows read through nodes at different slots; a scan may die
  between batches after it has raised the high-water mark. Correct when rows never
  regress, the mark never claims completeness that a scan did not give, and the index
  catches up after lagging nodes and restarts.
- **Receipts.** A receipt exists before the relay; crash, timeout or a second submission
  of the same signature come between; every read may be answered by another node. Correct
  when no transaction that can still land is declared expired, an outcome is reported
  only when proved and stays true, and every receipt gets one that something can prove.
- **Journal and history.** Tabs, reloads and closed pages between signing, journaling and
  submission. Correct when no signed operation is lost from sight, none is signed beside
  another, a final status is true, and no wallet is locked out.
- **Review.** The row on screen, the account at the build, the account at the second build
  and the account at execution may be four states. Correct when what executes is what was
  reviewed, when the browser refuses what the program would refuse and nothing else (but what
  competes with an attempt whose fate is open), and when an account read long afterwards is not taken for a proof it is not.
- **Lifecycle, Terms.** Two derivations of one label that may disagree; roundings and
  off-by-one seconds against the program's admission.
- **Catalog, WalletConnect.** One of two sources stale; approvals that arrive after a
  cancellation.

`PROJECT.json` lists each hazard at its line, with the properties that cover it or the
reason why none does.

## Modules

| Module | Contents | Extends |
|---|---|---|
| `Protection` | the abstract promise: a right is offered with the offering party's stake locked up, taken by another party before a deadline, and withdrawn, delivered or lapsed | |
| `Settlement` | the program with everything around it; refinement of `Protection` | |
| `Plan` | what the browser lets a wallet do and says of an agreement: panel, `buildAction`, SQL filters | `Settlement` |
| `Terms` | the form of a new offer | `Plan` |
| `Preview` | a page that reviews an action, confirms it, builds it again, signs it and has it executed later | `Plan` |
| `Outcome` | what an account proves about a signature nobody can find any more: the browser's judge and the server's | `Plan` |
| `Index` | the back end's finalized index: both workers, the two tables, nodes, failures and restarts | |
| `Receipts` | the server's receipts: requests, worker, nodes, forks | |
| `Journal` | one wallet's signatures in one browser: tabs, lock, storage, server, ledger | |
| `Client` | the TypeScript client of the program: addresses, codecs, builders, parsers | |
| `Onchain` | the program's account lists, constraints and stored data | `Client` |
| `Wire` | one message from request to ledger, read by the library, the server and the program | `Onchain` |
| `SettlementProofs`, `PromiseProofs`, `PlanProofs`, `ReviewProofs`, `IndexProofs`, `ReceiptsProofs`, `JournalProofs`, `WireProofs` | inductive invariants and theorems | |
| `MCSettlement`, `MCPlan`, `MCReview`, `MCIndex`, `MCReceipts`, `MCJournal`, `MCWire` | inputs and instances for TLC | |

`MCReview` is `Preview` and `Outcome` over one settlement program; neither reads the other's
variables, so each behaviour has one of the two. The other compositions are by promise:
`Journal` and `Receipts` let a dead signature be judged by whether the effect is there at
the slot that was read, and `Outcome` shows over the whole program that this is what the two
judges conclude from the account; `Receipts` records what `Wire` decodes; `Journal` has the
server's receipts only as pending or final, which is what `Receipts` shows about them: final in the
end, but for the ones no account can prove, which may stay pending in both.

### Settlement and the code

| Variable | Account or field |
|---|---|
| `now` | `Clock::unix_timestamp` |
| `config`, `policy` | `ProtocolConfig.authority`, `AssetPolicy` (absent: `None`, version 0) |
| `mint` | what `validate_mint` can tell apart in the underlying mint: an unsupported extension (`hooked`), paused, default-frozen accounts |
| `agreements` | the `Agreement` accounts |
| `reserve`, `settlement` | USDC in the reserve; owner field (`title`), balance, freeze and encumbrance of the settlement account |
| `usdc`, `shares` | the wallets' token accounts |
| `surplus`, `outside` | history only: donations not yet swept, and a wallet's net from donations and sweeps; no guard reads them |

One action is one instruction: the constraints of its `Accounts` struct and its `require!`s
are the guard, its assignments and token calls the primed variables, in the order that
matters. The runtime rolls a failed instruction back, so an instruction that errors is an
action that is not enabled. The guards have names of their own (`CanCreateOffer`,
`CanExercise`, `CanRefund`, ...), because `Plan` and `Outcome` compare what the client
believes with what the program accepts, and because a guard can be reasoned about where
`ENABLED` cannot: `Accepts(p)` of `Plan` is the guard of the instruction that a plan turns
into. `cancel_offer` and `reclaim_expired` share a handler in
`refund.rs` and so share `Refund`.

The environment is explicit: `Tick`; `IssuerSetsMint`, `IssuerSetsFreeze`, `IssuerSeizes`
(permanent delegate, possible while the account can move); `DonateUsdc`, `DonateShares`;
and, for the wallet a settlement account was given to, `OwnerWithdraws`, `OwnerCloses` and
`OwnerTransfers`, which may leave a close authority or an extension behind and may give the
account back to the PDA. These are modelled from how the program uses the token programs.

Abstractions:

- One mint with one policy. Agreements on different mints share only wallets' USDC.
- Each wallet has one USDC and one underlying account. Freezing a wallet's own account, or
  its USDC, only makes an instruction fail, which is the action not being taken; the
  properties about what can always be taken out are stated for accounts that can receive.
- `encumbered` stands for a close authority or an extension that `validate_settlement`
  rejects. A delegate is not in it: Token-2022 clears the delegate when the owner changes.
- A settlement account's address is derived from its agreement and only the program can
  sign for it, so a closed one never comes back; and an `Agreement` account is never
  closed, so its address is used once.
- Withheld fees left on a token account, which would only delay `OwnerCloses`, are left out.
- Account rent, addresses, decimals and events are left out.

### Index and the code

| Variable | In the code |
|---|---|
| `ledger` | the finalized ledger, one state per slot: the stage each agreement (with its reserve) has reached; `tip` is the last slot |
| `rows`, `mark` | tables `agreements` (projection, `finalized_slot`) and `reconciliation` |
| `discovered` | `Indexer.discovered_at` is set and younger than `discovery_interval` |
| `job` | the locals of `Indexer::refresh` and of `refresh_batches` for each worker: kind of pass, `minimum_slot`, addresses, batches not stored yet, page cursor |
| `scanned` | history only: slot of the last full scan that ran to its end |
| `calm` | environment: from here on nothing changes or fails |

`Start` decides the kind of pass and reads `last_slot`; `Discover` is `getProgramAccounts` with
the lag check; `StoreBatch` is one answered `getMultipleAccounts` with the transaction of
`upsert`; `NextPage` is `active_addresses`; `FinishScan` the empty upsert that ends a full scan.
The activity worker enters `refresh_batches` through `StartReceipts` with whatever agreements its
receipts name. An answer is the ledger at any slot the node has reached: since the ledger only
grows, choosing the slot when the answer is stored covers every earlier moment it could have been
given at. `Fail` is any error or the timeout of a minute (what was stored stays, the other
requests are dropped), `Restart` loses the memory and keeps the tables. An upsert is one step:
rows and mark are maxima by slot, so two interleaved transactions end as one after the other.
Wall-clock fields (`observed_at`, the 30 s freshness gate of reads) are left out, and so is the
direct chain answer of `Application::agreement`, which keeps no state.

### Plan, Terms, Preview and the browser

`Plan` adds no state: it is what the browser reads of `Settlement`'s. `CanBuild` is `buildAction`
with every check it makes, in one snapshot of the confirmed chain; `PanelOffers` are the enabled
buttons on a row, at a clock, for a usable page (its wallet's accounts are loaded and it is not busy
with a review or a signature) and the wallet's last attempt on the agreement (`LastAttempts`): while
`AgreementAction` reports that attempt, no button is enabled. `Lifecycle` the badge, `Perspective` the sentence about a wallet's money, `Listed`,
`OnOffer` and `EligibleFor` the SQL filters of `store.rs`; `Executes` is the instruction the plan
carries, an action of `Settlement`. The filters are judged on a current row and with the
browser's clock (what an old row does is `Preview`'s and `Index`'s matter). Paging and the sums of
the portfolio only read rows and are left out.

`Terms` is the form: `SuggestDates`, `DatesFit` (`dateError`), `OfferPricing` and `Submits`. Amounts
are base units, dates seconds; decimal texts and dates after the year 9999 are left out. The
quantity is handed on as it was entered (`FormQuantities`), 0 included, which `buildAction` refuses.
Before a policy has been read the form checks nothing and
leaves it to `buildAction`, so its properties speak of a form that has one.

`Preview` follows one page (a review begins with any last attempt the panel lets through): `connected` (wallet), `row` and `clock` (what it displays, refreshed at any
time or never), `review` (`useTransaction`'s review), `signed` (a confirmed review whose transaction
may still land). `Confirm` is the second build and its comparison; `Land` executes the signed terms
on whatever the chain has become; `Elsewhere` is any step of anybody else. Network fees, rent and
the choice between several token accounts of one wallet are left out.

`Outcome` follows one signed action: `attempt` is the saved `PendingTransaction`, `done` (history
only) whether that wallet's action took effect since. `BrowserVerdict` is the last part of
`observeAction`, `ServerVerdict` is `prove_effect` with `effect_status`, `ServerRole` is `actor_role`.

### Client, Onchain, Wire and the interface

An address is a tuple of what it was derived from, so two derivations agree exactly if they use the
same seeds. Bytes are a sequence of tokens, a discriminator or a field's width, option flag and
value: a reader that expects another width, order or count does not read what was written. Signature
bytes and size limits are left out, and the indices of a compiled message are replaced by the
addresses they stand for.

`Client` holds, per instruction, the account table, the argument codec, the `Async` builder (used by
the plugin, derives what it is not given), the plain builder (used by the app) and the parser of
`generated/`. `Onchain` holds the program's own account lists, constraints and data layouts, none
of them taken from `Client`; money and time stay in `Settlement`, so a handler whose accounts are right
may still refuse (`Land(FALSE)`). `Wire` has the program's accounts (`ledger`), the agreement the browser
fetched (`seen`), the request, the compiled `message`, what `decode.rs` made of it (`intent`) and what the
ledger did (`ran`). Messages come from the app, from a plugin caller who leaves any derivable name
out, or from other software (`Variants`: another payer, other instructions beside it, accounts
swapped or cut off, trailing data, a date before the epoch, which `decode.rs` refuses). One message is in the air at a time; the ledger may change
between fetch and landing because `seen` may be old.

### Receipts and the code

| Variable | In the code |
|---|---|
| `status`, `bound` | `activity.status`, `activity.last_valid_block_height` |
| `fresh`, `rest` | the order of `pending`: rows without `checked_at` by id, then by `checked_at` |
| `indexed` | `finalized_slot` of the agreement's row |
| `request` | the locals of `record_submission` and of the relay in `http.rs` |
| `job` | the locals of `refresh`: receipts of the pass, root, histories, completed list, minimum slot |
| `born`, `sent`, `tip`, `landed`, `worked` | the ledger: block of a signature's blockhash, who sent it, the block being produced, the block that includes it, whether it succeeded |

Every read is one action and is answered by a node that may lag by `NodeLag`, with its own
answer each time; a history may be null although the signature is known elsewhere. A block height
serves as the slot too. `Abandon` is a fork that drops the newest block. `SendElsewhere` is anybody
with the signed bytes. `Drop` ends a request anywhere, for an error, a timeout, a restart or a refusal
that has no other trace (wrong actor, closed admission); `Stop` ends a pass anywhere. All signatures
are one wallet's on one agreement. All but those of `Unprovable` want one effect, which the account shows
(`Taken`); of an unprovable one, a cleanup or a creation whose identity other terms have, `Effect`
says `Unresolved` in every pass, as `effect_status` does: such a receipt keeps its place in the queue, and
only its signature in a finalized history ends it. `EffectFails` is something else, an account that
cannot be read for the moment. `last_slot`, which may raise the slot the
index is read at, is `Index`'s. With `LIMIT 10`, one pair that cannot be read keeps all receipts
completed in the same pass from completing; the run's passes have one receipt, and this hazard
(`reconcile.rs:94`) is listed without a property.

### Journal and the code

| Variable | In the code |
|---|---|
| `journal`, `history` | the two entries of `localStorage` |
| `holder` | owner of the Web Lock (`ifAvailable`, never waited for) |
| `tracked`, `poll` | `tracking.pending` and the progress of `poll`, per tab |
| `exec` | the progress of `execute`, per tab |
| `news`, `seen` | a storage event on its way; the receipts `useActivity` fetched last |
| `receipts`, `wire` | what the server has of a signature; whether it was sent and relayed |
| `tip`, `root`, `expiry`, `landed`, `worked` | the ledger as in `Receipts` |

Statuses no guard tells apart are one (`draft`, `unsent`, `flying`). `Reload` closes or reloads a tab
between any two steps and with it loses its memory and its lock; `Clear` erases the site's storage;
attempts of `Foreign` are signed on another device. `saveJournal` with `updateActivity`, and `Look`'s two
reads, are one step each: nothing else can see between them under the lock, and a null of the first
read leads to the same poll as one of the second. `Judge` has the three results of `observeAction` from
the account on: reconciled, expired, and, for an attempt of `Unprovable`, unresolved, after which the poll
begins again. Two things the model shows and the code accepts. A poll of one tab that outlived a
`Clear` or a recovery may write an in-flight status over a final one, which the next poll repairs. And
an unprovable attempt whose signature is not in a finalized history is never decided
(`docs/offer-lifecycle.md:74`: it "can remain unresolved"): its record stays in the journal, `busy` stays
true and the wallet signs nothing more in this browser until the storage is erased, nor then, once
the server has its receipt, which is recovered. `Lost` is that case, and the exception of `Freed`.

## Runs

Deadlock is checked in the runs of `MCIndex` and `MCWire`. The others say `CHECK_DEADLOCK FALSE`,
because those systems really may stop: every agreement settled and the clock, the last block, the
reloads or the requests at their bound.

| Run | Instance | Question | States |
|---|---|---|---|
| `admission` | one agreement, three wallets, three policies up to the last version, four mint states, terms that must be refused, a designated counterparty, a form with four durations, three rates, three premiums and two quantities | Do rights only move forward, can money always be taken out and admission always be stopped? Is what the form accepts or suggests, the panel offers, `buildAction` builds and the lists show what the program takes? | 58,512 |
| `pair` | two agreements of two wallets that may take each other's offer | Is the program an implementation of `Protection`? | 306,538 |
| `live` | one agreement, two wallets, donations, fee, freeze, seizure, later owners, fair clock, writer and beneficiary | Are reserves backed, custody kept, deliveries recorded, handoffs right; do lapsed protections, donations and frozen handoffs get settled? | 32,631 |
| `late_donation` | as `live`, safety only | Does the comment in `cleanup_terminal.rs` hold? (it does not) | stops |
| `review` | one agreement of three wallets, and a page or a signed action | Is what executes what was reviewed; are both judges right, decided and of one mind about the role? | 1,122,351 |
| `wire` | two wallets, one mint, one agreement, two policy versions, three kinds of senders | Do library, server and program read every message and account alike? | 110,693 |
| `index` | three agreements, batches of two, two in flight, pages of two, two slots | Are rows true, never going back, and scans and polls complete? | 1,238,628 |
| `catch_up` | two agreements, batches and pages of one, two slots, fair worker | Does the index catch up after anything? | 61,200 |
| `receipts` | two signatures, one of them unprovable, one request at a time, passes of one receipt, nodes one block behind, five blocks | Are bounds long enough, outcomes true, and does every receipt get one that can have one? | 532,324 |
| `resend` | one signature, two requests | Are retries of one signature idempotent, as a comment in `mod.rs` says? (not always) | stops |
| `journal` | two tabs, two attempts, reloads | Is every signature remembered, alone, and truly reported? | 675,971 |
| `recovery` | one tab, one attempt and an unprovable one of another device, a reload, an erased storage | Can the tab sign again in the end, unless it follows an attempt nothing can prove? | 114,137 |

Bounds and why they are enough:

- `MaxTime = 2`: creation, an instant where acceptance has closed but delivery has not, and
  expiry are three different instants; both orders at every boundary (`<` against `<=`) occur.
- `MaxVersion` stands for `u32::MAX`; 2 lets the policy be created and replaced once and then
  reach its last version, where the code's `checked_add` refuses.
- `MaxGiven = 1`: a single donated unit already shows a sweep that pays too much or too little;
  it may be given, swept and given again.
- Payout 2 or 3, premium 1: stake, payout and premium are all different, so paying the wrong
  one shows. Wallets have enough for both sides of a deal, self-dealing included.
- Fees 0 and 1 of a quantity of 1: nothing withheld and everything withheld.
- The form's rates contain one below, one inside and one above what is allowed, its premiums 0,
  its durations 0 and more than the policy's last expiry, its quantities 0 and 1; `Minute = 1` is the least that tells a
  window that is too short. The theorems of `PlanProofs` are about all values.
- Index: stages absent, live, settled; a batch size of two with three addresses has a short last
  batch, a page of one makes every address a page boundary, a width of one or two has requests
  waiting and in flight. Two slots give a row and a mark that differ; the constants of the code
  (50 pairs, 4 requests, 200 rows) are larger and the proofs cover them.
- Receipts: `Life = 0`, a signature lands in the block of its blockhash or never, so the first
  block after it is already too late; `NodeLag = 1` and `Depth = 1` are enough for any two reads
  to disagree about a block and its finality; `MaxBorn = 1` and `Early` only leave room at the
  end of the chain for an outcome. One signature is provable and one is not, and a pass takes one
  receipt: the worker has to get past a receipt that stays unresolved to the other one. Two provable
  signatures, one proved by the effect of the other, are in `OutcomesAreTrue`. Two concurrent requests are `resend`'s.
- Journal: `MaxHeight = 5` with `MaxLag = 2` lets a first signature die, be judged, and a second
  one be signed and die. `Bounded` cuts combinations: open tabs, begun attempts and reloads are at
  most four together, with two tabs open at most three blocks, two once both attempts
  are begun. So two tabs race over two attempts without a reload, two tabs over one attempt
  with one reload, and one tab over two attempts with one reload. In `journal` every attempt is
  provable; an unprovable one is in `recovery`, beside the tab's own, and the theorems about the
  properties of `journal` are about any number of them.
- Wire: policy versions 1 and 2 make a policy read after an update differ from the one at
  creation; wallets that are and are not the admin, both sides, every designation.

## Fairness

`FairSpec` assumes weak fairness of `Tick` (time passes), of `Refund(o, w, TRUE)` (a writer
takes its expired reserve back) and of `CleanupTerminal(o, w)`. The last two are wallets acting
in their own interest: nothing in the program runs by itself, and the portfolio keeps offering
both actions while they are possible (in a browser that is not occupied by an undecided signature;
any client of the program can send them). No fairness is assumed of a holder, a counterparty, the
authority or the issuer; `HandoffRetried` is stated under the condition that the issuer
eventually leaves the account thawed and nobody leaves it encumbered.

`Index` assumes weak fairness of the index worker's loop, which `main.rs` runs for ever, and of
`Elapse`, time. `Converges` is stated from the moment the environment is calm: a node that stays
behind for ever, or a database that is always down, does stop the index.

`Receipts` assumes weak fairness of blocks and of the worker's timer, and that from some moment on the
worker's own requests succeed (`<>[][~EffectFails /\ ~IndexFails /\ ~Stop]`). Nodes may go on lagging
and forgetting, and nothing is assumed of the wallet, the requests or the relay. Requests that
succeed do not decide an unprovable signature; `Settles` says which receipts are left open (`LeftOpen`).

`Journal` assumes weak fairness of blocks, of the server's reconciliation of provable attempts (what
`Settles` of `Receipts` gives) and of a tab's effects and timers, and strong fairness of the reads of a poll,
which may fail but not for ever, and of its write under a lock that others take and release. No
submission need arrive, be relayed or land, and no tab need sign.

## What is proved

### Settlement

For any wallets, offers, terms, policies, fees and bounds that satisfy the named assumptions
(`WalletsAssumption`: the marks used for absent accounts are not wallets, an offer is a wallet
and a number; `InputsAssumption` and `BoundsAssumption`: inputs and bounds have their types),
with any number of agreements and donations.

- **`IInv == TypeOK /\ Backed /\ Parties /\ Timeline /\ Custody`** is inductive (`Inductive`).
  The parts are proved together because they lean on each other: `surplus` stays a natural number
  through a cleanup only because a settled reserve holds nothing but donations (`Backed`), the
  money equations of `Backed` need the types, `Timeline` needs the order of the deadlines that
  creation checked, and the abstract steps below need to know from `Parties` that both roles are
  wallets. One lemma per action (`...Keeps`) shows that the whole of it is kept.
- From it: `TypeCorrect`, `ReservesBacked`, `RolesSettled`, `TimesInOrder`, `CustodyKept`.
- Action properties by the same invariant: `RightsAreFinal` (`Irrevocable`) and
  `HandoffIsRight` (`HandedToBeneficiary`).
- `PromiseKept`: `Spec => KeepsPromise`, that the program implements `Protection`. The escrow of
  a right is its reserve without the donations, the cash of a wallet its USDC without donations
  and sweeps. `create_offer` is `Offer`, both acceptance instructions are `Take`, `exercise` is
  `Deliver`, `cancel_offer` is `Withdraw`, `reclaim_expired` is `Lapse`; the step works because
  `Backed` says that what the program pays out is exactly the escrow. Everything else is a
  stutter or time passing.

- `DeliveriesRecorded`: `[]DeliveryRecorded`, by a step lemma over the same invariant.
- `FundsAlwaysReachable` (`FundsReachable`): from `IInv` alone, whatever the clock, the mint, the
  policy and the issuer do. `Backed` says the reserve covers what is paid out, `Parties` that the one
  who asks is a wallet, `Custody` that the settlement account may still receive and send. An
  exercise is asked for at every fee up to the quantity; fee 0 is among the inputs
  (`InputsAssumption`), as a mint without a fee is among the code's.
- `DisableAlwaysPossible` (`CanDisable`): there must be an authority who can sign the update, so this
  rests on **`Founded`**, that a policy only exists in a configured program (and that an address
  without an agreement has no settlement account). `AuthorityStep` and `FreshStays` are its steps.

### Index

For any finite set of addresses, any stages, batch, page and window sizes and any ledger that only
moves forward. **`IndexInv`** joins the checked invariants with two more: `LedgerForward` (what the
ledger does) and `PassSane` (a pass's minimum was reached by the ledger; a full scan in progress is
not behind the last one and its goal is everything that existed at its slot). `PollCovers` is the
part that needs the others: a row the other worker touches is known to be live before if it is
live after only because rows are true, the ledger moves forward and the scan before left no row
out. `UpsertTrue` says what one transaction does; `NewJobKeeps` reduces every step that touches only
a worker's memory to what is true of its new job. `Ranks` and `BatchNumbers` are the facts about
pages and chunks, from the library's theorems on finite sets. The theorems are `IndexTyped`,
`RowsAreTrue`, `GoalsCovered`, `ScansComplete`, `PollsComplete`, and from the steps
`RowsNeverRegress` and `ScansNeverGoBack`.

### Form and panel

Everything the browser offers is compared with the program's guards, in one state, by the
program's invariant. `PlansAccepted` (`PlanAccepted`): what `buildAction` builds from the latest
account is what the program accepts, one case per instruction; `RightsAlwaysOffered`
(`RightsOffered`): a right that the program would deliver or give back has a plan, and a button in the panel
of the wallet that has it, whatever that wallet's last attempt on the agreement was. An attempt from
an earlier status, a failed, expired or unsent one, an achieved one that left its mark and an achieved
cleanup stand aside (`AttemptsStandAside`). What does hide the button is an attempt at the same
or a competing operation (activate and cancel, exercise and reclaim, cleanup) that is undecided, and
the property says so: for a lost cleanup that is for ever. `PanelSaysTrue` (`SaysTrue`): what the panel says about somebody's
possibilities is what the program would do. `IInv` is needed where the program compares an account that
the browser does not read (the reserve, the settlement account, the other party's role).

### Judges

**`OutcomeInv == IInv /\ OutcomeTypeOK /\ Traced`**: besides the program's own invariant, what a
signed action leaves on the account. `SignedStays` and `EffectStays` say what later steps of anybody
cannot undo, `ExecutionShows` that executing the action leaves its mark and `OnlyExecutionShows` that
nothing else does; together they give `EffectsTraced`. `VerdictsAreRight` (`EffectProved`) and
`VerdictsAreReached` (`Decided`) read the two judges off that invariant. `RolesAlwaysAgree`
(`RolesAgree`): the role the server finds for a signed action from the account is the one the browser
saved at signing, and it finds none only for what the program would refuse (`RolesRight`).

### Review

**`PreviewInv == IInv /\ PageOK`**: the row on screen is what the account was some steps ago
(`Before`), and a review, on screen or signed, is `Sound`: its role and amount follow from the status
it was made for, its terms are the account's, and what the button required of the row (open, active,
settled) holds of that status. `SoundStays` and `BeforeStays` take this over every step of the
program by `RightStep`. `ReviewsKept` (`AsReviewed`) then compares each instruction that lands with
its review, one lemma per instruction (`CreateKept` to `CleanupKept`); the amounts agree because the
program checks the status again and because terms never change after creation.

### Form

`PremiumRoundsUp`: a premium given as a rate is the least whole amount not below it, at least one
unit and at most the payout; the three divisions of the code are reduced to two linear bounds.
`FormSound` (`FormAccepted`): what the form submits passes each check of `buildAction` if, and only
if, its quantity is not 0 (the form does not look at the quantity), from the types of the state alone. `SuggestionsHold` (`SuggestionKept`): a suggested pair of dates stays
acceptable until its acceptance ends, for every policy, duration, window and clock.

### Receipts

For any signatures and requests, any `Limit`, `Life`, `NodeLag` and `Depth` (at least one block).
**`ReceiptsInv`** has five parts. `LedgerOK`: what lands was sent and lands in time. `RequestsOK`: a
request's minimum slot is one at which its blockhash was known, so the lifetime read at that slot
or later outlives the signature. `TableOK`: every receipt's bound covers its signature; the queue
holds receipts only; the index is not ahead of the finalized block. `JobOK`: a history that says
"finalized" is of a finalized block, and the outcomes a pass holds back for the index are true for
who reads at its minimum slot (`TrueAt`). `OutcomeTrue` is the last. They need each other: an
expired signature is judged by `BoundCovers`, by the root read before the history and by an account
at least that new. The unprovable signatures are any subset. `Onwards` is all that is used of the ledger: what is finalized or dead stays so;
the `...Carried` lemmas take each part over such a step once, and `JobBecomes` and `UpdateKeeps`
reduce the steps of the worker to what they make of the pass. `BoundsCover` and `OutcomesAreTrue`
follow.

### Journal

For any tabs, attempts, devices, life of a blockhash and bounds (`JournalAssumption`: attempts of this
browser and of another device are distinct, the unprovable ones are any of them, and `None` and `Unknown` are no attempt and no tab).
**`JournalInv`** joins the checked `Remembered` and `StatusTrue` with what they rest on. `LedgerOK`:
only what was relayed lands, in time. `MarksOK`: an attempt that anybody but its own `execute` knows
of (`Marked`: sent, journaled, in the history as signed, tracked, polled or fetched) has a lifetime,
so "the root has outlived it" is never said of an attempt that has none yet. `ExecsOK`: an attempt
before its signature is not marked, and the journal is empty while it is prepared; it stays so
because every writer of the journal asks for the lock first, or was signing itself. `DraftsOK`: a
draft, or what became of one, is marked nowhere, which is why interrupting it cannot hide a
signature. `PollsOK`: a poll on its way holds a true verdict, which stays true while it waits for
the lock. A decided verdict settles the attempt (`DecidedSettles`), so `Apply` never takes a
signature out of the journal that may still land. `QuietKeeps` and `OutsideKeeps` reduce the steps
of the browser and those outside of it to what they mark and open. The theorems are
`SignaturesRemembered`, `OneInTheAir`, `StatusesAreTrue`, `UnsentIsTrue` and, by a step lemma,
`ApprovalsKept`.

### Wire

For any wallets, mints, nonces and bounds (`WireAssumption`: addresses of wallets and mints are told
apart, no mint of an offer is the USDC mint), and for the tables of the program and of the client as
they stand.

- **Codecs and tables.** `RoundTrip`: what a layout with distinct names encodes, it decodes.
  `SameLayouts` and `SameTables`: the client's account codecs are the program's, and each instruction's
  account list has the program's names, signers and writable accounts in the program's order.
  `CalledIs` and `PluginIs` reduce all twenty builders to one shape, so that `PluginAsApp` can show what is
  left out to be derived as the app would have given it.
- **`WireInv == LedgerRight /\ Phased /\ SeenOK /\ RequestOK /\ OneMessage`** is inductive
  (`WireKeeps`). `LedgerOK`: an account is the configuration, a mint's policy or an agreement, at
  the address its contents derive, with the programs and mints that go with it. `Grows` is all that
  landing a message can do: accounts never vanish, an agreement keeps what it is about (`Kept`).
  `SeenOK`: the bytes a browser holds, however old, agree with the account in what is `Kept`, and this is
  all that an input is made of (`RequestsFormed`). `RequestOK`: a request stays `Formed` while others move
  the ledger (`FormedStays`); this is why a message built on an old fetch still fits.
- From it: `AccountsReadAlike` (`SameReading`), `MessagesAgree` (`OneMessage`), `ReadersAgree`
  (`ReadAsMeant`; `Parsed` for the library's parsers, `Recorded` for the server's decoder) and
  `MessagesFit` (`Fits`; `CreateFits`, `AdminFits` and `DealsFit` go through the constraints of each
  instruction).
- `IntentsAreTrue` (`IntentTrue`) is about messages anybody made, so it uses only `Phased` and the
  positions at which program and decoder look for the agreement (`Positions`).

### Only model-checked

- Liveness: `Converges`, `KeepsFairPromise`, `DonationsSwept`, `HandoffRetried`, `Settles`, `Freed`.

Every other property of a passing run is the statement of a theorem.

Also proved, though no run lists them because other checked properties contain or use them: the
roles of an agreement (`Parties`), the order of its times (`Timeline`), the types of `Index`, the goals
of a full scan (`BatchesCover`) and that scans never go back (`ScansAdvance`).

## Findings

`late_donation`: `cleanup_terminal.rs:87` says that after the handoff the beneficiary may close or
transfer the account and that late donations remain recoverable. The run shows one way in which
they do not: the beneficiary sets a close authority on the account and transfers it back to the
agreement PDA. `cleanup_terminal` then takes the account for one still to be handed over,
`validate_settlement` rejects it, and the error rolls back the sweep in the same instruction.
Only donations are concerned, and only the account's own owner can bring it about; the escrow was
paid out before. `DonationsSwept` is therefore stated with that exception.

`resend`: a comment at `activity/mod.rs:176` asks that concurrent retries of a signature be as
idempotent as later ones, and `docs/technical-overview.md:97` that a receipt make retries
idempotent. The second look for a receipt is made only when the simulation fails. A request that
found no receipt, and whose `isBlockhashValid` (line 131) is answered "no" after a concurrent request
saved one, is refused without looking again; sent once more, it is accepted. No receipt and no
transaction is lost by it.

## Not modelled

- **Catalog**: freshness, by wall clock, of two HTTP sources. An asset that is shown wrongly is refused
  by the policy account, which `BuildCreate` and `create_offer` read again.
- **WalletConnect adapter**: events of an external library whose order the repository does not state.
  What a late or foreign signature may do is covered from the journal's side.
- **Deployment and release checks**: sequential, stop at the first failure.
- **HTTP routing and byte transport, layout and navigation**: I/O and rendering.
- **SQL paging, the portfolio's sums, the merge of activity for display**: reads without a state of their
  own. The merge (`model.ts:79`) chooses between two statuses that are each true.
- **The freshness gate of reads** (`application.rs:108`): an answer taken directly from the chain may be
  older than one given before; the code promises no order, and every answer carries its slot.
- **A pair that cannot be read** (`reconcile.rs:94`): keeps the other receipts completed in the same pass
  waiting. `Settles` would need every pair to become readable, which is what the fairness of
  `Receipts` assumes.
