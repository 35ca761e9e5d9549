# XRPL Group Pay: specification and verification

XRPL Group Pay splits a bill among payers. Each payer pays the recipient directly on the XRP Ledger
from a wallet (Xaman); the server never holds funds. It freezes what each payer owes, asks the wallet
for one signature per payer, and marks a *PaymentSlot* paid only from a transaction in the validated
ledger. This directory holds TLA+ models of that program, TLC configurations and TLAPS proofs.
File and line numbers in `PROJECT.json` refer to the repository; below, paths are relative to
`src/features/` unless they start with another directory.

## 1. The system

### Components

| Component | State it keeps | Operations |
|---|---|---|
| Bill creation (`bills/create-bill.ts`, `src/components/bills/two-mode-bill-form.tsx`) | the draft in the browser; `bills`, `payment_slots`, `bill_allocations`, all frozen by triggers | edit, review, publish: one batch inserts the Bill, its slots and its allocation; copy a Bill |
| Allocation (`bills/allocation-engine.ts`) | none | splits a total: equal, percentage, shares, custom |
| Payment request creation (`bills/create-persisted-payload.ts`) | `wallet_handoffs`, slot status | resume the active request, or reconcile and replace |
| Replacement reconciliation (`bills/reconcile-replacement-payment.ts`) | `payment_reconciliation_findings` | scan the payer's validated history before a replacement |
| Wallet Handoff rows (`persistence/request-state-store.ts`) | `wallet_handoffs` | store, expire, synchronize |
| Provider status (`xaman/payload-lifecycle.ts`, callback and payload routes) | none | fetch the payload, synchronize |
| Verification and settlement (`bills/verify-and-settle-slot.ts`, `settle-slot.ts`, `settle-issued-slot.ts`) | `verified_payment_receipts` and `_records`, slot, Bill | judge a transaction, write receipt and slot and Bill in one batch |
| Progress and public proof (`bills/progress.ts`, `proofs/load-public-proof.ts`) | none | sums over the rows; the proof behind a digest |
| Review and recovery (`bills/payment-review-store.ts`, `bill-recovery-management.ts`) | slot, Bill, management actions | mark for review, authorize a retry, close incomplete |
| Reads of the ledger (`xrpl/client.ts`, `account-read-client.ts`, `account-transaction-client.ts`) | none | ask several endpoints, one after another |
| Readiness, verification, recovery taxonomy, trust line plan | none | pure decisions over what was read |
| TrustSet preparation (`xrpl/rlusd-trustset-*.ts`) | `rlusd_trustset_preparations` | create or resume a handoff, synchronize, confirm on the ledger |
| Pages of payer, organizer and trust line (`src/components/`) | the browser's | start calls, show their answers, offer what comes next |
| Saved wallets (`saved-wallets/saved-wallets.ts`) | IndexedDB, one store for all tabs | save, edit, import, delete |
| Operations gate (`config/payment-operations.ts`) | environment of the Worker | which payment requests are served now |
| Release scripts (`scripts/`) | release documents, databases, production Worker | check, import evidence, provision, deploy, roll back |
| Xaman, the XRP Ledger (external) | payloads; accounts and transactions | sign and submit; validate |

### How they interact

A handler of the HTTP API is an async function that awaits the D1 database, Xaman and a ledger
server in turn. Nothing locks across an await: another handler can run in each gap. What protects the
rows is a guard in the `WHERE` of each statement, the compare-and-swap on a row's status, two unique
indexes (one active request per slot, one receipt per transaction) and the batch, which is one
transaction. There is no queue, no cron job and no background worker: all progress is made by
requests of pages and callbacks of Xaman. The pages in turn are React components whose handlers overlap:
each answer writes the screen when it comes, whatever the screen shows by then.

Before the program runs on Mainnet its operators move a set of JSON documents from stage to stage. Each
stage is admitted by checks over all of the documents, and each report of what was seen or paid in one
stage is imported by a script that rewrites several of them.

### What is hard in it

- **Stale decisions.** Whether a slot is payable is decided on a slot read before two more awaits.
- **Three clocks.** A request expires after five minutes at the provider; its transaction is dead
  when the ledger passes `LastLedgerSequence`, 60 ledgers away; handlers take as long as they take.
- **Guards apart.** The statements of a batch guard separately; one that matches no row does
  not stop the next. Receipt, slot and Bill can disagree if one guard is wrong.
- **Two tables for one payment.** Payments in XRP are kept twice, and only triggers keep the two alike; the
  progress page reads one of them, the public proof the other.
- **Late and repeated observations.** Callback and polling report the provider's states in any order.
- **Replacement.** After an expiry a second request is made, while the first can still be signed.
- **Shared Bill row.** Settlement, review and retry of different slots all write one Bill status.
- **One draft, two judges.** The browser decides that a draft is exact, the server decides again, and
  a rule chosen under one mode or strategy is still in the draft under the next.
- **A moving ledger read in pieces.** One decision rests on up to seven reads of endpoints that lag,
  fail and answer from different ledgers, and amounts are spelt in many ways.
- **Overlapping calls of a page.** An older answer may come last, to a component that has been unmounted,
  or not at all after the server did its part; the buttons of the screen it leaves must lead on.
- **Several documents, one truth.** An import may stop between two files, an operator may edit the wrong
  one, a deployment command may fail after it did its work, a window may be forgotten open.
- **Liveness from outside.** A payment that was made is settled only if someone asks.

## 2. Modules

| Module | Models |
|---|---|
| `PaymentLifecycle` | the settlement core of one Bill: requests, reconciliation, settlement, review, recovery |
| `SettlementContract` | what that core promises organizer and payers: the abstract specification it implements |
| `TrustSetPreparation` | the preparation of one account's trust line |
| `TrustSetPage` | the page over that preparation, beside other pages; extends `TrustSetPreparation` |
| `Allocation` | the allocation engine: a pure function from an input to obligations |
| `BillCreation` | the form, the review, the batch that stores a Bill, its progress and its copy; extends `Allocation` |
| `PayerPage` | the payer's page with its overlapping calls, over a server of one step per request |
| `OrganizerPage` | progress panel and recovery controls behind a management link |
| `SavedWallets` | the address book of one browser under several tabs |
| `PaymentVerification` | operators: the verifiers, issued amounts, provider outcomes, recovery taxonomy |
| `PaymentReadiness` | operators: readiness of the two accounts, the plan of a trust line; extends `PaymentVerification` |
| `ServerDecisions` | a request that reads a moving ledger through several endpoints and decides; extends `PaymentReadiness` |
| `PaymentReceipts` | the rows, triggers and digests by which a verified payment of one slot is stored |
| `ReleaseDocuments` | operators: the checks over the release documents, and what importing a report does |
| `DatabaseProvisioning` | creating and migrating the databases, and importing that report; extends `ReleaseDocuments` |
| `MainnetRelease` | imports, mistakes, windows, deployment jobs and the Worker; extends `DatabaseProvisioning` |
| `DocumentedPayments` | a statement of a document that the code does not meet |
| `MC*` | small instances: symmetry, and what there is to enter or to decide |
| `PaymentLifecycle_proofs`, `PaymentSettlement_proofs` | theorems about the lifecycle; that it implements `SettlementContract` |
| `TrustSetPage_proofs`, `BillCreation_proofs`, `PayerPage_proofs`, `OrganizerBrowser_proofs`, `ServerDecisions_proofs`, `MainnetRelease_proofs` | theorems about the others (the browser's of page and address book, the decisions' of receipts too) |

The models meet at their interfaces. `SettlementContract` is what `PaymentLifecycle` is proved to implement;
`PayerPage` and `OrganizerPage` take the server as what those theorems say of it, and `PayerPage` is in turn
the environment whose persistence `PaymentLifecycle` assumes as fairness. `PaymentLifecycle` takes the verdict
on a transaction as an outcome of the ledger; `ServerDecisions` shows that the verifiers give it.
`PaymentReceipts` opens up the step `Settle` of `PaymentLifecycle`, where XRP and issued assets are one. `TrustSetPage`
composes the page with the handlers themselves.

### PaymentLifecycle

`slot`, `bill`, `row`, `receipts` and `audit` are the database (`db`); `owner`, `payload`, `elapsed`,
`ledger` and `pin` are the provider and the ledger (`world`); `work` is what each handler in flight is
doing and what it has read. A request id stands for its payload, its row and the one transaction the
payload can produce: the payload carries a template with the slot's invoice, the account Sequence
(`pin`) and a `LastLedgerSequence`.

| Actions | Code |
|---|---|
| `BeginCreate`, `LoadSlot`, `FindStale`, `ExpireActive`, `ResumeActive`, `ContinueCreate`, `Reconcile`, `CreateHandoff`, `PersistRequest` | `POST /api/payments/payload`, one action between two awaits |
| `VerifyPayment`, `Settle`, `MarkReview`, `MarkMultiple` | `POST /api/payments/verify`, the settlement and review batches (also reached from `Reconcile`) |
| `FetchPayload`, `ApplyObservation` | Xaman callback and payload status route |
| `LoadReview`, `AuthorizeRetry`, `LoadClosure`, `CloseBill` | the organizer's recovery routes |
| `Abandon` | an error of a read or write, a refused gate, a dead worker |
| `Open`, `Sign`, `Resolve`, `Decline`, `Validate`, `Lapse`, `Elapse` | payer, provider, ledger and time (external) |

Choices a reader should know:

- *What is one step.* A D1 batch is one step. A handler's read and the pure code up to the next await
  are one step. `synchronizeProviderRequest` reads the row, writes with a compare-and-swap and retries
  once; the read and the write that succeeds are one step, because the swap makes the value read the
  value written over. (When a swap fails because the row already has the observed status, the
  code's slot update still runs; it is the same as the step for `current = next`.) The clock that
  decides expiry is read at the start of the handler; the model reads it with the active request.
  The two reads of an authorization (the Bill, then the slot) are one step.
- *Verification.* The ledger's judgement is an outcome: `success` (a matching payment), `mismatch`
  (succeeded, but not what it should pay), `failed`. The route takes a payment link and the id of any payload
  (`payments/verify/route.ts:47-49`), so `VerifyPayment` takes any slot and any request: a `success` of another
  slot carries another invoice and is a mismatch here (`Mismatches`), which puts this slot in review.
  A pending or failed transaction is answered with an error and changes nothing, so it is no step.
- *Expiry.* The provider's `expired` flag and the row's `expires_at` are one event, `Elapse`; the code
  sets both to five minutes.
- *A payload nobody was given.* If storing the row fails the payload exists at Xaman but its link was
  never returned; it is not opened (`Reached`).
- *Ledger.* `Validate` needs the account's next Sequence. Validating any transaction, also a failing
  one, consumes it. Other transactions of the account only make pinned ones die, which `Lapse` covers.
- *Mark only partly applied.* `persistRequestState` keeps the row when `MARK_SLOT_WAITING` matches
  nothing, because a statement that matches no row is no error; the handler throws afterwards.
- *`CloseBill`.* `CLOSE_BILL` writes `closed_incomplete` to `bills.status`, whose CHECK
  (`migrations/0013_mainnet_bill_network.sql:50-52`) does not list it. The batch is undone, so the
  action never changes anything. It is kept, as the code is kept, and a finding says so.
- *`bills.closure`* therefore stays `active` in every reachable state; guards that read it are
  modelled all the same.
- *Bounds.* `Requests` bounds how many payloads are ever created, `Workers` how many handlers run at
  once. There is no other bound. With `Requests` used up, `CreateHandoff` waits and `Abandon` ends it.

`Timely` states the one assumption on time. The code chooses 60 ledgers (about four minutes) for the
transaction's window and five minutes for the request's, and bounds each upstream fetch to ten
seconds. `Timely = TRUE` makes a request elapse only when its transaction has validated or lapsed and
no handler that has passed the load of the slot is still in front of its write. `Timely = FALSE` makes
the clocks unrelated. Everything but `AtMostOnePayment` is checked or proved without it.

### TrustSetPreparation

`prep` is the row; `payload`, `elapsed` and `line` are the provider and the ledger (`world`); `work` is
what each handler in flight is doing, with the payload it is about (`payload`), the status it has read
(`saw`) and the last answer (`heard`).

| Actions | Code |
|---|---|
| `BeginHandoff`, `CreatePayload`, `StoreHandoff` | `createOrResumeRlusdTrustSetHandoff`, one action between two awaits |
| `BeginStatus`, `Load`, `Fetch`, `Apply`, `Reload`, `Verify`, `Conclude`, `Recheck`, `Fallback` | the status route and `synchronizeRlusdTrustSetPayload` |
| `Abandon` | an error of a read or write, a dead worker |
| `Open`, `Sign`, `Resolve`, `Decline`, `Elapse`, `ChangeLine` | holder, provider, time, ledger (external) |

- *The comparison.* `UPDATE_STATUS` compares the id and the status, not the payload, so a handler that
  has read the row for one payload may write it when it holds another. What the properties say is what
  survives this: a verification is never lost to another payload, and never exists without a signature.
  What does not survive is among the smaller disagreements.
- *A write that loses* reloads the row by its payload, and the handler goes on with what it finds
  (`Reload`), or ends. After a lost write of a conclusion only whether the payload is still named
  matters (`Recheck`): if it is not, the error is caught with the rest and `verifying` is written with
  the status read before (`Fallback`).
- *Trust line.* `line` is what a read would conclude. It changes at any time, because the issuer's
  freeze and authorization and the holder's own changes move it, not only the TrustSet. Whether the
  plan inserts `required` or `not_required` is a choice in `Init`.
- *A blocked line.* `failed` ranks below `submitted`, so the write that a blocked line asks for is always
  refused and the preparation stays in verification, from where no new handoff is created. It becomes
  ready if the line does.
- *A payload nobody was given.* The holder sees a payload only with the answer to the handoff that
  stored it; one whose store was refused stays `created`.
- *Bounds.* `Payloads` bounds how many are ever created and `Workers` how many handlers run at once.
- `handoff_created` is a value of the status column that no statement writes; it is left out.

### Allocation and BillCreation

`Allocation` is `allocateBill`, a pure function: `Allocates(a)` where it returns a result, and
`Obligations`, `FinalFunded` and `RemainderUnits` what the result says. Amounts are integer units, as
they are for the engine. `BillCreation` extends it: `draft`, `pending`, `review` and `error` are the
organizer's page, `bill` is what the batch stored, `paid` the slots that are paid.

| Actions | Code |
|---|---|
| `SetMode`, `SetTotal`, `SetFunded`, `SelectStrategy`, `SetEntry`, `AddPayer`, `RemovePayer` | the setters of `two-mode-bill-form.tsx` |
| `SelectRule`, `SelectWho`, `SetIncrement` | the remainder controls, while they are shown |
| `SubmitReview`, `AnswerReview` | `submitReview` and `POST /api/bills/review`, request and answer apart |
| `Reload`, `BackToDraft`, `Discard` | page reload or lost request; leaving the review; starting again |
| `Confirm` | `confirmCreation`, `POST /api/bills` and `createPublishedBill` with the CHECKs of its tables |
| `PaySlot` | the outcome of `PaymentLifecycle` for one slot |

- *A payer is its address.* Address, title, tag and label checks are left out, and so is the step counter
  of the form: sending the review asks again for what the steps asked for. A blank field is a zero one.
- *Other strategies.* The draft of the code keeps what was entered under every strategy. The model keeps
  it for the selected one only, and starts blank after a change; the same entries can be made again.
- *Publishing is one step.* The review screen disables its controls until the answer. If the answer is
  lost after the batch was committed, a stored Bill remains whose tokens nobody knows. Nobody can open
  it, and the model does not follow it.
- *One Bill.* After the Bill exists the form is not used again; `Discard` from the sharing screen would
  begin another behaviour of the same specification.
- *Bounds.* `Payers`, `Totals`, `Shares`, `Values` and `Extra` bound what can be entered. While a review is
  on its way its draft is edited at most once (`Editing`); one edit is enough for the answer to be stale.
- *Reload.* The draft lives in session storage and comes back as `sanitizeDraft` leaves it (`Restored`); a review
  that was shown or awaited does not.
- *Copy.* `CopyDraft` is what `billProgressToCopyDraft` makes of the progress page, its slots in any order.

### SettlementContract

The contract knows slots that are owed, in review or paid, the Bill's progress, and which slots the ledger
holds a matching payment for; no handler, request or provider. `PaymentLifecycle` instantiates it with
`Standing`, `Progress` and the ledger's matching payments. `Pay` is the ledger's step, `Recognise` the settlement
batch, `Question` a review mark, `Decide` an authorized retry. That the Bill may stay in review after a decision
and may go to review by a late mismatch of a paid slot is what the code does; the contract says so in the open.

### TrustSetPage

`screen` and `working` are the state of `rlusd-trustset-flow.tsx`; `call` and `reply` say which handler of
`TrustSetPreparation` serves which call of the page and what it will answer. Handlers in `Elsewhere` serve other
pages with the same token. An answer tells what the handler remembers of the row, or, where the code
reads the row again by payload (`Reread`), what the row says then. Answers arrive in any order or are lost.
Polling, focus and the provider's channel are one action with the check button. `ChangeLanguage` asks for the
details again over whatever is shown, because the effect that loads them depends on the translations.

### PayerPage

| Actions | Code |
|---|---|
| `Load`, `RecheckReadiness`, `LoadDetails`, `Confirm`, `RefreshSilently`, `CheckStatus`, `Recheck`, `Setup`, `ChangeLanguage` | what starts a call: mount effects, buttons, listeners |
| `ServeDetails`, `ServeReadiness`, `ServePayload`, `ServeStatus`, `ServeVerify` | the routes, one step each |
| `DeliverDetails`, `DeliverReadiness`, `DeliverFlowDetails`, `DeliverPayload`, `DeliverStatus`, `DeliverVerify`, `DeliverLate` | the code after the await, applied to what the page shows then |
| `Continue`, `Back`, `Retry`, `Reload` | buttons without a call; opening the page again |
| `Lose`, `Outage` | a lost answer, a service out of order |
| `Sign`, `Resolve`, `Reject`, `Elapse`, `Validate`, `LoseReadiness`, `GainReadiness`, `AuthorizeRetry` | wallet, provider, ledger, accounts, operator (external) |

- *Two components.* `PayerReadyPaymentFlow` (`shell`) mounts `PayerLifecyclePaymentFlow` (`flow`) while the
  accounts are ready. A readiness answer may take it away with all it remembers; the handlers it had
  started still run (`DeliverLate`).
- *Another language* runs the shell's effect again (`ChangeLanguage`), because `load` depends on it: the shell is loading,
  the flow is taken away, and the answers of the shell's earlier calls still count, so two loads and their readiness
  checks overlap. The same effect of the flow sends one more read, whose answer is that of a flow that is gone;
  it is left out.
- *The server* is one step per request, because `PaymentLifecycle` says what its interleavings amount to: one
  active request, a settlement by a validated payment, no payment twice.
- *Bounds.* Two calls in flight are enough for one answer to overtake another; listeners leave one call to the
  buttons (`Spare`), so that the bound never stops a payer.

### ServerDecisions, PaymentReadiness, PaymentVerification

A *case* has what is to be decided (the frozen intent, the payload's flags) and two states of the ledger, the old
and the new. `Close` makes the new one the ledger's, `Follow` lets an endpoint catch up. A *read* is asked of
one endpoint after another, and remembers which state answered. `kind` is the request:

| `kind` | Request | Decided by |
|---|---|---|
| `verify` | `POST /api/payments/verify` | the provider's status, then the verifiers' checks in their order, then the taxonomy |
| `replace` | the search for an earlier payment | pages of `account_tx`, then the verifiers for each match |
| `readiness` | both accounts before a handoff | four reads side by side, then up to four that the ones before ask for |
| `prepare` | the plan of a trust line | five reads, then the limit to ask for |
| `accept` | `check-mainnet-rlusd-account-readiness.mjs` | one endpoint's facts of one pinned ledger |

- *What the properties compare with* is written apart from the code's checks: `PaysTheSlot`, `PaymentSucceeds`
  and `PlanFits` say what the ledger did or would do, by its own rules.
- *Amounts* are decimals with coefficient, fraction and exponent, as the ledger spells them; parsing of the
  text is left out, its results and its refusals are not.
- *An error as an answer.* `account_info` and `account_lines` take an error of the server for an answer and ask no
  other endpoint (`EndpointRefuses`); all other reads go on.
- *The network is two facts.* `getNetworkReadinessState` asks `server_state` and `fee` side by side; each goes its own
  way through the endpoints (`reserves`, `fees`), and `NetworkOf` puts the answers together.
- *Torn reads.* The ledger may change any facts together, as a trade changes the account and the line. `Torn` says that
  two facts that changed were read on both sides of the change: then the request knows a ledger that never was, and
  `PaymentAsRead` and `PreparationAsRead` are that ledger. `READY` is no more than preflight information then: the
  payment may be refused by the ledger, which costs its fee. The operator's script pins one ledger, and cannot be torn.

### PaymentReceipts

One slot, and handlers that load it, have a payment confirmed by the ledger and settle it. `receipts` and `records`
are the two tables, with the time of the verification (`at`) and the digest of what was verified; `records` also
says whether it has the digest of a public proof.

- *XRP* is written by `INSERT_SLOT_RECEIPT` (`WriteReceipt`); the two triggers of migration 0008 copy it
  (`SyncRecord`). An *issued* payment goes to the records only (`WriteRecord`).
- *Digests.* The digest of a verification contains its time, so that of a later one differs; it is written as that
  time. The digest of a public proof does not, so it is only there or not.
- *Migrated rows.* A slot that was paid before migrations 0006 and 0007 starts with rows that lack the newer digest
  (`Migrated`); the next verification completes both.
- *The batch and its judge.* `Settle` commits what the statements do and then judges what was read back
  (`ReadsBack`, `Confirms`), so an answer may be an error although the payment is stored. A slot that refers to no
  record rolls the batch back (the foreign key of migration 0009).
- *Around it.* `Review` and `Release` stand for the other handlers of the Bill; what `PaymentLifecycle` asks before it
  reviews or releases is left out, which allows more. `Tick` moves the Worker's clock up to `MaxTime`.

### OrganizerPage and SavedWallets

`OrganizerPage` has a panel and controls that load apart, a link that may change under them, and the two routes
with the reads and the batch of an authorization as steps. A Bill is a revision and what its slots are. The
panel is keyed by the link (`ProgressLoader`), the controls are not. `floor` records the newest revision the panel
has to know. `Close` fails in the code as in `PaymentLifecycle`, so it changes nothing here.

`SavedWallets` is the store and every writer of it: the picker's editor, the star, an import, the wallets of a Bill
just created, deletion. Each writes one record per transaction, from the list its tab read last. A wallet stands for
network and address, of which the unique index admits one record.

### ReleaseDocuments, DatabaseProvisioning, MainnetRelease

`docs` has one field per fact that a check reads, and `Files` says which fields share a file, so that an importer
that stops has written some files and not others (`ImportStops`). `named` is what the text of the gate's audit check names:
only the import of RLUSD rewrites it, for the final audit, and the operator. `ChecksPass` is what `pnpm build` checks;
`HaltedConfigAllowed`, `PublicConfigAllowed`, `WindowAllowed`, `XrpReady` and `RlusdReady` are what each script asks
before it acts.

| Actions | Code |
|---|---|
| `StartRun`, `CreateDatabase`, `Migrate`, `RunFails`, `ReportRun`, `AddMigration`, `ImportProvisioning`, `ImportForward` | `scripts/provision-mainnet-d1-core.mjs` and the import of its reports |
| `Import`, `ImportStops`, `EditDocument`, `MistakeDocument` | the importers; the operator's own edits, right and wrong |
| `PrepareWindow`, `DeployWindow`, `Tick`, `TrialPayment` | `prepare-mainnet-*-acceptance.mjs`, the operator, the clock, the acceptance payment |
| `StartHalted`, `StartPublic`, `BuildFails`, `Deploy`, `Verify`, `JobKilled`, `DeployCommitted` | `run-mainnet-*-deployment.mjs` with its rollback; `pnpm deploy:mainnet` |

- *Reports are honest* and evidence is not edited by hand: what a report says was seen. What an operator may get
  wrong is in `Mistakes`, the order and moment of every command included.
- *The Worker* is its mode and window; `OperationsMode` and `Authorized` are `config/payment-operations.ts` and
  `config/mainnet-acceptance-authorization.ts`.
- *The committed target* that the windows are prepared from has the modes `internal` and `halted` and a database that is not its
  own preview (`CommittedTargetIsHalted`). Of the variables in the model (`closed`: disabled and halted, `reviewed`, `public`) only the reviewed ones
  have these modes, and the placeholders are one id; variables with these modes and without the approvals are left out.
- *Two families.* A release starts with its databases in place; the databases are followed at two moments, before
  anything was imported and after the halted Worker was reviewed, without the rest of the release.

## 3. Runs

| Run | Instance | Question |
|---|---|---|
| `one_slot_races` | 1 slot, 2 requests, 2 handlers, `Timely = FALSE` | do rows and review decisions survive every race for a slot and its replacement, and does everyone outside see only steps of the contract? |
| `two_slots` | 2 slots, 2 requests, 2 handlers, `Timely = TRUE` | does the Bill row agree with its slots whatever the handlers of the slots do, and can a slot be paid twice on the ledger? |
| `fair_polling` | 1 slot, 2 requests, 1 handler, fairness | is a payment that was made recognised in the end, as the contract's fairness asks? |
| `trustset_handlers` | 2 payloads, a handler of the page and one of another page | what holds of a preparation whose payload is replaced while handlers still work on the old one, and of the page over it? |
| `trustset_page` | 2 payloads, 1 handler, fairness | do the buttons of the page lead to its final screen once the line suffices? |
| `bill_creation` | 3 payers, totals 4 and 5, own part 0 or 1, every strategy and rule | do the browser and the server agree on what is exact, does what is stored add up and explain itself, and does a copy of it ask the same of everyone? |
| `payer_page` | 2 payloads, 2 calls, one loss, outage, needless reload or change of language | is what the page shows true, and is it ever stuck? |
| `payer_progress` | 1 payload, 2 calls, one such trouble, fairness | do the buttons of the page lead a payer who has paid to a page that says so? |
| `decisions` | 2 endpoints, histories of up to 3 transactions and 2 pages, one failure; 2 handlers, 2 payments of a slot, 3 times | is what the server decides true of what it read and of the ledger, and is a good payment found in the end; can every paid slot be proved, and be verified again? |
| `release` | 3 mistakes or failures, 2 ticks of a window, 3 provisioning runs, 3 migrations | can anything unverified open Mainnet payments, and do windows close by themselves? |
| `browser` | 2 Bills with a slot each, 3 requests in flight, one loss; 2 tabs, 2 wallets, 2 writes | does the organizer decide on the right Bill and see the newest state; does the address book stay readable? |
| `doc_closure` | the smallest instance that shows it | a statement of a document the code does not meet |

`two_slots` looks at states without `audit` (`VIEW`), which its handlers write and neither they nor its invariants read.

Every property has a mutant in `PROJECT.json`: an operator marked as a mutant in the module that
replaces the definition it precedes the way a plausible bug would.

**Why these bounds.** The hazards of the lifecycle need a request and the one that replaces it (2 requests), a handler
that acts on what another has changed (2 handlers), and two slots only where the Bill is shared. A
third handler adds no new pair of steps: every action touches one slot, one request and the Bill, so
a conflict is between two handlers. The theorems of section 4 remove these bounds for most of the safety
properties. An issued amount of the ledger has up to 16 digits; TLC's integers allow `MaxDigits` = 9, and the theorems
any number. For `BillCreation`, 4 and 5 units among
two or three payers leave remainders of no, one and two units and floors of zero, percentages of 25 and 50 and
shares of 1 and 2 give unequal floors, and an own part of one unit meets every rule. On the payer's page two calls
make every pair of an older and a newer answer, and two payloads a replaced one. In `decisions` the transaction differs
from the requested one in up to two fields, so that every check is the first to fail and no check hides behind another;
amounts are spelt in eight ways; three transactions on two pages put a payment on the last page read and on the one
after it. Account facts change alone, or two of them together with each ledger short of another one, so that torn reads
say ready of accounts that never were. Two endpoints and one failure make every fallback, and every end of the list; two handlers and two payments
make a race for the slot, and three times a first verification, a second one and the settlement after both. In
`release` two ticks tell an open window from an expired one, and three mistakes are one more than any
single document can be wrong by; migrations up to three make a checkout that is behind by one and by two. In `browser` an
answer of an earlier link, one of this link and one of a decision are in flight together.

**Fairness.** The server starts nothing by itself. In `PaymentLifecycle`, `Fairness` says that a handler that began
goes on (a Worker runs its awaits), that Xaman eventually reports a signed payload as resolved, that the page
asks for verification of its own slot's payload again and again (`docs/xaman-lifecycle-persistence.md:41-45`: polling, focus and
socket-triggered refresh), and that the settlement batch does not fail for ever. `SF` is needed for the
last two: other handlers and outages interrupt them.

`TrustSetPage` and `PayerPage` do not assume that the page asks, they say which buttons there are: a holder or payer
who stays keeps using what the screen offers, reads and writes that are tried for ever succeed at some time, and the
external services end what they began. `PayerPage` opens the page again where it offers nothing (`DeadEnds`); a
`Funded` payer is found ready in the end. `ReadyIsShown` has the sufficient line in its premise, not in the fairness,
and is checked with one handler: with two the tableau of its strong fairness is out of TLC's reach. `OrganizerPage` is
served and answered, and its organizer decides on what is offered and comes back for what waits. `ServerDecisions`
asks that a request runs to its answer, that the ledger closes, and that endpoints follow it. In
`MainnetRelease` only the clock is fair: operators and jobs may stop at any point.

**Coverage.** `MarkMultiple` needs two matching payments in the history of one slot, which
`AtMostOnePayment` excludes under `Timely`; `one_slot_races` reaches it. `CloseBill` and the organizer's close
never change a Bill, as the finding says. `browser` explores the page and the address book one at a
time, because they share no state.

### Findings

| Run | What the code does |
|---|---|
| `doc_closure` | closing a Bill incomplete always fails on a CHECK: `CLOSE_BILL` writes `closed_incomplete` to `bills.status`, which does not list it |

Other disagreements between the code and the repository's documents were met on the way and have no run.

*Requests and settlement*

- The Bill's review state, caused by one slot, blocks the receipts of all other slots (`bills/receipt-write-sql.ts:23`),
  whose payments the ledger already holds.
- A late mismatch on a paid slot puts the Bill, and no slot, in review (`bills/payment-review-store.ts:17`); nothing can
  release it. `SettlementContract` allows this in `Question`.
- A submitted transaction that failed leaves its row `submitted`, hence active, so every later request of the
  participant, also after an authorized retry, is answered with it (`bills/create-persisted-payload.ts:62`), where
  `docs/payment-lifecycle-contract.md:275-277` calls this safe retry with a new Wallet Handoff.
- `xaman/status.ts:30` asks for `expired` before `signed`, so a signed payload without a transaction id yet is
  recorded as expired, for requests and preparations alike, where `docs/xaman-lifecycle-persistence.md:81` and
  `docs/rlusd-trustset-preparation.md:131` say it is not. Nothing asks whether the first transaction can still
  validate when a replacement is created, only the clocks prevent a second payment: without `Timely`,
  `AtMostOnePayment` fails.
- A repeated observation of an expired request passes `shouldApplyLifecycleTransition`
  (`persistence/request-state-store.ts:143`) and moves a slot whose replacement is submitted back to
  `expired`, where `docs/state-machine.md:203` says that events cannot regress a later state.
- `retry_authorized_at` is never cleared (`bills/bill-recovery-management.ts:166`), and the controls offer only slots
  without it (`bill-recovery-controls.tsx:293`): a slot that comes to review a second time is never offered again
  (`docs/review-retry-closure.md` sections 1 and 3). `ReviewIsReleased` is therefore about the first review of a slot.
- A slot that is verified again while its Bill is in review is answered with a database error, because what is read
  back must be of a Bill that is `partially_paid` or `settled` (`bills/settle-slot.ts:32`,
  `bills/settle-issued-slot.ts:41`), where `docs/persistence-scope.md:29` says that "exact re-verification is
  idempotent". `ReverificationIsIdempotent` is therefore about Bills that take payments.
- Of two overlapping first verifications of an issued payment the later one is answered with an error although the
  slot is paid: it loaded the slot before and its digest has another time (`bills/settle-issued-slot.ts:215-222`),
  where `docs/state-machine.md:345` says that repeated processing returns the existing result. Asking again helps.
- The digest that completes a migrated receipt is of the later verification, while `verified_at` stays the earlier
  one (`bills/receipt-write-sql.ts:26-36`), so it cannot be recomputed from the row.

*Creation of a Bill*

- A draft edited while its review is on its way is published, and not the one that was shown
  (`two-mode-bill-form.tsx:470`).
- The review endpoint of a Mainnet deployment asks for Testnet and refuses every draft (`src/app/api/bills/review/route.ts:22`).
  `ReviewsAreAccepted` and the run are about the Testnet.
- In direct mode without a choice the remainder goes to the first participant and no control is shown
  (`two-mode-bill-form.tsx:289-292` and `675`), where `docs/money-and-allocation.md:234` prohibits a hidden
  assignment.
- Where the creator rule leaves some payer nothing, the preview of the remainder fails and no control is
  shown (`bills/allocation-form.ts:87-96`), although giving that payer the remainder would be exact.
- The review endpoint does not check RLUSD recipient readiness, which `docs/bill-review.md` section 5
  lists among its checks.

*Pages*

- A stale `expired` or `rejected` answer replaces whatever the payer's page shows, a verification in progress and a
  verified payment included (`testnet-payment-flow-v3.tsx:269`); `PaymentIsShown` holds because every screen leads back.
- A lost answer to the details or to the creation of a payload, and halted operations, end on a screen without a button
  (`payer-lifecycle.ts:151-195`, `terminal`); only opening the page again helps (`DeadEnds`).
- A request that could be resumed is refused while the accounts are not ready (`payload/route.ts:84-97`), where
  `docs/ui-ux-spec.md:321` has the active request resumed.
- An expired or failed TrustSet screen offers only a new payload, so that a late signature of the old one is seen only by a
  check that is already in flight (`docs/rlusd-trustset-preparation.md` section 6).
- `UPDATE_STATUS` of the TrustSet store compares no payload (`xrpl/rlusd-trustset-store.ts:199`), so the
  submission of a replaced payload can be written over the row of its replacement
  (`docs/rlusd-trustset-preparation.md:148`); the next check of the row corrects it. A handler that lost the write of the
  submission goes on to write the verification without its transaction id.
- The plan refuses lines whose numbers are finer than the asset's precision, which the readiness checks accept.
- "Save wallets used in this Bill" overwrites labels and removes stars silently
  (`docs/wallet-input-and-local-address-book.md` sections 8.4 and 8.6); a star set from a stale list reverts what another
  tab edited, and brings back a record that was deleted there.
- The classifications of `payment-recovery/taxonomy.ts` for provider, readiness, slot and reconciliation states are called by
  no code of the program.

*Release*

- The plan's first stage cannot pass the plan check and the evidence check together, and the imports of the provider
  record, the stop drill and the databases leave a plan that fails until it is edited by hand.
- The branch of the XRP import for a replayed report is never reached.
- `prepare-mainnet-xrp-acceptance.mjs` asks for no stage, and neither prepare script runs the readiness checks.
- `deploy:mainnet` after the approval deploys the committed variables, which are the halted ones.
- The public verification looks at the status endpoint only.
- The plan check asks the gate's text to name every open finding (`check-mainnet-release-plan.mjs:301-305`), where
  `docs/mainnet-release-plan.md:65` has it list no resolved one; every import but that of RLUSD leaves it naming what it resolved.

## 4. Theorems

| Module | Theorem | States |
|---|---|---|
| `PaymentLifecycle_proofs` | `TypeCorrect` | `Spec => []TypeOK` |
| | `HandlersSound` | `Spec => []HandlersAreSound` |
| `PaymentSettlement_proofs` | `ReceiptsCorrect`, `PaidSlotsAreFinal` | receipts and paid slots correspond; a paid slot never changes |
| | `BillCorrect`, `SettledBillsAreFinal` | the Bill agrees with its slots; a settled Bill stays settled |
| | `ReviewsEndByDecision` | only a recorded decision ends a review |
| `PaymentLifecycle_proofs` | `RequestsCorrect`, `SlotsAreBacked`, `RowsNeverRegress` | one active request; slots backed by rows; rows never go back |
| | `OnePaymentPerSlot` | `Timely` implies that no slot is paid twice |
| `PaymentSettlement_proofs` | `HandlersImplementContract` | `Spec => ImplementsContract`: the lifecycle implements `SettlementContract` |
| `TrustSetPage_proofs` | `PreparationTypeCorrect` | `Spec => []TypeOK` |
| | `SignatureComesFirst`, `VerificationsAreKept` | no verification without a signature; none is abandoned or moves back |
| | `RowsAreBacked` | the row names only payloads the holder was given |
| | `PageDrivesThePreparation` | `PageSafety => Spec` of the preparation |
| | `ReadyScreensAreTrue` | the page says ready only of a ready preparation |
| `BillCreation_proofs` | `ReviewsAreAccepted` | on Testnet a draft the form calls exact is never refused by the review |
| | `FrozenBillsAddUp` | every stored Bill passes the sums of the progress page |
| | `BillsComeFromDrafts` | the stored Bill is what was accepted of a draft; no table refuses it |
| | `RecordsExplainBills`, `SplitsAreFair` | the rows explain the slots; bases are exact shares rounded down |
| | `CopiesReproduceBills` | a copy asks of every payer what the Bill asked |
| `PayerPage_proofs` | `PageIsInvariant` | the inductive invariant of the payer's page |
| | `PaidScreensAreTrue`, `VerificationsAreSingle`, `BusyScreensAlwaysEnd` | paid screens are true; a payload is verified by one call at a time; every screen without a button waits for a call |
| `OrganizerBrowser_proofs` | `PanelsAreCurrent`, `RetriesNameTheirBill` | the panel never goes back; a recorded retry is of a slot of its Bill |
| | `BooksStayReadable`, `PayerUsesKeepTags` | no order of writes of any tabs stores a record the list refuses; a payer's use keeps role and tag of a recipient |
| `ServerDecisions_proofs` | `DecisionsAreInvariant` | the inductive invariant of a request that reads a moving ledger |
| | `PaidMeansDelivered`, `RetriesAreSafe`, `ReviewsAreRecorded` | verified means delivered in full; a retry only after a known failure or a searched history; a review is told after it was written |
| | `ReadinessIsInvariant`, `ReadinessAnswersAreTrue`, `PlansAreEnough` | a readiness answer is right about what was read, a planned limit carries the planned amount there; unless the reads are torn, both are so of a ledger there was |
| | `ReceiptsAreInvariant`, `PaymentsAreProven`, `RepeatsChangeNothing` | a paid slot has its receipt and record; verifying it again changes nothing that was accepted |
| `MainnetRelease_proofs` | `ReleaseIsInvariant` | the inductive invariant of documents, databases, jobs and windows |
| | `DatabaseEvidenceIsKept`, `PaymentsWaitForTheReview` | an accepted database record is true; the public Worker was seen halted and had both payments settled |
| | `ImportsKeepTheChecks` | importers keep documents that pass all checks passing, and half an import passes none |

**Assumptions.** The theorems of `PaymentLifecycle` and of its contract are proved for any `Slots` and `Workers`
and any finite `Requests` (`ConstantsOK`); `OnePaymentPerSlot` also assumes `Timely`. Those of
`TrustSetPreparation` hold for any `Payloads` and `Workers` and assume that `None` is no payload
(`PreparationConstantsOK`), those of its page that payloads are told from the other answers
(`PageConstantsOK`). Those of `BillCreation` hold for any payers, amounts and entries; `ReviewsAreAccepted` assumes
the Testnet, because the review endpoint refuses every Mainnet draft (section 3). The payer's page has any number of calls,
payloads and tabs, where `None` is no payload and a recipient's account is funded or not (`PageConstants`); the
organizer's page any Bills, slots and requests, each slot of one Bill (`PageConstantsOK`); the address book any wallets and
tabs, with nothing assumed. The receipts hold for any transactions and handlers that are told from `Nil`
(`ReceiptConstants`). The decisions hold for any endpoints, pages and number of failures, and any cases in which a
validated transaction is final and every payment of a searched history that carries the slot's invoice is as the request
asked, since only the request tells the invoice (`DecisionConstants`); amounts have up to `MaxDigits` digits for any
`MaxDigits`, and `PowersOfTen` says of `10^n` what the provers do not know of it. `LegalFacts` says what accounts
are like: no limit is below zero (the ledger has no such line), a transaction costs something, numbers have up to `MaxDigits` digits
after the point. It says nothing of how the two ledgers of a case differ.
The release has at least one migration and
one tick of a window (`MigrationsAssumption`, `WindowAssumption`). TLC evaluates each of these assumptions.

**Rows, receipts and the Bill.** `TypeOK /\ HandlersAreSound` is inductive: what a handler remembers (its request is
of its slot, the verdict it settles on is the ledger's) stays true because the facts it remembers never
change back. On it stands `ReceiptsInv`: the receipt and the slot are written under the same guard, and
a second receipt for a paid slot is refused. `SettlementCases` lists what one step can do to receipts,
slots and the Bill, and every theorem on settlement is a case split over it. `BillInv` needs that each
of the three writers of the Bill recomputes it from the slots as its own batch leaves them.

The rows need a second invariant. `ReportsAreTrue` says that an observation in the memory of a handler
is one the provider has really reported, and that `submitted`, `rejected` and `expired` never stop being
true. With it a late write of any handler writes the truth, though perhaps an old one.

**One payment.** `AtMostOnePayment` is not inductive. `PaymentInv` strengthens it: a request that elapsed is decided
on the ledger (`ElapsedIsDecided`, from `Timely`); a replacement about to be created or created was preceded by
a reconciliation that saw no success (`ReplacingIsFresh`); all earlier requests of the slot are dead
(`OthersAreDead`) or pinned to a Sequence that is used (`PinsAreSequences`); a payload with no stored row
is unsigned (`UnsignedIsUnsent`). Two successes would then need one Sequence twice.

**The contract.** The refinement mapping reads the standing of a slot, the progress of the Bill and the payments
that were made off the tables and the ledger. `ContractInit` maps the initial state. `ContractStep` takes each
case of `SettlementCases` under `BillInv` and names the one step of the contract it is, or shows that nobody
outside can see it; `MadeChanges` says that the payments change by a validation only, one slot at a time, in a
step that touches no row. The fairness of the contract (`ImplementsFairContract`) is left to `fair_polling`.

**The preparation and its page.** `PreparationInv` adds to its three invariants `MemoryIsTrue`: a handler that
synchronizes a payload got it from a row, so the holder had it; one that heard of a submission heard the
truth, and a resolved payload stays resolved; and no two handlers are about to store the same payload,
which is what keeps a refused one out of the holder's hands. `UpdateKeepsRow` is the one lemma on
`UPDATE_STATUS`, for all three places that call it, whatever status the caller has read.

`PageStepIsAStep` makes every step of the page one of the preparation or a stutter, so its theorems hold of the
page as well. `PageInv` then says that a row a handler remembers as settled is settled (`RemembersSettled`),
which holds for ever because a settled row stays as it is (`SettledStays`); answers are made from what
handlers remember (`AnswersAreTrue`), and screens from answers.

**The creation of a Bill.** `SendsReadyDrafts` is inductive: the draft that was sent is one the button let
through, and a direct draft never carries a funded part or the creator's rule (`EditsKeepDrafts`, one step per
setter). The browser evaluates the draft with its rule and the server receives the rule only where a remainder
is shown, so `NoRuleIsNeeded` carries the argument: an input that allocates without a remainder allocates to
the same obligations when its rule is dropped. `FrozenBillsAddUp` rests on `AcceptedAddsUp`, that what
`Accepts` lets through is final, and on the sums of the progress page being those of the engine. In these two proofs
the sums stay unexpanded.

The other three need to know what a sum is. `SumFunction` is a fold that takes the elements of its domain one after
another; `IterateExists` shows that the recursion under it has a solution for every finite domain and `IteratesAgree` that it has
one, both from a least counterexample, because the induction theorems of the library cannot be used. From `PartSteps`,
which takes off one element, come the six facts on sums (`SumsAdd`, `SumsScale`, `SumsCompare`, `SumsCompareStrictly`,
`SumOfOnes`, `SumOfOne`). With them the floors and the remainder make what there is to distribute
(`FloorsAndRemainder`: multiply by the denominator, compare the sums, cancel), and what a rule adds is the remainder
(`IncrementsAddUp`). `FormInv` says that the stored Bill is what was accepted of a draft, so the three properties
are statements about `Stored`. For a copy, an order of the slots has all the payers, because an injection into as many
is onto.

**The payer's page.** `PageInv` has three parts besides its types. `FlowInOrder` says that a flow that is not mounted remembers
nothing and has no call that it waits for, so that a load that comes late mounts a new flow or leaves the present one; it makes it sound
to ignore the answers of older flows. `VerifiesOnce` is the
property itself, `OneVerificationPerPayload`, in both directions: what the page remembers as being verified has exactly one
call, so the memory never blocks a later check for good. `PaidIsTrue` is about messages and screens together: an answer that
says paid is true when the server gives it and stays true on its way, because a paid slot stays paid, so the
screen that follows it is true however late it comes. Most steps touch one call and leave the page alone;
`QuietKeeps` disposes of these at once.

**The organizer's page and the address book.** The panel can be trusted because it waits for one request only
(`PanelWaitsForOne`): that request is of the present link, and was asked after everything the panel has shown, so its answer is at
least as new. Answers of other requests reach the controls only, and there `CallInOrder` says that a retry names a slot of the Bill of
its own link once the route has looked it up. `WalletsInv` says that not only the store but also every list a tab shows and
every draft it has still to write is valid, which makes a late write of a stale list harmless.

**The decisions.** `ReadsAreTrue` connects a read with the ledger it saw: a read that is over has what some state of the
ledger, not later than the present one, held. For `PaidMeansDelivered` a validated transaction is then looked at field by
field, in the order of `Checks`: that none of the checks fails means that all that can differ agrees, and the equality of
spelt amounts with requested units is arithmetic on coefficients and powers of ten. `RetriesAreSafe` needs the
converse for a searched history: a transaction that pays the slot is verified, hence the search that found none has passed
each of them. The first of several matches is found through a least-number principle (`LeastNumber`), which
the library gives for well-founded orders without an operator parameter.

**Readiness and plans.** `ReadinessInv` says of every single fact that some ledger held it when it was read (`FactsAreTrue`), and of
the operator's snapshot that all its facts but the fee are of one ledger. The other answers are compared with any ledger that shows
what the reads showed (`Agrees`): were the payment to succeed there, no role would have been blocked (`BlockedPaymentsFail`), and if both are
ready it succeeds (`ReadyPaymentsSucceed`). The issuer alone is read twice; of its two readings the laxer one is what
the payment needs. What was read, put together, is such a ledger (`PaymentReadAgrees`, `PreparationReadAgrees`); and unless the reads are
torn, one of the case is: all facts that changed were read on one side of the change, those that did not belong to both (`UntornAgrees`).
What is left is arithmetic. The code aligns two decimals to the finer precision before it compares them, the ledger's rule
(`Exceeds`) multiplies crosswise; `DifferencesCompare` and `UnitsCompare` show that both say the same of any two precisions.

**The receipts.** `ReceiptsInv` states what is only implicit in the triggers: a slot is paid exactly if it has a
transaction and a time (`PaidHasATransaction`), a record has the digest its asset calls for (`RecordsOfTheirAsset`), and what a
handler saw of the slot before its batch is still so where it saw a payment (`HandlersKnow`). `RepeatsChangeNothing` follows from
what each statement of the batch does under these.

**The release.** `DatabasesInv` orders the two databases: production is never created before preview nor ahead of the
files of the run, so a report, which counts what production had, stays below it. `ReviewComesFirst` carries
that nothing can be paid before a job saw the halted Worker; `PublicIsWatched` that a public Worker is one a job verified, left
unclosed and noted, or is still at work on, which is the reason a failed rollback cannot hide one. For the importers the
documents decide everything but the plan and the gate's text (`Follows`, `NamesItsFindings`): the decision, the gate, the audit and the cleared records follow from the evidence
whenever the checks pass, so an import is checked against what the next check derives. It needs that RLUSD is accepted last
(`RlusdComesLast`), because the import of the provider record would otherwise complete the evidence without the decision
that goes with it.

**Only model-checked.**

- Liveness: `ImplementsFairContract`, `ReadyIsShown`, `PaymentIsShown`, `PaymentIsVerified`, `ReviewIsReleased`,
  `ForgottenWindowCloses`; and the finding `ClosureIsPossible`.

## 5. Not modelled, and why

- *Amounts, addresses, tokens and timestamps* are outside the models of the two lifecycles: no guard there reads
  them, except through the verdict of the verifier, which `PaymentVerification` makes field by field.
- *Text.* Labels, addresses and the parsing of decimals are checked character by character in the code and are
  good candidates for unit tests; the models start from parsed units. Localization, help and guide texts are
  static.
- *What a public link hides* of the progress page (labels, addresses, invoices) is left out; the proof digests are not.
- *Replaced and unused code.* No page or route reaches `testnet-payment-flow-v2.tsx`, `testnet-bill-form-v2.tsx`,
  `payment-verification/service.ts`, `verified-payment-receipts.ts` and `dispatchPaymentVerification` any more.
- *Reports, GitHub and Wrangler.* The release model follows what the checks, imports and jobs decide and in
  which order; the layout of the documents and the tools they drive are left out.
- *A second publication after a lost answer* leaves a Bill nobody can open (section 2, Publishing is one step).
- *The unique index on a receipt's network and invoice* is never the one that refuses, because the slot's own
  guard refuses first.

## 6. Plan

1. *(done)* `PaymentLifecycle` with its runs and its safety theorems.
2. *(done)* `TrustSetPreparation` with its runs and theorems, and `TrustSetPage` over it.
3. *(done)* `Allocation` and `BillCreation` with their run and first theorems, reloads and copies included.
4. *(done)* `SettlementContract` and the proof that `PaymentLifecycle` implements it.
5. *(done)* `PaymentVerification`, `PaymentReadiness` and `ServerDecisions`: verification, recovery, readiness, the plan.
6. *(done)* `PayerPage`, `OrganizerPage`, `SavedWallets`, `PaymentReceipts`, and the release modules.
7. *(done)* Proofs about `PayerPage`, `OrganizerPage`, `SavedWallets`, `PaymentReceipts`, `ServerDecisions` and
   `MainnetRelease`.
8. `PayerPage` over `PaymentLifecycle`: its server steps shown to be those of the handlers, as `TrustSetPage` does
   for its own.
9. *(done)* Proofs of `ReadinessIsTrue` and `PlanIsEnough`.
