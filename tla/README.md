# Verification of navomnisERP

TLA+ models of navomnisERP: its back end (`src/apps/api`, NestJS + Prisma +
PostgreSQL + BullMQ) and its two browser applications (`src/apps/web` and
`src/apps/admin`, React Query), checked with TLC and, where the claim should hold for
every number of orders, requests, consents or users, proved with TLAPS. Paths below are
relative to `src/apps/api/src` unless they start with `docs/`, `scripts/`, `web/` or
`admin/`: those are relative to `src/`, `src/apps/api/`, and `src/apps/`.

## 1. The system

One API process answers HTTP requests; each handler is a chain of awaited statements
against PostgreSQL at READ COMMITTED, some of them inside `$transaction`. A second
process (`worker.main.ts`) runs BullMQ processors. Handlers never lock a row they
read, so every await is a point where another request may act. There is no in-process
state shared between requests: the tables are the state. Migration scripts run the same
services from a process of their own. In a browser, the state is the query cache: answers
of the API under a key, which mutations invalidate, and which pages show meanwhile.

| Component | State | Operations | What is hard | What makes it correct |
|---|---|---|---|---|
| Purchase orders (`modules/purchases`) | order, lines, total, receipts, `receivedBaseQuantity` | create, edit lines, submit, release, receive | read-then-write in every handler; edit and total are separate statements | total = sum of lines; received <= ordered; status tells what is still to come; lines fixed after draft |
| Approvals (`modules/approvals`) | policies, instances, actions | create policy, submit, approve, reject, request changes | two statements per decision; policies and flag change under an open instance | order and instance agree; approved only after all steps of a policy that covers the amount |
| Sales orders (`modules/sales`) | order, lines, lot of a line | create, edit, release (with or without FEFO) | balance read once, lots copied, absolute writes | posts exactly its lines; no lot below zero; no stock sold that is not there; FEFO order |
| Produce and inventory (`modules/produce`, `modules/inventory`) | lots, losses, `ItemLedgerEntry` | create lot, loss, balances | lots and ledger are two records of one quantity; entries without base quantity | lot = sum of its ledger entries |
| Open Finance consents (`modules/banking/consent`, `connections`) | connection, consent, OAuth session, credential vault | connect, callback, revoke, expiry sweep | calls to the bank between read and write; crashes | credential exists iff it should; bank and vault agree; state machine respected |
| Bank sync (`modules/banking/sync`) | `BankSyncJob`, queue | enqueue, run | worker crash and redelivery; errors nobody catches; credential revoked meanwhile | a queued job ends, with a record where the code makes one |
| Reconciliation, finance bridge | matches, bank ledger | suggest, confirm, post | check-then-create, not transactional | the best suggestions, each once; one posting per confirmation; a match marked only after its posting |
| Imports, CADEG (`modules/imports`, `modules/cadeg`) | batches, rows, orders, master data, shipments | upload, parse, commit, provision, reconstruct purchases, ship | redelivery, re-runs, two commits at once, death between statements, jobs with one attempt | an invoice becomes one order, whole; what a load leaves out is known; nothing is loaded twice |
| Sessions (`auth`, `platform/users`, `platform/auth`) | refresh tokens, invitations | login, refresh, logout, revoke, invite, accept | rotation and revocation race; each tab keeps a copy of the session; invitations are several statements | a revoked user holds no token that refreshes; a sign-in has one token; an invitation is spent once |
| Notifications (`modules/notifications`) | delivery rows, e-mail queue | create, send | sent but not recorded, retried, ended without a record | a delivery is recorded as what happened |
| Web and admin clients (`web/src`, `admin/src`) | query cache, session, pending mutations | every page and every mutation | answers read before a commit arrive after it; pages change meanwhile; callbacks forget keys | no page is behind the user's own acts; no act is based on an answer older than the last one; the menu is that of the account |
| Subscription and legal guards | subscription, quotas, acceptances | guards on every request | order of the guards | a blocked tenant gets nothing through |
| UoM, fiscal rules | configuration rows | convert, select a rule | path search, rounding, precedence | agree with a reference definition |
| Platform administration, parties, finance, dashboards, audit, health | rows | single-row writes and reads | little | - |

Interaction: purchases call approvals inside the release transaction; receipts write
lots and ledger entries that sales releases read and write; losses write the same
lots; imports and CADEG create sales and purchase orders and ledger entries past the
normal handlers; the OAuth callback enqueues a sync job; reconciliation posts what a
sync brought; an invitation enqueues an e-mail and gives the password a session starts from;
the pages of both applications read the tables that all the others write.

The complete list with what is modelled is under `components` in `PROJECT.json`, and
every hazard found while reading, each at its line, under `hazards`.

## 2. Modules

| Module | Role |
|---|---|
| `PurchaseOrders` | purchase orders and approvals together: they write each other's status in one transaction |
| `PurchaseOrdersProofs` | its theorems |
| `SalesStock` | sales releases, lots, losses, purchase inflow and the item ledger |
| `Summation` | the sum of a function over a finite set, as `SalesStock` and `LegacyCsv` use it |
| `SummationProofs` | lemmas about such sums and about least elements |
| `SalesStockProofs` | its theorems |
| `BankConsent` | consents, credentials, the bank, the expiry sweep, sync jobs and their queue |
| `BankConsentProofs` | its theorems |
| `Matcher` | the receivables and payables that fit a bank transaction, best first, as operators |
| `Reconciliation` | suggestions made of them, confirmations and postings to the bank ledger |
| `Posting` | abstract: what confirming a match promises; `Reconciliation` implements it |
| `ReconciliationProofs` | its theorems, the refinement and the order of suggestions among them |
| `LegacyCsv` | how texts of the legacy exports become amounts, keys and derived quantities, as operators |
| `Imports` | batches, their parse jobs, and commits into sales orders; extends `LegacyCsv` |
| `Cadeg` | provisioning, reconstruction of purchases, shipments; extends `Imports` |
| `Migration` | both together, with the properties |
| `MigrationProofs` | its theorems, the refinement among them |
| `InvoiceRegister` | abstract: what importing invoices promises; `Migration` implements it |
| `Sessions` | sign-in, refresh tokens and their rotation, what the clients keep |
| `Invitations` | invitations with their notification, e-mail job and acceptance; extends `Sessions` |
| `Accounts` | both together, with the properties |
| `AccountsProofs` | its theorems |
| `Api` | which tables each endpoint the browsers call reads and writes |
| `WebPages`, `AdminPages` | the pages of the two applications: keys they ask for, mutations, buttons |
| `Browsers` | what the pages and acts have to do with one answer |
| `QueryCache` | React Query's entry of one key (a library, modelled from its use) |
| `WebClient` | a browser that opens pages, acts and loses calls, with the properties |
| `WebClientProofs` | its theorems |
| `MCPurchaseOrders`, `MCSalesStock`, `MCBankConsent`, `MCReconciliation`, `MCMigration`, `MCAccounts`, `MCWebClient` | constants and symmetry for TLC |

### How code becomes actions

A handler that reads, decides and writes inside `$transaction` is two actions: `Begin...`
copies the rows it reads into the request's local state and checks the guards of the
code on them; `Commit...` writes what the code computes from those copies. READ
COMMITTED lets anything commit in between. Where a transaction has several reads whose
order matters (the balance, then the lots of each line, in a sales release) every read
is an action. A handler outside a transaction (line edits) has an action per statement
and may die between any two. A refusal for a reason the model leaves out (user-company
link, vendor, incomplete unit of measure), an error and a timeout are the action
`Rollback` (in the bank model `CallEnds`), which is always possible. The maps in `PROJECT.json` name the lines
of every definition.

**`PurchaseOrders`.** `po[o]` holds the order row with its lines, approval instance and
postings; `view[s]`, `pc[s]` and the order a request works on are the locals of
session `s`. `CreatePolicy` adds the next policy (policies are never edited or removed by the code);
`SetApprovalFlag` switches `po_approval_required`. `BeginEdit`/`AddLine`/`UpdateLine`/
`RemoveLine`/`RecalcRead`/`RecalcWrite` are the statements of a line edit. `recd` is the
sum over `ItemLedgerEntry`, `lineRecd` the column `receivedBaseQuantity`,
`approvals` a count of approvals since the last submission (history). Data that no
decision reads is left out: unit cost is one, quantities are in the base unit.
Kept on purpose: lines of quantity zero are legal; a policy without steps lets nobody
submit and, with the flag on, nobody release; the default lot code makes a second
default-coded receipt of a line fail on the unique key of lots; `RELEASED` is never written.

**`SalesStock`.** `lots[k]` has the row's `quantityOnHandKg` and the sum of its ledger
entries (`posted`); lots are numbered by expiry. `ledger[i]` has the sum of quantities
and of base quantities: `Balance` is the code's `_sum.baseQuantity ?? _sum.quantity`,
which counts only entries with a base as soon as one has it. `BeginRelease`,
`ReadLines`, `CheckBalance`, then per line `PickLots` and `TakeLots`, then `CommitRelease`.
The order and its lines are read by two actions, since Prisma fetches an included relation by
a query of its own. `so[o].lot` is the `lotId` a release writes on a line: `Free` are the
lines a release picks lots for, `Straight` those it posts as they are, against the lot they
are bound to if there is one, without taking anything from it (`Untaken`). Only a release
writes `lotId`, so that a bound line is met by a release only when another one of the same
order commits between its two reads. A lot a transaction has written is locked until it
ends. Quarantined lots never become available, as in the code.

**`BankConsent`.** The tables of one connection, the bank (`issued`, `dead`), the
requests in flight, the queue and the worker. `BeginCallback`, `Exchange` and
`Authorise` are the parts of `handleCallback` around the call to the bank;
`BeginRevoke`, `BankRevokes`, `CommitRevoke` those of `revokeConsent`. `Hosted` says
whether any process runs the processors (see finding 3). The bank is external: it
issues a fresh token per exchange and refuses revoked ones. A sync job has one attempt:
`FailSync` is an error within the `try` of `runSyncJob`, `SyncThrows` one before it or in
its `catch`, which leaves the row as it is and takes the job off the queue; `WorkerDies` has
it delivered again once, and given up when it stalls again (`stalled`). Connection-level
behaviour kept on purpose: revoking one consent marks the connection REVOKED even when a newer
consent is authorised.

**`Reconciliation`.** No handler here uses a transaction, so every statement is an action:
`ReadTransactions` (one transaction, or the latest `Page`, those of one instant in any order:
`Pages`), `FilterUnmatched` (transactions and their matches are two queries),
then `LookForExisting` and `CreateSuggestion` for each suggestion of each transaction in
turn, where a request keeps what it has left of each (`read`, `Current`, `Proceed`);
`ConfirmMatch`, `ReadMatch`, `PostEntry`, `MarkPosted`. `SuggestDies` and `ConfirmDies` stand for a crash,
an error or a lost connection at any of them. What is suggested is computed by `Matcher`,
in integers: a matcher gives no suggestion or one, the first of its hits, so that their
ranking is the one descending sequence of a set of two at most. The open receivables and payables are a constant, since no code of the
repository writes them; posting a match does not close them, and no code rejects a match.
They have no end-to-end id, so that the PIX matcher never suggests anything here. `Sync` is
the upsert of `syncTransactions`; `runSyncJob` calls it for job types that no code of the
repository creates. `Page` is the 50 of the first query; the limit of 100 entries per
query is left out, and so are the amount and the side of a ledger entry, which nothing reads.
`Posting` is deliberately weaker than "posted once": `confirmMatch` overwrites POSTED, and a
second confirmation posts a second time, in any order with the first. What the code does
give is one entry per confirmation, a confirmation that gives up only on a match that has been posted, and
no match marked before it is posted.

**`Imports`, `Cadeg`, `Migration`.** Only the order of an invoice with its lines is
written in a transaction: every other statement of a flow is an action of a process, and
the process may die between two. A request creates a batch and then queues its parse; a
worker takes the job, or a script parses itself; a job whose worker died is delivered once
more, and one that throws is lost, for it has one attempt (`ParseThrows`). A commit
reads rows, customers and order numbers one after the other and then posts invoice by invoice. The scripts walk their lists in order: provisioning looks up or
upserts master data and may stage a batch; the purchases import reads what it compares
with and creates a received order for each monthly amount it can derive a quantity of; the
shipments look for an entry and create it. Each is real or dry. Kept on purpose: jobs
named `validate` do nothing, since the processor looks for a batch of that name; rows of
a customer the commit did not know stay VALID in a COMMITTED batch that is never committed
again; the dry run of the purchases import creates the warehouse and suppliers, although
`scripts/import-cadeg-purchases.ts:32` prints `DRY RUN — no database writes`. Dates,
prices and header data of an order are left out.

**`Sessions`, `Invitations`, `Accounts`.** A token row is `live`, `revoked` or `expired`.
A refresh is `verify` (the row is found unrevoked), `rotate` (it is revoked) and `issue`
(a new row), each a statement; revoking all tokens of a user, or an expiry, may come
between any two. A user has one browser with several tabs. `store[u]` is the token each
tab holds in memory, and the one the browser has saved (`Saved`, localStorage): the web
client writes both when an answer comes and clears both when a refresh fails, and no tab
hears of what another one writes. `page[c]` is the tab a request came from, or none once it was closed or
reloaded (`OpenPage`): the new page starts from what is saved, and nobody takes the answer.
Operators have the same endpoints, but the admin client never refreshes, and each of its
tabs saves for itself (sessionStorage). Two users who sign in to one browser in turn are
left out, and so are several browsers of one user. `invite` deletes, creates, notifies and enqueues in separate
statements; `acceptInvite` checks and sets the password. The e-mail job is tried `Attempts`
times. The record of a message that went out may be lost; an attempt may end before its `try`
(`ReadFails`) or in its `catch` (`FailureLost`), which records nothing; a job is ignored
when its worker has no key or finds no notification (`IgnoreMail`), and given up when its
worker dies a second time. Left out: `register`
(development only) and columns nothing reads. A token issued while the sessions of its user were being
revoked survives the revocation: the code marks rows, not sign-ins.

**`WebClient`.** One answer of the API (a key of one application) is watched, chosen in
the initial state among all those some mutation refreshes, and the menu's. `Api` says which
tables the answer is read from and which each mutation writes, so that the commit of a
mutation makes the answer out of date exactly when they meet. `Submit`, `Commit`, `Respond`,
`Callback`, `Settle` are the stages of a mutation: the call, the database, the answer, each
`await qc.invalidateQueries` of its `onSuccess`, the end, where an act that navigates opens
its page wherever the user is by then, and any other leaves the user there (`Goes`). `Serve` and `Arrive` are the
stages of a request for the watched answer. A call or an answer is lost, retried once,
refused; pages open, mount and unmount observers; staleness passes, the browser reloads;
the user logs out and another signs in. Kept on purpose: a
mutation under way takes the options of the latest render, so that creating a fiscal row
and switching sections before the answer refreshes the other section's rows
(`web/src/features/fiscal/fiscal-setup-page.tsx:65`, and the same for companies in
`web/src/features/banking/banking-reconciliation-page.tsx:31`); a refresh that fails clears the session and not the cache
(`web/src/shared/api/client.ts:44`). Which fields and statuses grey a button, and what the
API refuses, is left open: any act on offer may be refused.

### The exclusions in the properties

Handlers take no locks, so most invariants fail for an order that two requests work on
at once, and documents claim nothing else (`docs/v1-known-limits.md`, "Stock e
concorrência"). The models have those interleavings, and record them in history
variables: `disturbed` (orders that two requests overlapped on, or whose edit died half
way), `raced` (lots that changed while another request held a copy, or that a release wrote
on lines which a second release of the order was still to read), `touched` (consents that two calls, or a
call and the sweep, were at work on together, or whose call died between the bank and
the database), and for suggestions `twins`, `revised` and `torn` (transactions of which
two requests were about to create one suggestion, that a report changed after suggestions were begun, or
whose suggestions a death cut short). In `Migration` they are `together` (kinds of scripts
two of which ran at once), `parses` (a batch whose rows were replaced) and `lost` (batches
a process died on at a point nothing starts again from, or whose parse job threw); `Shared` is no history but the rows whose order number
another invoice has too. `unsaid` are the sync jobs that ended where `runSyncJob` records nothing. In `Accounts`,
`late` and `twin` mark tokens issued while the
sessions of their user were being revoked, or beside another refresh, `behind` the copies of
a token that another page has rotated, and the requests that show one, `silent` what ended
an e-mail job without a record, and `crossed` the users whose invitations overlapped. In `WebClient`, `excused` are calls the browser could not know to
have changed the answer (lost, reloaded, read too early), `Overlooked` lists by name the
answers no callback refreshes although its act changes them (a list or a report lags for
`staleTime`, 30 s: nothing promises more), and `dropped` says a refresh failed. A property about `Orders \ disturbed` says: whatever happens to other
rows, policies and flags, the sequence of handlers on this row, in every order, with
refusals and crashes, keeps it right. Properties that hold in spite of races carry no
exclusion: `ColumnNeverAhead`, `LotNonNegative`, `CredentialAgrees`, `OverdueExpires`,
`PostsOncePerConfirmation`, `RegisterKept`. The exclusions of `SyncSettles`, `ParseOwned`,
`MailAccounted` and `SessionKept` are no races but what the code has no answer to: an error
nobody records, a job with one attempt, a tab that knows nothing of another. What of a
hazard no property catches, because the case is excluded, its note under `hazards` says. Where a document does promise something that a race or a plain
sequence breaks, a run shows the violation.

## 3. Runs

| Run | Question | Bounds |
|---|---|---|
| `purchase_orders` | seven properties of the order life cycle | 1 order, 2 lines of at most 1, 2 sessions, 2 policies (two steps up to 2, one step from 2) |
| `purchase_race` (violation) | is a receipt beyond the order rejected? | 1 order, 1 line, 2 sessions |
| `sales_stock` | lots, ledger, release, FEFO | 1 item, 2 lots, 1 order of 2 lines, 2 sessions, 3 inflow or loss movements of 2 |
| `sales_oversell` (violation) | does a release validate the stock? | the same with 1 lot, 1 session, 1 movement |
| `bank_consent` | credentials, bank, state machine; do jobs and overdue consents settle? | 1 consent, 2 calls, 1 job, 2 tokens, 2 deaths, `FairSpec` |
| `bank_unhosted` (violation) | the same with the processes that exist | 1 consent, 1 call, 1 job, `Hosted = FALSE` |
| `bank_final` (violation) | are EXPIRED and REVOKED final? | 1 consent, 2 calls |
| `reconciliation` | suggestions, the refinement of `Posting`, confirmed matches get posted | 1 transaction, pages of 1, 3 receivables and payables of which 2 fit, 2 requests of each kind, 2 reports, 2 confirmations, 1 death |
| `migration` | imports and scripts together; the refinement of `InvoiceRegister` | 1 batch of 4 rows (3 invoices, 2 order numbers), 2 processes, 3 starts, 1 death or parse job that throws, 3 rows per statement |
| `migration_decimals` (violation) | does a line sell what its row says? | 1 batch of 1 row, 2 starts |
| `accounts` | sessions, invitations, e-mail | 3 users (a guest, a user, an operator), 2 tabs each, 4 tokens, 2 requests, 2 invitations, 2 attempts, 4 starts (requests, pages, attempts of jobs), 2 deaths or lost records |
| `web` | is any page behind its own user? | every refreshed answer of both applications under one call, five of them under two; 3 sign-ins |

What the passing runs show, property by property:

- `InstanceAgrees`, `ApprovalEarned`: five handlers in two services write the order and
  its instance; in every sequence, resubmission with another amount, new policies and
  flag switches included, they agree, and an APPROVED order was approved once per step of a policy that
  covers the amount its lines have now.
- `ReceiptAgrees`, `ColumnNeverAhead`: receipts, the column they maintain and the status
  agree; when receipts race, the column may fall behind the ledger but never runs ahead.
- `TotalAgrees`: the amount that policies are chosen by is the sum of the lines
  whenever no edit is under way.
- `LifecycleFollowed`: status moves only as documented, and lines change in draft only.
- `LotNonNegative` (races included), `LotMatchesLedger`, `ReleasePostsLines`,
  `FefoFollowed`, `SoldFromStock`: see the comments in `SalesStock`. `SoldFromStock`
  lists exactly the cases in which the code can sell stock that is not there.
- `CredentialAgrees` (races included): an AUTHORISED consent has its credential, a REVOKED one has none.
  `BankAgrees`: a token the bank honours is stored or on its way. `TableFollowed`.
- `SyncSettles`, `OverdueExpires`, `ConfirmedIsPosted`: liveness, see fairness.
- `SuggestedInOrder`, `SuggestedWhole`: overlapping requests and deaths never leave a
  suggestion without the better ones, and only a death leaves a transaction with some of them.
- `PostsOncePerConfirmation`: `Reconciliation` implements `Posting`.
- `RegisterKept`: `Migration` implements `InvoiceRegister`. However commits, parses and
  redelivered jobs fall, a number is posted once, with lines of its rows only, and a row is
  acknowledged only when its number is there. `RowIsLine`: the row itself is one of them,
  where the number is not shared.
- `LoadComplete`: a commit that ends has imported every valid row but those it says it
  leaves out; a purchases import that ends has an order for everything it can derive, what
  earlier runs left behind included. `LoadedOnce`: re-runs after deaths double nothing.
  `ParseOwned`: a batch not parsed to its end has somebody working on it or a job, unless its
  process died where nothing starts again or its job threw.
- `RevocationHolds`, `OneTokenPerSignIn`, `SessionKept`: revocation reaches every
  descendant of a sign-in but those being issued at that moment; rotation leaves one token
  per sign-in; a tab and the browser lose a session only for one of the listed reasons, of
  which a token that another page rotated is one.
- `InviteSpent`, `MailAccounted`: an account gets its password from one invitation, which
  had linked it before; a delivery says what was sent, up to the records that were lost, and
  stays QUEUED when its job is over only where the processor makes no record.
- `ShownNotBehind`: whatever commits, reads, answers and page changes do, what is on the
  screen lacks an act of its user only while a newer answer is coming, outside the cases the
  browser could not know and those in `Overlooked`. `ActedOnSight`: in the web application
  no button of a page works on an answer that lacks an earlier act of that page.
  `MenuOfAccount`: the menu never is an earlier account's, unless a refresh failed.

Why the bounds are enough: the decisions of the code compare two requests at most (a
read and one write that makes it stale), so two sessions show every overlap; a third would repeat one of them. Two lines are what
the per-line loops need to differ from one; two policies are what a change of policy
between two submissions needs; two lots are what an order of expiry needs; three
movements are two lots of stock and one loss; the state machine, the vault and the sweep treat
each consent by itself, and two calls are what can overlap on it (the proofs
are for any number of consents); a worker has one job at a time, and no job
reads another's row; the file of the migration has an invoice of two lines, one of which is of an
item, and an invoice of a customer, that provisioning brings, and an invoice that gives the same
order number and sells nothing, on either side of a chunk of three; the suggestions of one bank transaction depend on
no other one, so that one with two suggestions shows the overlaps (that a request goes through
several in turn, page by page, is in the model, and the proofs are for any number); two refreshes, a
sign-in and a reload or a revocation are the four starts that rotation needs, two tabs are one that rotates and one
that is left behind, and two invitations are
an earlier one and its successor. An answer of the web client stands for itself: acts on
others only take part through the pages they open; the answers under two calls are one
per pattern of callback (awaited list and detail, rows of a section, an answer fetched by interval, the not awaited ones of
the admin client). BullMQ's `maxStalledCount` is 1, so that two deaths show a job redelivered and given up.
No proof depends on these bounds.

Deadlock is checked for purchases. It is switched off for sales (movements are
bounded), for the bank (tokens and jobs are bounded) for reconciliation (reports and confirmations are bounded), for the migration and accounts (starts are
bounded) and for the web client (calls are bounded): there the work may be over.

### Fairness

`FairSpec` of `BankConsent` has weak fairness of the expiry sweep and of the sync
worker, and nothing else: the sweep is a repeatable BullMQ job and BullMQ redelivers
the job of a worker that died, or gives it up. In `BankConsent` HTTP requests, the bank and crashes are not fair: a request may die
at any point. `FairSpec` of `Reconciliation` has weak fairness of the statements of a
request that has begun: an awaited statement returns or throws, and throwing is one of the
`...Dies` actions. Nobody has to start, confirm or repeat anything.

### Findings

1. `NoOverReceipt` (`purchases.service.ts:402`): two overlapping receipts of one line receive more than was ordered.
2. `StockValidated` (`sales.service.ts:225`): several lines of one item are each
   compared with the whole balance; no race is needed.
3. `SyncSettles` under `Hosted = FALSE` (`worker.module.ts:9`): no process that the
   repository starts runs the banking processors.
4. `FinalStays` (`consent-oauth.service.ts:116`): a callback in flight revives a
   revoked consent.
5. `LineKeepsQuantity` (`modules/imports/csv-parser.util.ts:72`): a quantity of `12,50`
   becomes 1250, because the parser writes a dot where the mapper then takes dots for thousands marks.

## 4. Proofs

TLAPS checks `PurchaseOrdersProofs`, `SummationProofs`, `SalesStockProofs`,
`BankConsentProofs`, `ReconciliationProofs`, `MigrationProofs`, `AccountsProofs` and
`WebClientProofs`; the theorems hold for all values of the constants, any number of orders,
lines, lots, sessions, consents, files, processes, users, tokens, requests and calls
included. Assumptions, named in the modules and evaluated by TLC on the passing runs:

- `PurchaseAssumption`, `SalesAssumption`, `BankAssumption`, `ReconAssumption`,
  `SessionsAssumption`, `InvitationsAssumption`, `BoundAssumption` say that bounds are numbers,
  lots numbers in the order they expire, lots and lines finite, policies records, guests
  users that are no operators, and the value for "nothing" none of the users, tokens and
  invitations.
- `ImportsAssumption`: a file is a sequence of rows, quantities are texts, every text of an
  order number has a value, a statement inserts at least one row. `CadegAssumption`: exports are sequences, their
  amounts texts, master data the scripts name exist as entries; provisioning makes no
  warehouse, for only `ensureDefaultWarehouse` does
  (`modules/cadeg/cadeg-purchase-reconstruction.service.ts:72`); and no sale names the supplier the import makes up
  (`Fornecedor CADEG`), since a sale that did would have the import create that supplier
  twice. `MasterAssumption`: before the migration each entry of the master data is there
  once or not at all.
- `TablesAssumption` speaks of the tables of pages and acts alone and has no parameter, so
  that TLC decides it: each page an act opens is there, a callback has four steps at most
  and is awaited in the web client, it refreshes every key its act changes or the act is in
  `Overlooked`, no act touches the menu, and where a button of the web client needs an
  answer, every page of the part where it is changed shows it. A key forgotten in one
  `onSuccess` makes TLC refuse the tables; that this static condition is enough, in every
  interleaving, is what the theorems say.

**Purchases.** `TypeCorrect`, then `Invariance`: `IInv` is `TypeOK` and, for each
undisturbed order, that at most one session works on it (`Sole`), that the copy this session
holds is the row (`Fresh`), and that the row is consistent (`InstanceOK`, `ApprovalOK`,
`ReceiptOK`, `TotalAgrees`). The properties alone are not inductive: a commit writes what
its `Begin` read, so nothing can be said of it without `Fresh`, and `Fresh` is lost
exactly when a second session enters, which is what puts the order into `disturbed`.
There is a lemma per action. `ColumnIsNeverAhead` needs no exclusion and another invariant,
`Remembered`: the sums a receipt holds are at most what the ledger has now, because
postings are only ever added.

**Sales and lots.** Each property has an invariant of its own over `Typing` (types, and
what each step of a request says of its fields). `LotsNeverNegative`, `LotsMatchLedger` and
`FirstExpiredFirst` rest on `Stocked`: what every request holds of lots is `Sound`, that is,
its quantities are not negative (`NoneBelow`), the lots are there and of the item of one of
its lines (`Existing`), its copies of unraced lots are what it would read now and what it
wrote is what the lot holds less what it took (`Current`), and where it took from a lot the
earlier ones are used up (`UsedUp`); and no two requests have updated one lot (`Exclusive`).
The properties say nothing of copies, and every write is computed from one. One lemma,
`LotChanged`, says when a commit leaves the others sound: exactly when the lots they hold
copies of are marked as raced. `Tied` adds the lines that are bound to a lot: only an order
that is OPEN has one, a release that still waits to read its lines has found a draft, which
it still is, or the lots that were written meanwhile are raced, and so are those of the lines
it read; hence nothing is posted against an unraced lot without being taken from it
(`UntakenNone`). `StockSold` rests on `Billed`: what a release took of an item
is what the lines it is done with ask for, and a line it checked is covered until the
ledger changes. `LinesPosted` adds `Ordered`: on an undisturbed order the one request at
work (`Sole`) holds the draft with its lines (`Fresh`). Quantities are sums over sets, which
are folds: `SummationProofs` shows what they need (`SumAny`, `SumAdd`, `SumWithin`,
`SumSplit`) from a smallest counterexample, as the provers have no induction over sets.

**Bank.** `Types` (with `HeldTokens`: a call past the exchange has a real token) gives
`CredentialAlwaysAgrees` by one step lemma, races and crashes included. `Invariance` then shows `IInv`: tokens
belong to one consent and the bank revokes only tokens it issued (`OwnTokens`), and on a
consent nothing raced or died on, one call at a time works and none while the sweep has it
(`Alone`), what the call read still holds (`CallAgrees`) and the bank honours only what
the vault or the call has (`Known`). `BankAlwaysAgrees` and `TableAlwaysFollowed` follow.

**Reconciliation.** `PostsOnceAlways`: `Spec` implements `Posting`. The mapping keeps status and
entries and maps what is owed to the set of confirm requests that have not reached their
posting. The invariant `BInv` is about the bridge alone: a request about to mark a match has
posted it (`MarksPosted`), and a match that says POSTED has an entry (`PostedHasEntry`);
without the first, a mark could not be shown to be an abstract one. The matcher plays
no part in it. `TypeCorrect`, `SuggestionsInOrder` and `SuggestionsWhole` do rest on it: lemmas
say that the exact matcher gives one target with the full confidence or nothing, the fuzzy one
a target with a confidence of 9500 at most (`FuzzyOnce`), the PIX one nothing (`PixNever`), so
that what is suggested has different targets and strictly descending confidences, and its ranking
exists (`SuggestedFacts`). `LadderInv` is inductive: of an undisturbed transaction the matches
are the first n of the ranking (`Laddered`), a request that has passed i of them has i <= n
(`PassedIsThere`), holds the transaction as it is (`ReadIsRow`), and is not about to create one that
is there (`DueIsMissing`); if 0 < n < all, some request is in the middle of it
(`InProgress`) or one died there. `SuggestedInOrder` alone is not inductive: what a request creates is decided
by what it read before, and only i = n at that moment makes it the next one.

**Accounts.** Each property has an inductive invariant of its own over `TypeOK`.
`RevocationAlwaysHolds`: `Eras` adds that a refresh past its check carries the count of revocations
its user has now, or is marked late (`EraCalls`); without it nothing is known of the token it
issues. `OneTokenAlways`: `Rotating` adds that a root is a token of the same user
(`Rooted`), that two refreshes of one user mark each other (`Overlapping`), and that while
an unmarked refresh is past its check no other token of its root is good (`Replacing`).
`InviteAlwaysSpent`: `Spent` says where each request about an invitation stands: what it
has linked (`Linked`), that it is alone or crossed (`Sole`), that what it deleted is gone
(`Cleared`) and what it will create is not there (`NotYet`). `MailAlwaysAccounted`:
`Accounting` ties the delivery row to the job and the attempts (`MailRecorded`, `MailAwaited`,
`MailUsed`) and to the request that creates them (`MailOwned`); a job that is over says
`silent` unless its row is SENT or FAILED. `SessionAlwaysKept` is about a
step, the one in which a tab forgets what it keeps, and rests on `Warranting` over
`Rotating`: each copy of a token is good, or it is revoked or expired for one of the listed
reasons, or it is behind, or the request of that tab which replaces it is on its way (`Stored`,
of `Backed` copies; `Succeeds` and `BackedKept` say that copies stay so where they go);
the same of the token a refresh shows
(`Asked`), was refused (`Refused`) or brings back (`Answered`), which nobody else holds
(`Apart`); and no token is of a later era than its user (`Aged`). Without the parts about requests, a refused
refresh could be for a token that was good.

**Migration.** `RegisterImplemented`: `Spec` implements `InvoiceRegister`, where an order is the set
of rows on its lines and a row is acknowledged when it is COMMITTED. `Booked` is the
invariant: a line is of the number of its order, and the numbers a commit read are taken.
`ParseNeverForgotten` needs only `OwnedAt` of each batch. `CommittedRowsAreLines` and the commits in
`LoadsAreComplete` rest on `Following`: no batch is committed that is being written for the
first time (`Phase`), and of a batch parsed once the good rows of an invoice change together
(`Uniform`), stand together on an order (`WholeOrders`), are on one when they are COMMITTED
(`Lined`), and each commit has all rows of an invoice in hand or none (`InHand`), and has
passed a valid row over only for a reason (`Handled`). The property alone is not inductive
because a commit works invoice by invoice on what it read before. `NothingLoadedTwice`
says of each kind of script that never ran twice at once (`Alone`) what one that looked and
found nothing still knows (`MasterSeen`, `ShipmentSeen`), beside the counts (`MasterOnce`,
`ShippedOnce`); a purchases import knows that what it has passed is posted (`BillsSeen`).

**Web client.** `NothingShownBehind` rests on `Covered`: also an answer off display lacks a
call only if it is marked, a newer one is asked for, or the call's callback will ask
(`Sure`); and an answer on its way lacks only calls whose callback will ask. Without the first part a page could
open on what it had never shown; without the second, nothing is known of an answer that arrives.
`ActsAreOnSight` adds `Placed` (a mutation that is mounted is one of the part that is open,
and what that page asks for is shown) and `Sighted` (of a call that changed what a button
needs, the callback has still to ask, or waits, or another callback waits for the request that
replaced its own). `MenuIsOfAccount` rests on `MenuKept`: also the request under way was sent by the account.

The invariants of all but the bank were checked with TLC before they were proved. Model-checked only:
the liveness properties (`SyncSettles`, `OverdueExpires`, `ConfirmedIsPosted`), since
liveness under fairness is out of the prover's reach; so are ENABLED and induction over data.

## 5. Not modelled

- Subscription, quota and legal guards: they read and refuse, and no request writes the
  usage snapshot they compare with.
- Units of measure and the selection of fiscal rules: searches over configuration rows
  read at once. Quantities of the other models are in the base unit.
- The rewriting of queries by tenant: the models look at one tenant.
- PIX, the banking dashboard and the vault's encryption; health and access-log processors.
- Encodings, the splitting of CSV lines, dates and prices of imported orders; the reports of the
  CADEG analytics.
- What is typed into forms, layout, and which statuses grey a button.
- The seed and the scripts themselves, beyond the services they call.
- Several browsers of one user (their sign-ins have nothing in common but revocation), and
  several users of one browser.

Reasons per component are in `PROJECT.json`. External and modelled by how the code uses
them: PostgreSQL at READ COMMITTED, BullMQ, the bank, React Query.

## 6. Plan

Done, in this order: `PurchaseOrders`, `SalesStock`, `BankConsent`, `Reconciliation` with
`Posting`, `Migration` with `InvoiceRegister`, `Accounts`, `WebClient`; proofs for all of
them.

What is left, in this order:

1. The conversion path search and the selection of fiscal rules, against reference
   definitions on small tables.
2. Order of the subscription guards.
