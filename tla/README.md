# TLA+ specifications of the Kunlun model gateway

The gateway sells prepaid service credit and spends it on chat completions of
third-party model providers. Money moves in many short database transactions
around calls to providers that may answer late, twice, ambiguously or never.
The modules here model that money path: what is held, charged and given back
for a model request, and how credit is paid in and refunded; and what stands in
front of it: the account with its credentials, the rate limits, and the row locks
by which all of these wait for each other. TLC checks them on small instances;
TLAPS proves every invariant that holds, for every number of requests, sessions,
providers, budgets, prices, orders, callers, places, connections and pieces of a
stream.

`PROJECT.json` maps every definition to the lines it models, and lists the runs,
hazards, findings and theorems that this document explains.

## The system

| Component | State | Operations | Interacts with | Modelled |
|---|---|---|---|---|
| Ledger (`app/services/ledger.py`) | append-only journal | `post_transaction`, `ledger_total` | called by every writer of a wallet | `Ledger` |
| Model request billing (`gateway_billing.py`) | `model_requests`, `wallets`, `prices` | reserve, settle, release, mark for reconciliation | handler, operator route, sweeper; wallet shared with payments and budgets | `Pricing`, `Billing` |
| Budgets (`budget.py`) | `budgets` | `create_budget`, `active_budget` | read and charged by billing | `Billing` |
| Chat handler (`app/__init__.py`, `chat_completions`) | its own position, `provider_attempts` | provider loop, failover, streaming, output safety | billing, provider adapters | `Gateway` |
| Operator reconciliation (`/ops/reconciliation/{id}`) | - | settle or release a pending request | billing | `Gateway` |
| Maintenance (`reconciliation_maintenance.py`, `rate_limit_maintenance.py`, `scripts/maintenance.py`) | an advisory lock | move stale holds to reconciliation, delete old windows | billing, rate limits | `Billing`, `Gateway`, `RateLimit`, `RowLocks` |
| Provider adapters (`providers.py`) | - | call, classify the failure | handler | in `Gateway` (partly) |
| SSE tracker (`streaming.py`) and `forward_stream` | unfinished line, usage, `done` | feed a chunk, finish | handler | `Streaming`, `StreamedGateway` |
| Live payments (`payment_domain.py` and its routes) | `payment_orders`, `payment_refunds`, `payment_webhook_events`, `users.status` | checkout, webhook, reconcile, refund, risk disposition | ledger, wallet, payment provider | `PaymentDomain` |
| Payment bridge (`live_payments.py`) | in-memory nonces | HMAC, HTTP calls | payments | statuses only |
| Price seeding (`_seed_prices`) | `prices` | new version, old one deactivated | billing | `Billing` (partly) |
| Identity (`identity.py`, the identity routes, `require_session`) | `users`, one-time links, sessions, API keys | register, verify, reset, log in, create and revoke keys | mail server, every route | `Identity` |
| Account status (`/ops/accounts/{id}/status`, `apply_user_freeze`) | `users.status` | freeze, unfreeze | identity, admission, refunds | `Identity`, `PaymentDomain`, `Billing` |
| Rate limits (`auth.py`) | window counters | count, delete old windows | every route | `RateLimit`, `Quota` |
| Row locks of the customer's transactions | PostgreSQL's locks | the lock order of each transaction | all of the above | `RowLocks` |
| Test payments, operator tokens, content safety, CAPTCHA, configuration, HTTP edge, UI | - | - | - | no |

What makes each part correct, and what makes it hard:

- *Billing.* The wallet is a cache of the journal. A hold must be taken back
  exactly once, by one of three parties (handler, operator, and, through the
  status, the sweeper) that read the request row **without a lock**. Prices and
  budgets may be replaced while a hold is open.
- *Handler.* It holds no transaction while a provider works. It may fail over
  only when the first provider certainly did nothing, may give a hold back only
  when nobody can have charged, and may die anywhere.
- *Maintenance.* The only party that can find the hold of a dead handler.
- *Payments.* The same payment is reported by checkout answers, webhooks and
  reconciliations, in any order and repeatedly; leases expire while their owner
  still waits; the provider may refund by itself; a refund may find the credit
  spent.
- *Streams.* The network cuts a provider's stream anywhere; what the tracker reads
  in the pieces decides between settlement and reconciliation.
- *Identity.* A request reads in one transaction and acts in another, and slow work
  (password hashing, mail) lies in between; a reset or a freeze has to catch what
  is under way.
- *Rate limits.* Three statements per count, each its own commit, and a retention
  that deletes rows beside them.
- *Row locks.* Some twenty transactions lock overlapping rows of one customer, some
  of them through foreign keys that no statement names.

Tests in the repository exercise these one request at a time, or in a few fixed
races. The hazards in `PROJECT.json` are the orders they do not reach.

## Modules

```
Ledger   Pricing
   \     /    \
   Billing     \            Ledger        Quota (abstract)
   /            \              |             :
Gateway      Streaming   PaymentDomain   RateLimit   Identity   RowLocks
   \          /
  StreamedGateway

Sums_proofs                              sums over finite sets
  Billing_proofs   PaymentDomain_proofs  over Billing, PaymentDomain and Sums_proofs
  Gateway_proofs                         over Gateway and Billing_proofs
  StreamedGateway_proofs                 over StreamedGateway and Gateway_proofs
RateLimit_proofs, Identity_proofs, RowLocks_proofs

MCBilling, MCGateway, MCStreamed, MCPayments, MCRateLimit, MCIdentity, MCRowLocks (TLC)
```

Refinements: Gateway implements Billing, StreamedGateway implements Gateway (both
by keeping the other's variables), RateLimit implements Quota (`Abstract == INSTANCE
Quota WITH ...`). All three are checked by TLC and proved.

An operator whose name is that of another with a suffix (`Open_unchecked`,
`covers_ignoring_holds`), placed right before it, is a *seeded fault*: the way a
plausible mistake would change the code. No specification uses it; it is
substituted for its original to see that a property notices.

### Ledger, Pricing

`Ledger` keeps the journal's sum per account. Rows are append-only (database
triggers refuse anything else), so this is all that other tables can be compared
with. `Balanced` is what `post_transaction` refuses otherwise, `Post` what it
adds. `Pricing` is the integer arithmetic: the token estimate, the upper bound a
hold is computed from, costs rounded up.

### Billing

One customer, since every statement filters on one `user_id`. State: the wallet
and budget rows, the request rows, the journal, the active price version, the
month, whether user and key are active.

The database runs READ COMMITTED. `reserve_model_request` and `create_budget`
lock the wallet row and the sweeper is one conditional `UPDATE`: each is one
action. What they read *before* the lock is a choice of an older value:
`reserve_model_request(r, v)` may use the price version before the current one,
`create_budget(limit, start)` the month before the current one.

`settle_model_request`, `release_model_request` and
`mark_pending_reconciliation` read the row with `session.get`, check its status
in memory, and write it by primary key at the end. Each is therefore `Open` (the
read and the check) and a commit, with anything in between. The commit has only
the guards the code has: `reserved >= hold` in the wallet's and the budget's
`UPDATE`, and the unique journal key (`CanFinalize`). `overlapped` is a history
variable: the requests on which two such transactions were open at once. Such overlaps
are where the code's guards do not suffice (findings 1 and 2), so `SerialFinalization`
and `HoldsAccountedFor` speak of requests without them; what holds with them is
`ChargesAddUp`, by the unique journal key alone.

### Gateway

The handlers (`pc`, `index`, `outcome`, `attempts`) over Billing's tables. Each
`pc` is a point between two transactions, where a crash, a disconnect or another
process may come. `billed` is a history variable: the providers that may charge
for the request. `MayCharge` is the environment's side of the contract: only a
refused connection, a 429 and a 4xx certainly cost nothing. `safe_to_failover` and
`request_may_be_billable` are the code's side. `ContentSafety` are the requests served
with a content-safety service configured, so that an instance can have requests of both
kinds. A client that asks for a stream gets a direct one unless its output has to be
checked; `chat_completions` would also fall back for a provider client without
`open_stream`, which no client of `providers.py` is, and which is left out.

Two paths leave a hold to the sweeper and are modelled so (`pc` becomes `dead`):
an exception inside the `except ProviderError` clause, which no other clause of
the same `try` catches, and a stream closed while suspended at its `yield`
(`GeneratorExit` is none of the exceptions `forward_stream` catches).

### PaymentDomain

Orders, refunds, events and account status of one customer. Each method of
`PaymentDomainService` locks the rows it changes, or guards its `UPDATE` by the
status it has read, and is one action. A route that calls the payment provider
is three: claim and commit; the provider's answer; apply and commit. `call`
holds the routes in between. A claim is a Boolean, "set and younger than its
lease", as every reader treats an expired claim like none; `lease_expires` is the
passage of five minutes.

The provider is external and is modelled from how the code uses it: an intent per
order that moves along `Moves`, webhooks that are true of the intent's past but
come at any time, in any order and any number of times, and answers that give its
current state, a refund in progress, or nothing usable. Model requests appear as
`hold_credit` and `finalize_hold`, all that refunds can see of them.

### Streaming, StreamedGateway

`Streaming` is `SSEUsageTracker`. A stream is a sequence of pieces such as
`data:`, `[DO`, `NE]` or the parts of a JSON object: several make a token, so a
chunk may end inside one. `feed` and the loop over its lines are separate steps,
as the loop may raise with lines left. `ReadsAs` is the reference: it takes the
whole text apart at its line ends, with no buffer, and says what a tracker may
have found at the end. Counts are known or not known; their values matter only in
being the provider's or the request's own estimate.

`StreamedGateway` adds each request's text and tracker to `Gateway` and replaces the
nondeterministic end of a stream by what the tracker says. A stream can break off
(upstream error, cancellation) whenever its handler waits, and can be abandoned at
the `yield`. A pass of the loop in `feed` cannot be interrupted. Of what surrounds the
handlers it keeps the operator and the sweeper; budgets, price changes and the
freezing of customers touch no stream and are left to `gateway` and `billing`.

### RateLimit, Quota

Both counters of `auth.py` are one algorithm: select the window's row; if there is
none, insert it with count 1, which the unique key may refuse; otherwise, or then,
`UPDATE ... WHERE count < limit`. Each statement is an action. A request carries the
sequence of subjects it is counted for: address and account for authentication, its
key for `/v1`. `Quota` is what that amounts to: places per subject and minute, taken
or refused in one atomic step. `taken` and `turned` are history variables of
`RateLimit` and the whole state of `Quota`, so the refinement is the identity; that
it holds is a statement about `counter`, which `Quota` does not know.

Retention deletes windows older than the cutoff while requests run. A request
lasts less than the retention (a guard of `tick`; the code's retention is at least a
day): without it, a request that has slept for a week would find its row deleted.

### Identity

One account. Every call is one HTTP request; links, sessions and keys carry the name
of the call that made them. The steps are cut where the code lets others in: the
unlocked reads (of a link, of the user and hash in `login`, of a session in
`require_session`), the slow hash under the user row's lock in `reset_password`,
the insert after the count in `create_key`, and the mail. `lock` is the holder of
the user row; an insert that refers to it waits too, as its foreign key check locks
the row. `held` are link rows that `issue_email_verification`, which never locks the
user row, has updated and not committed; others that update them wait. The links it
updates are those its statement finds when it starts, less those used by the time it
has them (`finds_links`, `replaces_links`): a link inserted while it waits stays.

`user.password` counts password changes, and a session or key carries the password
it goes back to, so that "old" is visible. `changed` is the history of reset links
that were used, `overtaken` that of the logins and key creations that had read the
account, or checked their session, when a freeze committed.

### RowLocks

The other modules show a transaction as a step or two; here it is the sequence of
its row locks: `update` (SELECT FOR UPDATE, or an UPDATE of a column with a unique
index, such as `provider_refund_id`), `write` (a plain UPDATE), `refer` (the foreign
key check of an INSERT). The order is that of the statements; ORM objects
are written where they are flushed, as autoflush is off. `WaitsFor` is PostgreSQL's
wait-for graph, a `Circle` what its deadlock detector breaks. A circle is not an
error of the code: one transaction is aborted, which `Gateway` has as `SettleFails`,
`ReleaseFails` or a crash, and the payment routes as refused calls. The
properties say which circles cannot occur.

Circles that do occur, all over the user row:

- admission (user, then wallet) against settlement, release, budget replacement and
  the crediting webhook (wallet, then the user row through the journal's foreign
  key);
- the webhook's refund and `prepare_refund` (order, then user) against the operator's
  refund and `prepare_checkout` (user, then order);
- `issue_email_verification` (links, then user) against a freeze and
  `consume_email_verification` (user, then links).

## Runs

States are distinct states; all runs finish within the five minutes TLC is given.

| Run | Configuration | Instance | Shows |
|---|---|---|---|
| `billing` | `MCBilling.cfg` | 2 requests, 1 session, 2 prices, 3 budgets, 2 months, 2 limits, 3 usages | wallet and journal agree; a hold suffices unless usage passes its bound; holds are accounted for; budgets are hard stops, one is active per month, replacing one loses no spend |
| `gateway` | `MCGateway.cfg` | a streamed request, its retry under the same key, a third with output safety; 2 providers, 1 operator | at most one provider charges, a retry is charged once; automatic release is safe; returning leaves no silent hold; finalizing is exact while transactions on one request do not overlap, and charges add up when they do |
| `double_finalization` | `MCDouble.cfg` | 2 requests, 2 operators | `HoldTakenBackOnce` **violated**: see findings |
| `late_mark` | `MCLateMark.cfg` | 1 request, 1 operator | `FinalStaysFinal` **violated**: see findings |
| `payments` | `MCPayments.cfg` | 1 order, 2 callers, 2 refund keys, all webhooks | the gateway stays behind the provider, one checkout call, one refund command, nothing reopens |
| `orders` | `MCOrders.cfg` | 2 orders sharing a wallet, 1 caller, cap 1 | books match payments, frozen while at risk, cap on open orders |
| `identity` | `MCIdentity.cfg` | 5 calls of any kind, 1 key allowed | key cap, one use per reset link, what a freeze locks out and who ends it |
| `stale_login` | `MCStaleLogin.cfg` | 3 calls, an active account | `OldCredentialsDie` **violated**: see findings |
| `outlived_freeze` | `MCOutlivedFreeze.cfg` | 3 calls, an active account | `CredentialsEndWithFreeze` **violated**: see findings |
| `stream` | `MCStreamed.cfg` | 1 streamed request, 1 operator, all texts of two lines and an end, all ways of cutting them | the tracker reads what is there; only whole streams are settled; the handler implements `Gateway` and `Billing`; every hold surfaces |
| `ratelimit` | `MCRateLimit.cfg` | 4 logins, 1 address, 2 accounts, 2 places, 3 minutes | the counters implement the quota |
| `rowlocks` | `MCRowLocks.cfg` | 3 connections, 1 order, 2 requests | which transactions can wait for each other |

### Why these bounds

- *Two holds.* The wallet's `reserved` column is shared; a second hold is what
  lets the guard `reserved >= hold` pass for the wrong request. A third adds
  another equal hold. `gateway` has three requests for that, since of a request and
  its retry only one gets a hold.
- *One session (`billing`).* What is about budgets, months and prices needs no two
  finalizing transactions on one request; those overlap in `gateway`, between
  handler and operator, and in the two violated runs of `MCGateway`. With one session
  `overlapped` stays empty, so `HoldsAccountedFor` is checked in full there.
  `FinalizedWhileActive` leaves out finalizations of a frozen customer, which
  `gateway` has.
- *Two callers, two operators.* Every race here is between one read and one write
  of another transaction.
- *Credit 1900 (billing), limits 900 and 1700.* Holds are 830 and 832 (995 and
  998 at the second price): credit admits two, the small limit one, the larger
  one two at the first price and one after the change. Settlement with the
  estimate, at the bound and past it gives the cases charged < hold, = hold and
  `under_reserved`.
- *Three budgets, two months.* Replace, replace again, and one for the next month
  (or a late one for the last).
- *Two providers.* One to fail and one to fail over to; the theorem covers any
  number.
- *Two units of credit per order, holds of one or two.* A refund finds all, part
  or none of the credit, with or without a hold open.
- *`orders`* explores paid and refunded intents and payment webhooks only: its
  three properties are about money, and `payments` has the rest with one order.
- *Five calls (`identity`).* The longest race needs a link or session made (one
  call), a second that uses it, a third that does so too, and two to be caught by a
  freeze. One key allowed, so that a second creation is at the cap.
- *Streams* have two lines, the second without its line end or followed by a
  `[DONE]` with or without one; some are malformed or too long. `MaxBytes` 9 is below
  the longest text, `MaxLine` 3 below the longest line.
- *Four logins, two places, retention 1, three minutes.* Two requests race for the
  insert, a third for the last place, a fourth is refused; a window is deleted while
  a late request of the next still counts.
- *Three connections (`rowlocks`).* Circles of two, and of two with a third between
  them. Two requests, so that two sweeps can take them in opposite orders; one order,
  so that everything about orders meets on it.
- `InitialStatuses`, `LastWindow`, `LastMonth`, `Webhooks` and `ProviderMoves` are the named bounds on time and on
  the provider. Nothing else is capped: every other set is finite by itself.

Symmetry is used only where the elements are interchangeable (a request and its
retry, callers, orders of equal credit, calls, logins to the same account,
connections) and in no run with a liveness property.

### Fairness

`MaintenanceRuns` is the only fairness. The maintenance process repeats its round
for ever (every 60 seconds in `docker-compose.production.yml`, every five minutes
by cron in the hosted deployments), and a hold that stays `reserved` is older
than its lease in some round: the round that sweeps it is weakly fair. Nothing is
assumed of handlers, clients, providers or operators. `EveryHoldSurfaces` says
that a hold does not stay `reserved`; it promises no more, as what happens to a
pending request is up to people. It is checked in `stream` (`FairStreamedSpec`), where a
handler can crash, fail in its `except` clause or be closed at its `yield`, and the
operator may come in at any point.

Payments have no liveness property. Whether an order ends depends on the
provider's redelivery and on the payment sidecar's answers, and neither is in
this repository.

## Findings

1. `double_finalization`. Two operators answer the same pending request at the
   same time, one with settle and one with release. Both read it open; the
   conditional updates look at the wallet's total, not at the request; the two
   journal rows have different keys. If another hold keeps `reserved` high enough,
   both commit: the hold is taken back twice, and the other request can no longer
   be settled or released. The module's docstring promises "Atomic
   pre-authorization, settlement and release". Wallet and journal still agree
   (`WalletMatchesLedger` holds), so a comparison of the two does not notice.
   Reading the row `with_for_update` would close it. Without such an overlap the hold
   is taken back exactly once (`SerialFinalization`, `HoldsAccountedFor`).
2. `late_mark`. `mark_pending_reconciliation` does nothing unless the request is
   `reserved`, but it reads the row without a lock and writes it by primary key. If the
   hold outlives its lease while the handler is between the two, the sweeper moves it to
   reconciliation, and an operator settles or releases it, the mark puts the finalized
   request back into the queue. Answered again with the same action it is refused by the
   journal key, so the customer is not charged twice (`ChargesAddUp` holds); answered
   with the other one its hold is taken back a second time, as in finding 1. It takes a
   handler that is still about to mark when the lease has run out, so it is rare. The
   docstring and src/README.md:44 (only what is uncertain goes to
   `pending_reconciliation`) say otherwise. A conditional `UPDATE ... WHERE status =
   'reserved'`, as the sweeper has it, would close it.
3. `stale_login`. A comment in `reset_password` says "every old session dies".
   `login` verifies the password against a hash it has read without a lock, and
   inserts the session later: if a reset commits in between, it revokes the sessions
   there are, and the new one, which goes back to the old password, stays. The same
   holds for an API key created by a request whose session was checked just before
   the reset.
4. `outlived_freeze`. A comment in the unfreeze route says that sessions and keys are
   not restored and "the owner must authenticate again". A login that had read the
   account before the freeze inserts its session during it. The session is refused
   while the account is frozen, and works once it is unfrozen, without a new login. A key
   creation whose session was checked before the freeze, and which gets to the user row
   after the unfreeze, makes a key for a session the freeze has revoked. What holds
   while the freeze lasts is `FrozenIsLockedOut`: no key, no reset link, and no session
   but of a login it overtook.

Smaller disagreements, with no run of their own:

- A comment in the refund route says the same key "may be retried only after an
  ambiguous result has explicitly entered reconciliation"; `prepare_refund` also takes
  over a command whose five-minute claim has expired. Harmless as long as the
  provider honours the idempotency key: all calls of an order carry one key
  (`OneRefundCommand`).
- The docstring of `apply_user_freeze` says "All issuance/reset flows use the same
  User row lock"; `issue_email_verification` does not. A verification link may
  therefore be issued after the freeze. It cannot end it (`FreezeEndsByOperator`),
  since `consume_email_verification` asks for a pending account.

## Proofs

Every run property that holds is a theorem, except the liveness property; 40 theorems in
seven modules, one per component, and `Sums_proofs` for what they add up. They hold for
every value of the constants that satisfies the named assumptions
(`ConstantsAssumption`, `PriceListAssumption`, `GatewayAssumption`,
`PaymentAssumption`, `StreamingAssumption`, `TextsAssumption`, `RateLimitAssumption`,
`IdentityAssumption`, `RowLocksAssumption`, `OwnAssumption`), which TLC evaluates in the
runs. These give the constants their types and say that requests, calls and orders
are finitely many (their sums and counts mean something only then), that a text has no
more characters than bytes, that the subjects of one request differ, that the keys and
ids the system uses itself are not among those of clients and provider, and that the
name of the customer's own rows is not an order's. The bounds on time
(`LastMonth`, `LastWindow`) are constants too, so the theorems hold for any.

| Theorem | Says | Inductive invariant |
|---|---|---|
| `TypeCorrect` | no column leaves its type or goes below zero | `TypeOK` itself: the guards of the conditional updates are exactly what keeps `reserved` non-negative |
| `WalletAgreesWithJournal` | wallet = journal, journal = 0 | with `TypeOK`; each writer moves both by the same amounts |
| `BudgetIsHardStop`, `OneActiveBudgetHolds` | hard stop; one active budget per month | `BudgetInv`: the two must be proved together, as a replaced budget is within its limit because nothing is held against it any more |
| `SerialFinalizationHolds` | finalized exactly once, without overlap | `SerialInv` adds: at most one transaction is open on the request, and only while it still has its hold; otherwise a late commit could not be excluded |
| `ChargesAddUpHolds` | the customer pays what the rows say, also with overlaps | itself with `SpendInv`: a request that no settlement is posted for has been charged nothing, and a second settlement is refused by its journal key |
| `PreauthorizationCovers` | the platform loses only by an overrun | `CoverInv` adds `HoldInv`: the hold is the reserve amount *at the price version the row names*; with monotonicity of costs, usage within the bounds then costs at most the hold |
| `HoldsAccountedForHolds` | wallet and budgets hold what the open requests hold | `HoldsMatch` under `overlapped = {}`, with `BudgetInv` (a replaced budget has handed all its holds on) and `SerialInv` (who commits still has its hold) |
| `MonthSpendIsCompleteHolds` | the active budget has spent what its month was charged | `SpendInv` adds: no charge without a posted settlement, a row's budget exists, and a month that ever had a budget has an active one, so that a budget without a predecessor has nothing to carry over |
| `GatewayImplementsBilling` | refinement, by identity on the tables | none: each handler step is a Billing step or leaves its tables alone |
| `GatewayKeepsTheBooks` | the Billing theorems that need no condition on overlaps (`WalletMatchesLedger`, `ChargesAddUp` and the three on budgets), in the gateway | from the refinement |
| `FailoverIsSafe`, `GatewayTypeCorrect` | at most one provider charges; index within range | `HandlerInv`: nothing is billed while a call is still to be made or after a refusal, and only the current provider can be billed |
| `AutomaticReleaseHolds`, `NoSilentHoldHolds` | `failed` means nobody charged; returning leaves no hold | `TrailsInv`: as long as the handler still tries, every earlier attempt is recorded as failed; a session has one transaction open, and only a handler at its release step has one that ends in `failed` |
| `RetryChargesOnceHolds` | one charge per idempotency key | `AdmissionInv`: no two rows have one key (`KeyInv`), and nobody is billed for a request without a row |
| `StreamedImplementsGateway` | refinement, by identity | none: what a tracker decides is one of the ends that Gateway allows a stream |
| `StreamTypeCorrect`, `ChunksDoNotMatterHolds` | any text, cut anywhere, reads as the whole | `TrackersInv` (below) |
| `SettlesWholeStreamsHolds` | settled only on a whole stream, for the input it reports | adds `HandedOverInv`: between the end of the stream and the settlement the tracker is complete and stays so |
| `PaymentTypeCorrect` | no credit, no shortfall below zero | `PaymentTypeOK` itself |
| `GatewayFollowsTheProvider`, `OverIsOverHolds` | no status ahead of the provider; nothing reopens | `AnswersTrue`: an answer still to be applied was true of the intent when it was given, and what an intent has been only grows. Without it a late answer could report anything |
| `CheckoutCalledOnceHolds`, `OneRefundCommandHolds` | one checkout call; one refund key | `CalledInv`, `SentInv`: an order once called for is never again in the state that allows a call; a sent key is that of the refund row, which is then there to stay |
| `FrozenWhileAtRiskHolds`, `OpenOrdersWithinCapHolds`, `BooksMatchPaymentsHolds` | no thaw with a risk open; the cap; books = payments | themselves, with `PaymentTypeOK` and `AnswersTrue`: every step is one that moves money (four lemmas, in numbers) or leaves wallet, journal and risks alone (`Quiet`) |
| `RateTypeCorrect` | no counter passes the limit | `RateTypeOK` itself, by the guard of the conditional update |
| `AdmittedAreCounted`, `RateLimitImplementsQuota` | the statements implement the atomic quota | `RateInv` adds `Places`: a kept row's count is the number of requests that hold a place in it, each request holds places exactly for the subjects it is done with (so counting it adds one), and rows under requests are kept (so none is deleted and counted anew) |
| `IdentityTypeCorrect` | types; the user row is locked exactly by the call that works under it | `TypesInv` adds that what a request is about exists |
| `ActiveIsVerifiedHolds`, `FreezeEndsByOperatorHolds` | no unverified active account; no request ends a freeze | `AccountInv` adds `LockedIsActive`: who holds the user row found the account active, and nobody changes that meanwhile |
| `KeysWithinLimitHolds`, `FrozenIsLockedOutHolds` | the cap; what a freeze leaves | `KeyInv` adds `RoomForKey`: between count and insert there is still room, because only the holder of the lock adds keys; and `LoginsOvertaken`: a login under way while the account is frozen had read it before |
| `EachResetLinkOnceHolds` | one use per link, one live link | `LinkInv` adds that a link being used exists and an idle call has none, so a link is never issued twice |
| `CirclesPassTheUserRowHolds`, `SweepIsInNoCircleHolds`, `RefundsAndAdmissionsDoNotCrossHolds` | which circles of waits cannot occur | `LocksInv` (below) |

Every proof goes by one lemma per action that disturbs a conjunct; the temporal
step combines them.

*Sums.* `Sums_proofs` shows that `SumFunctionOnSet` does not depend on the order in
which its recursive definition takes the elements, and from that what a sum is with one
element more, one less, or one value changed. Induction over finite sets goes by a
smallest counterexample, which the well-foundedness of strict inclusion provides; that
needs no induction theorem with an operator parameter.

*Streams.* `TrackInv(w, T)` says of a tracker that has been fed a prefix of `T` that the
lines it has parsed are the first complete lines of that prefix, that its buffer is
what follows them, and that its findings are those of the parsed lines (`Parsed`,
`Before`, `FoundIn`). A feed lengthens the prefix, a pass of the loop parses a line,
`finish` parses the rest; each is an argument about positions of line ends, so it
needs no induction over the text. `SettlesWholeStreams` speaks of the input the
provider reports as any of the `Responses` that are not the request's estimate, so
that it holds for every choice of that constant.

*Row locks.* `ProgressInv` says that each transaction is at a step of its plan, with
exactly the locks listed before that step; `ExclusionInv` that no two have conflicting
locks and that there is one sweep; `ReadInv` that what a locked order or refund row
told is still so. It is kept because whoever decides over a refund has, when it commits,
the rows of the order and of the refund (`DecidedUnderLock`). Every plan is shown to be
`WellMade`: for any two of its locks, what may come after what. A stuck set without a
waiter for the user row is then refuted table by table: nobody in it can wait for a
request, hence for a budget; for a wallet, an order, a refund, or a credential, since
who has one of these waits for one already excluded, has the user row, which only
one can have, or has read of the refund what another's lock contradicts. For refunds
and admissions both would need the user row.

*Only model-checked.* `EveryHoldSurfaces`, which is liveness under fairness, and the
four properties that are violated (`HoldTakenBackOnce`, `FinalStaysFinal`,
`OldCredentialsDie`, `CredentialsEndWithFreeze`).

## Abstractions and what is left out

- One customer. Budgets, wallets, orders and keys are per user.
- `Billing` starts with the credit paid in, and `PaymentDomain` sees model
  requests only as holds; they are not yet composed over one wallet.
- `token_cost` is the exact ceiling. The code divides in floating point before it
  rounds up, which agrees as long as a single charge is below about 2^34 microUSD
  (17,000 USD).
- `RowLocks` has one row for the customer's rows of a table, orders, refunds and
  requests apart; two updates of many keys or links in different scan orders, and
  waits at unique indexes, are left out. In the other modules locks appear only where
  a transaction is cut (`Identity`).
- Expiry of links and sessions, which only refuses what a model may also not do;
  wrong passwords, unknown links and captchas, which are refused before anything is
  written.
- Fixed windows: a subject may use the places of two minutes within two seconds.
- Payloads that contradict the order (amount, currency, transaction id) are refused
  before anything is written and are not generated.
- Audit rows, outbox rows, operator action rows and metrics are written with the
  transaction they belong to and read by nothing modelled.
- Not modelled: test payments (development only), operator tokens and signatures
  (stateless), content safety and CAPTCHA calls (the handler's reaction to them is),
  configuration and preflight, the HTTP edge, database grants, the page and the
  installers.

## Plan

In this order:

1. One wallet: a module composing `Billing` and `PaymentDomain`, refunds racing
   real settlements, and the refinement of the two hold actions, proved step by
   step.
2. The webhook replay cache in front of `apply_webhook`: a redelivery after a
   refused first delivery.
3. Two processes seeding prices at once.
