# A verified model of the Financial Account Aggregation API

TLA+ specifications of KudiVault's backend (FastAPI, PostgreSQL, Redis, Kafka), of the demo bank
beside it and of the web client (React, TanStack Query): its session, its link dialog and settings
page, its sync buttons, its ledger and its export; TLC configurations that check them on small
instances; and TLAPS proofs of the properties that hold for any instance.

Paths below are relative to the repository root, as in `app/sync.py`.

## 1. The system

| Part | Code | State it keeps | Operations |
|---|---|---|---|
| Linking | `app/routers/accounts.py` `complete_link` | `linked_accounts`, `accounts` | exchange a token, look up or insert the link, fetch accounts, commit, run an initial sync |
| Sync | `app/sync.py` | `sync_jobs`, `transactions`, balances, link status | one attempt: job, balances, transactions, commit; failure and rejection paths |
| Unlinking | `app/routers/accounts.py` `unlink_account` | all tables (cascade) | delete the link |
| Manual sync | `app/routers/accounts.py` `sync_account` | none | limit, 404, 409, enqueue |
| Reads | `app/routers/accounts.py` | none | lists, balance, transactions (paged), sync status |
| Worker | `app/worker.py` | its place in the topic | consume, sync, publish the result, requeue, commit the offset |
| Scheduler | `app/scheduler.py` | none | every minute, enqueue the due links |
| Kafka helpers | `app/kafka_client.py` | one producer per process | start it lazily, publish |
| Provider client | `app/provider.py` | none | GET with retries and backoff |
| Rate limiters | `app/ratelimit.py`, `app/redis_client.py` | token buckets and counters in Redis | take a token; count a user's requests |
| Providers | `app/providers/` | none | `mock` over the provider client, `plaid` over its own HTTP calls |
| Demo bank | `mockbank/app.py` | ledgers and an id counter, in memory | tick, list accounts and transactions |
| Authentication | `app/auth.py`, `app/routers/auth.py` | `users` | register, log in, refresh; JWTs |
| Web session | `frontend/src/lib/api.ts`, `auth/AuthContext.tsx`, `pages/Login.tsx` | tokens in localStorage, the user shown, one refresh in flight | register, sign in, guest account, sign out, load, request with one refresh |
| Connections in the client | `features/LinkAccountModal.tsx`, `pages/Settings.tsx`, `main.tsx` | the dialog's step, the cached list, the question about an unlink | link a demo bank or Plaid, reconnect, unlink |
| Sync buttons | `pages/AccountDetail.tsx`, `Dashboard.tsx`, `SyncActivity.tsx` | pending presses, a timer, the query cache | sync one, sync all, fetch again |
| Ledger and export | `pages/AccountDetail.tsx`, `lib/export.ts` | dates, page, last answer | page, filter by dates, export as CSV |

How they meet. The API and the worker share the database and nothing else; a sync runs inside the
callback request (the initial sync) and inside the worker. The API and the scheduler write to
`account-sync-requests`, the workers of one group read it, at least once. API and workers share the
token bucket of each bank in Redis. The client calls the API only; all its pages share one query
cache, whose keys do not name the user, and one pair of tokens.

What is hard about it:

- every handler is `async`, loads rows, awaits a provider for seconds and commits afterwards, in
  READ COMMITTED: what it loaded may have been replaced, re-linked or deleted meanwhile;
- the same sync may run twice at once (initial sync, worker, redelivery);
- the database protects some invariants by a constraint, and others only by the row locks that the
  ORM's flush order happens to take;
- deliveries are repeated after a crash or a rebalance, enqueues are lost while Kafka is down;
- the provider fails, rejects, rate-limits, and goes on posting between two calls;
- Redis replies get lost, a command that was given up may still run, clocks are read before awaits;
- a reader of several pages sees several snapshots;
- a handler of the client runs on after its page or dialog is gone, reads the tokens that are stored
  by then, and invalidates a cache whose fetches are still running.

### What makes each part correct

- *Linking, sync, unlinking*: one link per connection and one account per provider account; nothing
  outlives its link; transactions are stored and counted once; balances are backed by transactions;
  a rejected link stays parked until it is re-linked; no session waits for ever. A reader sees each
  of these operations happen at one instant.
- *Pipeline*: no request is dropped before it was attempted; a due link is attempted in the end.
- *Provider client*: the bucket lets through what its capacity and rate allow; every call ends.
- *Demo bank, storage and export*: what the bank posts gets stored, and what is stored is exported.
- *Web session*: who is shown is who the tokens speak for; a refresh resends a call without running
  it twice; a request and the first load end whatever the tokens are worth.
- *Connections in the client*: the list settles on the user's connections; the dialog does not hang.
- *Sync buttons*: the limit refuses for a window and not for ever, unless a command of the window
  was lost; a sync that is done when the page looks again is on the page.
- *Ledger*: where the page says that nothing matches, nothing does.

## 2. The modules

| Module | Models | Notes |
|---|---|---|
| `ConnectionView` | what the API promises of one connection | abstract, every operation atomic |
| `LinkSync` | `complete_link`, `sync_linked_account`, `unlink_account`, the provider as seen by them | the core; implements `ConnectionView` |
| `LinkSyncProofs` | | TLAPS proofs about the structure of `LinkSync`'s tables and about the end of `needs_reauth` |
| `ViewProofs` | | TLAPS proofs of what `LinkSync` shows: the refinement of `ConnectionView`, balances, counts |
| `SyncPipeline` | scheduler, manual sync, Kafka, workers | a sync is one outcome here |
| `SyncPipelineProofs` | | TLAPS proofs of at-least-once delivery |
| `ProviderClient` | `_get`, `take_provider_token` | with a clock |
| `ProviderClientProofs` | | TLAPS proofs of its throttling and its types |
| `TransactionHistory` | demo bank, stored rows, `list_transactions`, the CSV export | a sync is a fetch and a commit here |
| `TransactionHistoryProofs` | | TLAPS proofs of its safety: what an export loses |
| `WebSession` | tokens, refresh, sign-in, sign-out, first load, the `/auth` routes | one tab |
| `WebSessionProofs` | | TLAPS proofs of its safety |
| `Connections` | link dialog, the list of connections, unlinking | the server's handlers are atomic here |
| `ConnectionsProofs` | | TLAPS proofs of its safety |
| `ManualSync` | sync buttons, `enforce_user_limit`, `sync_account`, the timer | a sync commits in one step |
| `ManualSyncProofs` | | TLAPS proofs of its safety |
| `Ledger` | dates, pages and kept answers of the account's page | |
| `MC...` | constants for TLC | |

The modules meet at named places: a sync is a session in `LinkSync`, one of five outcomes in
`SyncPipeline` and a fetch and a commit in `TransactionHistory`; a provider call is a step of a
session in `LinkSync` and the whole of `ProviderClient`. The callback and the unlink that
`LinkSync` takes apart are a commit and its answer in `Connections`; a request of a page is taken
apart in `WebSession` and is one step elsewhere; the enqueue of `SyncPipeline` is the end of a
press in `ManualSync`. Each step is atomic only where the code or the service behind it makes it
so: between two awaits, in one SQL statement, in one Lua script.

### LinkSync

The tables are variables (`links`, `balance`, `txns`, `jobs`) that hold what is committed. A session
(a callback or a delivery) has a phase `pc`, the `LinkedAccount` it loaded (`orm`) and what it has
fetched but not committed (`buf`). Phases follow the awaits:

| Phase | Action | Code |
|---|---|---|
| `lookup` | `LookupLink` | `accounts.py` 99-124: select the link, set its fields in memory |
| `insert` | `InsertLink` | the flush of a new row; the unique index makes it wait or fail |
| `link_fetch` | `FetchForLink`, `LinkFails` | `fetch_accounts`, and the rollback |
| `link_flush` | `FlushLink` | the autoflush before `select(Account)`: UPDATE, row lock |
| `link_commit` | `CommitLink` | insert the missing accounts, commit |
| `link_refresh` | `RefreshLink` | `db.refresh`, then the initial sync |
| `sync_start` ... `sync_refresh` | `OpenJob`, `FetchAccounts`, `FetchTransactions`, `SyncFails`, `ReadAccounts`, `WriteRows`, `CommitSync`, `ReportSync` | `sync.py` 65-130, 144-145 |
| `sync_commit`, `sync_record` | `LoseCommit`, `RecordFailed` | `sync.py` 129-142 |
| | `ReceiveRequest` | `worker.py` 31-49 |
| | `Unlink` | `accounts.py` 338-350 |
| | `Abort` | cancellation, a lost connection, a dead process |

Three things about PostgreSQL and SQLAlchemy carry the argument and are modelled as they work.
Row locks follow from phases (`RowLocked`: the re-link's UPDATE; `KeyShared`: the lock a job's
foreign key takes on the link), so they need no variable. The ORM writes an attribute only when it
differs from what was loaded, so `orm.status` keeps the loaded status. A commit whose
acknowledgement is lost has been applied; the session forgets what it inserted and records a failed
job as well.

`transactions_synced` is not a column: `_emit` sets it on the object it returns, after the commit,
for the log and the caller. `reports` holds what the successful attempts said this way, so rows of
a commit that raised, or of a session that was cut off before `_emit`, are in no report. A
rejection is any 401 or 403 of any provider on any call (`provider.py` 42-43, 64-68 for the demo
banks), so `SyncFails` may park every link at every call, also one whose token has been replaced.

Names stand for data: a link's identity is the request that inserted it, and a token's the request
that obtained it; a ledger is the number of transactions posted, which is also the balance.

### SyncPipeline

`backlog` is the uncommitted part of the one-partition topic; each request carries a history bit
saying whether it has been attempted. `worker[w]` is the worker's place in its loop and whether the
partition has been taken away since. `producer[c]` is the module global of each process, assigned
before `start()`, as in the code.

### ProviderClient

Time is counted in the time one token takes to come back (one second by default). `time.time()` is
evaluated before the pool connects and the script is sent; connecting and sending have a timeout
each, and a script whose caller gave up may still run. So a reading may be `MaxLag` old when the
script runs, for any `MaxLag`, and `adrift` holds the scripts that were given up and may run late
(`LateRun`). What old readings give away is counted: `rewound` for the units by which one turns the
timestamp back, `expired` for the key's expiries, each of which is worth `MaxLag - 1` tokens.
`window` is an observer that starts counting with a grant of its choice, so that `Throttled` speaks
about every interval. Left out is a client library that sends a command again on its own
(`pyproject.toml` 21 pins no version of `redis`): it spends a token more and sends no request more.

### TransactionHistory

A transaction is the id its bank gave it and a number of its own, so that a reused id can be told
from the same transaction. Rows are a sequence in listing order; a new row may come anywhere in it,
because banks post late, Plaid's dates tie and row ids are random. A page of the API is three
statements (owner, count, rows), each with its own snapshot. `Listings(old, new)` gives every new
row a place of its own (an injection into the places) and fills the others with the old rows in
their order: no choice of sort keys can produce anything else.

### WebSession

A token is the user it was issued to; every request may be refused, which stands for expiry.
`req[r]` is the place of a call of `request` (`api.ts` 88-106): sent with a bearer, or waiting for
the refresh. `flight` is `refreshInFlight`; its `.then` continuations run with its answer, so
`RefreshEnds` resends or fails everybody who waits. `flow[s]` is a running `onSubmit` or `onGuest`
of `Login.tsx`; `mounted` says whether its page is still there, which is what its busy flag hangs
on. `Reload` forgets everything but `store` (localStorage). The requests followed are the `me()` of
the first load, those of the sign-ins, and calls that must not run twice (a link's callback);
`executed` counts how often their handler ran.

| Action | Code |
|---|---|
| `Submit`, `Guest`, `Register`, `SignIn`, `CreateGuest` | `Login.tsx` 25-53, `AuthContext.tsx` 42-59, `routers/auth.py` 20-83 |
| `Press`, `Answer`, `Refused` | `api.ts` 88-106, `routers/auth.py` `get_current_user` |
| `RefreshEnds` | `api.ts` 61-84, `routers/auth.py` 86-99 |
| `SignOut`, `Reload` | `AuthContext.tsx` 61-64 and 21-40 |

Two histories, `late` and `overlapped`, name the two ways in which this code lets a session be
mixed up: a refresh of another session that lands after the sign-out, and the two buttons of the
sign-in page pressed at once. The safety properties hold outside of them, and both are listed as
hazards.

### Connections

`rows` is the table `linked_accounts`; `list` and `fetch` are the cache entry `["accounts"]` and
the fetch of it. `dialog` is the view, bank and step of `LinkAccountModal`, and `dialog.job` the
handler that still writes to it: a dialog that was closed or sent back has other state, so a late
answer changes the rows and the cache and nothing that is shown. `job[j]` is a `startLink` or
`completeLink` in flight, with the access token it carries; `deletes` the unlinks in flight, `here`
saying whether the settings page that sent them is still mounted. The commit of either (`Completed`,
`Deleted`) and its answer (`Answered`, `Unlinked`) are two steps, with a fetch of the list before,
between or after them, and the answer may be lost. `untold` marks what the client could not have
heard of: lost answers, failed fetches, another device.

TanStack Query (version 5) is external and modelled from how it is used: while a page observes the
entry, an invalidation starts a new fetch in place of a running one if the entry has data, and
joins the entry's first fetch otherwise; a page that mounts joins a running fetch; a fetch that
lands clears the mark. `joined` marks an invalidation that met the first fetch after it had read:
its answer is older than the change, and is then taken for the newest.

### ManualSync

`call[c]` is one press: its POST before INCR, before EXPIRE and before the handler's body; then
answered, or the timer of its page. `counter` and `ttl` are the key in Redis. Either command may be
lost: it was not sent, or Redis has run it and its reply was lost, or it runs later (`adrift`). The
call is then allowed, as `enforce_user_limit` does, or the client library sends INCR again, or the
process dies. `broken` records that the INCR that made the key was not followed by its EXPIRE. A
sync commits in one step, and the commits are numbered: `entry.version` is how many of them the
data of the cache entry has seen. One entry is followed, any one, chosen in `Init`, since no entry
reads another. `owed` is what the entry must show once nothing is being fetched: what had committed
when the timer of the shown page fired. A timer that meets the entry's first fetch after it has read
joins it (`TooLate`), and a failed fetch releases the page; both leave the page without a promise.
Turning a page of the ledger or changing the month shows another key, which is like mounting a page
that reads it. Entries that nobody observes are never dropped here.

### Ledger

A pair of dates is a name with the number of rows it matches. `cache` has an answer for each dates
and page, `kept` is the last answer shown (`placeholderData`): what `Shown` returns is what the
table, the total and the buttons under it are drawn from.

## 3. What TLC checks

| Run | Config | Instance | Shows | States, time |
|---|---|---|---|---|
| `link_relink` | `LinkSync_relink` | 3 callbacks on one Plaid connection, 2 provider accounts, unlinks, rejections | types, structure, parked links, consistent view | 182,985, 20 s |
| `sync_overlap` | `LinkSync_overlap` | 2 callbacks and 1 delivery on a demo link, a ledger of 1 | counts, backed balances, cascade, refinement, no session waits for ever | 262,238, 95 s |
| `pipeline` | `SyncPipeline_live` | 1 link, 2 workers, 1 crash, 1 rebalance, 1 outage | at least once, due and queued links attempted | about 80 s |
| `provider_calls` | `ProviderClient_live` | 2 calls of 2 attempts, a bucket of 1 token, readings up to 2 old, 4 time units | overdrawn by what old readings give away only, every call ends | 264,276, 70 s |
| `history` | `TransactionHistory_paging` | 2 syncs, 4 transactions, 1 bank restart, pages of 2 | each id stored once and in the end; errors of the export bounded | 81,546, 60 s |
| `web_session` | `WebSession_live` | 2 users, 2 sign-ins at once, 1 page call, reloads | whose tokens, at most once, every request and load ends | 31,479, 10 s |
| `connections` | `Connections_live` | 1 user, 1 bank and Plaid, 1 link and 1 unlink in flight, 2 rows | the list is right, the dialog ends | 547,451, 100 s |
| `manual_sync` | `ManualSync_live` | 1 link, 2 presses, a limit of 1 in a window of 2, 1 commit, the transactions entry | expiry set, refusals end, finished syncs shown | 1,141,044, 165 s |
| `relink_reactivates`, `stored_once` | `LinkSync_...` | smallest that shows it | findings 1, 2 | seconds |
| `cold_start` | `SyncPipeline_coldstart` | first enqueue while Kafka is down | finding 3 | seconds |
| `empty_ledger` | `Ledger_empty` | 2 filters, 2 rows | finding 4 | seconds |

Why the bounds are enough. In `LinkSync` everything that can go wrong between sessions of one
connection needs a writer that is late, one that overtakes it, and one that reads the mixture:
three sessions. Connections share no row, so one is checked and any number proved. Two provider
accounts are needed to add one in a re-link; one transaction is enough to be counted twice or to be
ahead of a balance. `SyncPipeline` has one crash, rebalance and outage in every order, over a
backlog that a requeue still extends. In `ProviderClient` two calls of two attempts run the script
four times and once more late, with the key expiring in between and readings that are old enough to
profit from it. In `TransactionHistory` pages of two and four rows give a full last page, a short
one and an empty history. In `WebSession` two users and two sign-ins are what it takes to mix two
sessions, and the first load, two sign-ins and a page call wait for one refresh. In `Connections`
two rows are what it takes for a connection to be replaced by another of the same bank (on another
device) while it is being unlinked, or for Plaid to be linked beside a bank. In `ManualSync` two
presses with a limit of one are refused, cross each other's INCR and EXPIRE, and set two timers;
one link makes the entry of another page impossible to mix up, and the run follows the entries of
account pages only (`Followed`), the ones with a first fetch beside a timer; `ManualSyncProofs`
covers any links and every entry. Several modules cap counters (`MaxBacklog`, `MaxPosted`,
`MaxCommits` and so on); each bound is a constant, named where it is declared. `CHECK_DEADLOCK
FALSE` is set for `TransactionHistory` only: after an unlink nothing is left to do.
`LinkSync_relink` uses symmetry over the sessions, with an action property and no liveness.

Fairness is what the code's scheduling gives and no more.

- `LinkSync`: each session that can take a step does (the event loop runs it, every await has a
  timeout, PostgreSQL's lock queues are served). Users, providers, aborts are free to do nothing.
- `SyncPipeline`: the scheduler's loop, the workers' loops and their restart by the process
  manager, Kafka's assignment of an orphaned partition. Not the broker: the liveness properties
  assume `<>[]brokerUp` instead.
- `ProviderClient`: time passes, and a call goes on: the bank's and Redis's sockets have timeouts.
- `TransactionHistory`: syncs are run again and again and end, which `SyncPipeline` is about. The
  export, the user and the bank are not fair.
- `WebSession`, `Connections`: a fetch of the browser ends, with an answer or an error. Nobody has
  to press, navigate or reload; the properties of `WebSession` leave out a page that is reloaded
  for ever.
- `ManualSync`: time passes in Redis, and a handler that has made the key sets its expiry, fails to
  or dies. The worker, the timers and the fetches need no fairness, since what is shown is a safety
  property.

Every property comes with a fault, an operator marked "Fault:" beside the definition it changes in
the way a plausible bug would; substituted for that definition it makes TLC report the property.

## 4. What is proved

`LinkSyncProofs` proves for any sets of callbacks, deliveries, connections and provider accounts,
and any ledger:

- `TypeCorrect`, `StructureHolds`, and from them `LinkUnique` (one link per connection),
  `AccountsUnique` (one account per provider account of a link) and `UnlinkCascades` (nothing
  outlives its link).

The inductive invariant is `Inv == TypeOK /\ Structure`. The three properties are not inductive.
That accounts are unique rests on no constraint of the schema: it holds because a re-link has
flushed its UPDATE, and so holds the row's lock, by the time it reads the existing ids
(`RelinkLock`). That a link is unique rests on the index, and on the row of an uncommitted insert
counting as well (`NewRows`). That nothing outlives its link rests on the foreign key of the job
that a sync flushes before it awaits the provider: an unlink must wait for the session
(`JobPinsLink`). The types and the structure are proved together, because a session's loaded link
is known to be a row only through those locks. The only assumption is `ConstantsAssumption`. For
each action there is a step, and under it one step per conjunct it can disturb.

Its second part proves `ParkedUntilRelinked` (`ParkedUntilRelink`). It rests on `Tokens`: the token
a row or a session holds was obtained for that row's connection, and the token of a committed row
belongs to a request that is past its commit, so the token a re-link writes is never the one the
row had. What parks a link is no promise of the code: any 401 or 403 does.

`ViewProofs` proves three more things, over the same assumption:

- `ImplementsConnectionView`: `Spec => ImplementsView`, the refinement of `ConnectionView`, and
  `ShownIsConsistent` (`ViewConsistent`). Each commit is mapped to one abstract step of one
  connection (`CommitLinkShown`, `ApplyShown`, `SyncFailsShown`, `UnlinkShown`), every other step to
  a stutter (`ShownSame`). Beyond `Inv` this needs `ViewParts`: a link has an account from its first
  commit on, because the callback refuses an empty list and the row's lock keeps an unlink out of a
  re-link; and a sync's transactions all go to one account.
- `BalanceStaysBacked` (`BalanceBacked`). The invariant is `SessionDemo`, what a sync still knows at
  each await about the balance and the transactions it carries: the balance is at most the ledger,
  then the transactions reach it, then those it no longer carries are stored; and a balance it does
  not rewrite is the one it fetched, unless another sync of the link has committed meanwhile. That
  the property survives a sync that found the balance unchanged and so does not write it is the case
  the run could only show for one overlap.
- `CountsAddUp` (`CountsMatch`): the `transactions_synced` reported for a link add up to at most
  what is stored of it, and to exactly that once every attempt whose commit was applied has
  reported. The invariant counts, beside the reports, those that are due from sessions between
  commit and `_emit`; it adds that such a session has not reported yet, and that the rows two
  sessions have written and not committed are never the same (`WritersApart`): a conflicting insert
  waits for the other's commit, and then counts nothing. The sum is a fold over a set, so its
  lemmas are about the recursive function the fold is defined by: `TotalIsReported` says that the
  sum is the size of the set of reported transactions, by taking the smallest set of reports for
  which it were not. Induction is replaced by a least counterexample throughout (`LeastNumber`),
  because the library's induction rules cannot be instantiated.

`SyncPipelineProofs` proves for any links, workers and bounds: `PipelineTypes` and
`NothingIsDropped` (the offset moves past a request only after its attempt). The inductive
invariant adds to the types what a holder holds (`Holding`): it owns the partition, the backlog is
not empty, and its head is marked by the time the worker goes to publish, sleep or commit. Appends
never touch the head, so only the holder can. The assumption is `PipelineAssumption`. That it is
the *head* a worker commits is the consumer group's promise, which is how Kafka is modelled: the
proof shows that the worker's loop lives up to its side of it.

`ProviderClientProofs` proves `ThrottledAlways` for any capacity, number of calls and attempts. The
property forgets the tokens still in the bucket, so it is strengthened to their sum with the tokens
spent, measured at the bucket's own timestamp (`Balanced`), and to the key outliving its timestamp
by the time it takes to fill and one unit (`Dated`, from `EXPIRE ceil(capacity / refill) + 1`): a
reading that finds it gone gives away what it is older than that unit. `ClientTypes` (`TypeOK`)
says that the script never leaves a full bucket and no call exceeds its attempts; it needs that a
call which waits to try again is not at its last attempt (`Attempted`), and that every delay of the
backoff is a time. The assumption is `ClientAssumption`.

`TransactionHistoryProofs` proves for any syncs, page size, number of transactions and restarts:

- `HistoryTypes` (`TypeOK`): no id is stored twice, and no page is asked for past the last total. It
  needs that a ledger has no id twice and none its counter has not given (`Banked`), also after a
  restart, and that what a sync fetched was a ledger (`Fetches`).
- `ExportLosesLittle` (`ExportSlack`): an export leaves out, and repeats, at most one row for each
  row inserted meanwhile. The run has pages of two and four rows; the proof has any. What is
  preserved (`Progress`) is about the places the export is past: the rows of the start among them
  are in the file, those that are not in the file were inserted meanwhile, there are at least as
  many as the file has lines, and no more rows are stored than the page's total and those inserted
  since. It rests on one fact about listings (`ListingFacts`): a new row can push an old one away
  from the front, never nearer to it; so nothing but new rows comes to where the export has been.

The assumption is `HistoryAssumption`; that the seeds are among the transactions that are counted
(`Seed \in 0 .. MaxPosted`) is part of what the bound `MaxPosted` means.

`WebSessionProofs` proves for any users, sign-ins and calls: `TypesHold`, `CallsRunOnce`,
`PairIsOnes` and `ShownIsTheirs`. That the user shown holds the stored tokens is not inductive: it
needs that whoever is being asked about holds them (`AskedHoldsTokens`), and that the first load, a
sign-in and a shown user exclude each other (`Asking`, `OneAtATime`), so that nobody's `me()`
is overtaken by another's tokens. A refresh keeps it because, unless it is late, it was sent with
the very token stored beside what it replaces (`StoreIsOne`). That a call runs once needs that one
without an answer has not run (`NotRunYet`): all 401s come before the handler. The assumption is
`SessionAssumption`: the names of sign-ins and calls differ.

`ConnectionsProofs` proves for any users, banks, links and unlinks in flight and rows: `TypesHold`
and `ListStaysRight`. The list is right because, with every change answered, a fetch that will land
was sent for the user and has read the rows of now (`Known`): every answer starts a new fetch, in
place of one that has read, unless that one is the first (`joined`). The assumption is
`ConnectionsAssumption`.

`ManualSyncProofs` proves for any links, presses, limit and window: `TypesHold`, `ExpiryStaysSet`
and `FinishedStaysShown`. `ExpiryIsSet` is inductive with the types, late commands included;
`FinishedIsShown` needs that a fetch which has read its data has read what the page is owed
(`Owed`) and that each page invalidates what it shows (`ShownIsInvalidated`). The assumption is
`ManualSyncAssumption`.

So every invariant and every action property that a passing run checks is proved, from the named
assumptions alone. Only model-checked: the properties under fairness (`EverySessionEnds`,
`DueIsAttempted`, `QueuedIsAttempted`, `EveryCallEnds`, `EveryIdIsStored`, `EveryRequestEnds`,
`LoadingEnds`, `WorkingEnds`, `RefusalsEnd`), because liveness and ENABLED are out of the prover's
reach; and `Ledger`, whose run expects a violation. No module declares a RECURSIVE operator.

## 5. Findings

Each is a run that TLC must find violated, of a property that states what the repository says.

1. *A re-link may leave the connection parked* (`RelinkReactivates`). `complete_link` assigns
   `ACTIVE` to an object loaded as active; the ORM then writes no status, and a rejection committed
   in between survives.
2. *A transaction may be stored twice on a link* (`StoredOnce`). The account that gets the
   transactions is the first of an unordered query, and the unique key is per account.
3. *A process that starts before Kafka never enqueues* (`DueIsAttempted`, cold start).
   `get_producer` keeps a producer whose start failed.
4. *A filter that matches transactions may be shown as matching none* (`EmptyMeansNothing`). The
   last answer stays on the screen with its page buttons while the answer for new dates is fetched,
   and Next then leads to a page that the new dates do not have: it is empty, and its buttons are
   gone.

What the models also contain, without a run of its own, and what the properties therefore except:

- a rejection may park a link that was just repaired: the except branch of a sync does not look
  whether the rejected token is still the stored one (`sync.py` 86);
- a commit that is applied with its acknowledgement lost stores rows that no attempt reports: the
  failed job says 0 (`CountsMatch` bounds the sum and asks for equality where all have reported);
- the token bucket may refill an interval twice: the script stores its caller's clock even when that
  turns the timestamp back; and a key that expires is worth a full bucket to a reading that is old
  (`Throttled` allows for both);
- an INCR whose reply is lost, or which runs after its caller gave up, leaves a counter without an
  expiry, as a lost EXPIRE does: past the limit every press is refused from then on (`broken`);
- an invalidation that meets the first fetch of an entry joins it: if the fetch has read before the
  change, the list or the account's page stays old and is taken for new (`joined`, `TooLate`);
- the export may miss rows that were always there: a page's total and its rows come from two
  snapshots (`ExportSlack` bounds what is missed);
- after a restart the demo bank's ids start again and collide with stored ones (`EveryIdIsStored` is
  about ids);
- a refresh sent before a sign-out stores its access token after it (`late`);
- the two buttons of the sign-in page can run at once, and the slower one wins the tokens while the
  other's user may be the one shown (`overlapped`);
- the cached lists outlive a sign-out: the next user is shown the previous user's until the fetch
  ends (`switched`);
- `completeLink` carries the token stored when `startLink` was answered, so a sign-out and sign-in
  in between would link the bank to the next user.

## 6. Not modelled

- JWTs, password hashing, encryption, configuration, logging, migrations, presentation: no state of
  their own, or none that interleaves.
- Undecodable messages on the topic: only the helpers of `app/kafka_client.py` write to it.
- Amounts, currencies, descriptions and dates, beyond what the properties tell apart: the analytics
  of the dashboard and of the account's page are sums over one answer.
- Preferences, toasts, the search box, quoting in the CSV.
- Several tabs of one browser: they share localStorage but neither the refresh nor the cache.
- The cursor of the Plaid provider, whose fetch is one step wherever a provider is called.
- Isolation anomalies inside one SQL statement. The writes of a sync are one step of `LinkSync`, so
  two syncs that insert the same rows in different orders are not taken apart.
- A restart of the demo bank beside syncs of several sessions: `TransactionHistory` has it,
  `LinkSync` does not.

## 7. Plan

Done, in this order: `LinkSync` with `ConnectionView` and its proofs, `SyncPipeline` with
its proofs, `ProviderClient`, `TransactionHistory` and `WebSession` with theirs,
`Connections` and `ManualSync` with theirs, `Ledger`.

Next:

1. The cursor loop of `app/providers/plaid.py` in `TransactionHistory`: 20 pages from the beginning.
2. Two users in `Connections`, so that the list shown after a sign-in is a property and not an
   exception.
