# A TLA+ model of spots-web

`spots-web` is a marketplace for parking spots: a Rust server without external crates
(`src/backend/src`), SQLite or a remote libSQL server behind it, Stripe for subscriptions, and a
React frontend. This directory holds TLA+ specifications of the parts of the server in which the
order of events matters, TLC configurations that check them on small instances, and proofs checked
by TLAPS for every value of their constants. `PROJECT.json` lists the components, the runs, the
faulty variants each property is tried against, and for every definition the source lines it stands
for.

## The system

| Component | State | Operations | Talks to |
|---|---|---|---|
| Connection pool (`db.rs`) | idle connections, `closed`, a condition variable; per connection an open transaction | `checkout`, `with`, `transaction`, guard drops, `close_all` | every handler and cleanup thread, SQLite |
| Usage quota (`routes.rs` `usage`, `db.rs`) | `usage_count`, `usage_reset_at` of a user | `POST /api/usage` (check, track) | pool; subscription written by the webhook |
| Stripe webhook (`routes.rs` `payment`) | subscription columns of a user, `WebhookEvents` | `POST /api/payment`, hourly pruning | Stripe (deliveries in, queries out), pool |
| CSRF tokens (`routes.rs`, `stores.rs`) | per instance: user -> (token, time); in browsers: two cookies | sign-up, sign-in, every mutation, sign-out, hourly sweep | all mutating handlers |
| Lockout and rate limit (`stores.rs`) | failures per (email, address), request times per address | checked and recorded by sign-up and sign-in, swept | sign-in |
| Accounts (`routes.rs`, `db.rs`) | `Users`, `Auths` | sign-up, sign-in with rehash, `GET`/`PUT /api/me` | pool, CSRF tokens, lockout |
| Marketplace (`routes.rs`, `db.rs`) | `Spots`, `Bookings` | create, update (merge), soft delete, list, book | pool |
| Checkout and portal (`routes.rs`) | none of their own | two handlers | Stripe worker |
| Stripe worker and breaker (`stripe_worker.rs`, `stripe.rs`) | bounded job queue, failure count, `open_until` | submit, run, expire, retry, give up | handlers, Stripe |
| HTTP server and shutdown (`http.rs`, `main.rs`) | connection queue, stop flag, live workers | accept, shed, serve, keep alive, stop, wait, close the pool | all handlers |
| Connection (`http.rs`) | what has been read, how the body is framed, deadlines | read a request, answer it, keep alive or close | the dispatcher |
| Routes and guards (`routes.rs`, `auth.rs`, `json.rs`) | none of their own | dispatch, `require_auth`, `require_csrf`, parse, validate, merge | stores, pool |
| Remote session (`hrana.rs`) | baton of the open transaction | begin, statement, end over HTTP | libSQL server |
| Startup (`state.rs`, `db.rs`) | schema, demo inventory | open with retry, migrate, seed | database |
| Configuration (`config.rs`, `state.rs`) | environment, `AppState` | read `.env` files and JSON files, refuse to start | everything |
| Frontend (`src/components`) | view state | load, submit, discard late answers | the API |

Workers of the HTTP server call one handler at a time each; handlers of different workers interleave
at every pool call, every access to an in-memory store (each takes its mutex on its own) and every
Stripe call. Three periodic threads sweep the stores and the event table. Several server processes
may run behind a load balancer and share only the database.

What is hard here, and which property is for it, is the list `hazards` of `PROJECT.json`: races in
the pool between the notify, the wait and `close_all`; transactions ended by whoever fails first;
decisions on a row read in an earlier statement (quota window, booking, merge-update); deliveries
that Stripe repeats, reorders and runs at once, with crashes in between; one CSRF token per user
shared by several browsers and lost at restarts; timeouts that race late answers.

What makes each part correct:

- pool: connections are conserved, no transaction leaks unless it cannot be rolled back, no
  wakeup is lost, closing blocks nobody, and what a caller is told is what is durable, with two exceptions;
- quota: the counter never passes the limit; what a window grants is bounded;
- webhook: nothing is lost, and nothing retried for ever but what is refused each time; a recorded event has had its effect; a repetition
  never takes the row back;
- CSRF: nothing stale is accepted, nothing revoked returns, a browser that retries gets back in;
- lockout: the wrong guesses a client gets are bounded whatever the interleaving, and a flood of new
  keys does not push out a live lock; an account keeps its password but for a rehash;
- marketplace: a deleted spot stays deleted, only its owner changes it, and a booking is made on
  terms that were on offer while the request ran;
- Stripe worker: the queue is bounded, every caller is answered, the breaker closes again;
- server: every accepted request is answered before the pool closes, or the grace period ran out;
- remote session: a transaction takes effect whole or not at all, is reported done only when it is
  durable, and its lock does not outlive it for ever; startup: instances that start together end up
  with the whole schema and inventory;
- connection: every request arrives as it was sent, is answered once and in order, or the connection
  ends; nothing is held longer than its timeouts allow;
- routes: only a request that has proven whom it speaks for writes, and only sound rows.

## Modules

| Module | Models | Composes / implements |
|---|---|---|
| `DbPool` | the pool and the transactions run on it | implements `AtomicStore` |
| `AtomicStore` | what the pool promises: an operation is done and reported done, or neither, with two exceptions that it names | |
| `UsageQuota` | `POST /api/usage` of one user | uses transactions as atomic steps, which `DbPool` justifies |
| `Webhook` | `POST /api/payment` for one customer, with Stripe around it | same |
| `CsrfGate` | browsers, instances and their token stores | |
| `Marketplace` | create, update, delete and book for spots of several users | |
| `HttpServer` | acceptor, connection queue, workers and shutdown | closes the pool of `DbPool` |
| `StripeWorker` | job queue, workers, retry loop and circuit breaker | implements `OnceOnlyCall` |
| `OnceOnlyCall` | what a call to Stripe promises the handler: executed at most once, answered once and truthfully | |
| `SignIn` | `signin`, `signup` and the two stores that slow guessing down | uses `Retain` |
| `Retain` | `Vec::retain` on a sequence | |
| `HranaSession` | sessions, the wire and the libSQL server: batons, lost answers, expiry | |
| `Startup` | the programs that run on it: migration, seeding, `create_account` | extends `HranaSession`, implements `RemoteStore` |
| `RemoteStore` | what operations on a database behind a network promise | |
| `Connection` | one connection: framing, timeouts, answers | |
| `Json`, `JsonText` | the JSON parser as a recursive function; the text it reads | |
| `Boot` | environment, configuration files, when the server starts and with what | uses `Json` |
| `Service` | a request's way through the routes to a stored row | extends `Connection` and `Boot`, uses `Json` |
| `MC...` | the instances TLC checks | extend the module they are named after |
| `...Proofs` | theorems and proofs | extend the module they are named after and `TLAPS`; `StripeProofs` extends `Webhook` and `StripeWorker`, `ServerProofs` extends `HttpServer` and `Service` |

Definitions whose comment begins with "Faulty variant", or that stand under the heading "Deviations from
the code", are not part of the specification. They
change one action the way a plausible bug would; with one in place of the action it precedes, the
property it is listed for in `PROJECT.json` (`mutants`) is violated. They show that the properties
are about the code and do not hold whatever it does.

### DbPool

State: `idle` and `closed` are the fields of `PoolState`, `waiting` is the wait set of the condition
variable, `conn[t]` is the connection in thread t's `Checkout` guard. `writer`, `pending` and
`durable` are SQLite's side: the connection in an open write transaction, the uncommitted and the
committed writes, each identified by the thread whose operation they belong to; `stuck` says that this
transaction is one whose ROLLBACK has failed. Actions: `Start` (a call of `with` or `transaction`),
`Checkout` (one turn of its loop under the mutex), `Exec` (a bare statement), `Reread` (the query with
which `insert_spot` and `update_spot` read back the row they wrote, in the same closure but outside any
transaction), `Begin`, `Body`, `Commit`, `Rollback` (`transaction` and `TxGuard::drop`), `Return` and
`Notify` (`Checkout::drop`: push, unlock, notify), `Spurious` (a condition variable may wake for
nothing), `CloseAll`, `Drain` and `WakeAll` (`close_all`). Failures, SQLITE_BUSY, panics of the closure
and SQLite's own rollbacks are nondeterministic choices (`Spoil`). The connections are local SQLite
handles. On a remote session the answer of a statement can be lost, and the promise is the weaker one
of `RemoteStore`.

`Rollback` has three outcomes, as `TxGuard::drop` only logs a failure: SQLite had already ended the
transaction, ROLLBACK ends it, or it fails and the connection goes back to the pool with the transaction
open. In the last case the next caller's statement joins the transaction (`Exec`), is told that it
succeeded and may be lost with it; the lock keeps every other connection from writing; and nothing in
the code ends it: a failing statement may, or the close of the connection (`Close`). `StrayOnlyIfStuck`
says that this is the only way for a transaction to outlive its thread, and that no second one is ever
begun inside it.

`AtomicStore` says what is left of "all or nothing" for the callers. An operation has its effect and is
told so in one step, or neither, with two exceptions: one that reads back (`echoes`) takes effect first
and may then be told of an error, and while the layer is `jammed`, by a ROLLBACK that failed, one may be
told that it is done and leave nothing behind. The refinement maps `jammed` to `stuck`.

A panic
that unwinds and an error that is returned run the same guards in the same order.

### UsageQuota

One user, several workers. `Lookup` is `find_user`, `Judge` the decision on what was read and the
clock, `Reset` and `Consume` the two transactions, after which the request is answered. `period`
is a history variable: the units granted since a window was last opened over one that had run out.
Requests are short compared with the window of 30 days: the clock ticks at most `MaxSpan` times
during one, and a window is at least three times that long (`QuotaAssumption`). The limit is the
one read at startup; a restart with a lower limit, under which the stored counter may exceed the new
one until the window ends, and a clock that is set back are left out. Subscribers are answered without counting, so
their requests are not in the model; a subscription may start or end at any time.

### Webhook

One customer whose subscription passes through versions 1, 2, ...; event e announces version e.
`Deliver`, `Retire` and `Emit` are Stripe (external), which delivers each event at least once, in
any order, also concurrently, until it has seen a 2xx answer. `Lookup`, `Fetch`, `Apply`, `Record`
and `Answer` are the handler; pool and Stripe calls are separate steps. `Kind` says what the event's
branch in `process_webhook` does: a "snapshot" (`customer.subscription.*`) writes what its payload
holds, a "fetch" (`checkout.session.completed`, `invoice.paid`) retrieves the subscription as it is
now, a "notice" (`invoice.payment_failed`) writes nothing. Event types the handler ignores are
recorded like a notice. `Payload` says whether the event names a customer and whether it brings the
e-mail itself, and `email` whether Stripe knows one for the customer, which `SetEmail` changes. A
subscription event without a customer, or whose customer has no e-mail, is answered 400 each time it
comes, and not as a fault; the other kinds are passed over, and recorded, when they lead to no user
(`Resolved`, `Fetch`). Stripe is configured and every event has an id: otherwise nothing is looked up.
`Prune` is the hourly thread: with a retention of 30 days against three days of redelivery it removes
only events that Stripe will not send again. `Crash` is a kill and restart.
`handled` and `applied` are history variables. `find_user` and the UPDATE of `apply_sub_patch` are
one step: users are never deleted and the id that the first returns does not change.

### CsrfGate

`store[i][u]` is the entry of user u in instance i's `CsrfStore`. `minted` numbers the tokens in the
order they are handed out, which stands for 256 random bits never drawn twice. A browser has a
session cookie and a CSRF cookie with an age; a request carries the user of the session, the cookie as
a header, and goes to some instance. `Check` is `require_csrf` up to its verdict (one read of the
store), `Retry` is `csrf_retry`, `Revoke` the end of `signout`, `Issue` is `set_auth_cookies` at the
end of a sign-up or sign-in, `Cleanup` the hourly sweep with `CsrfStore::cleanup`, `Restart` a new
process. What a mutation does once it is past the gate is another module's business. A session lives
30 days, much longer than a token's 24 hours: it does not expire within a run.

### Marketplace

`spots` and `bookings` are the two tables. A row is reduced to its owner, one data field (`price`, which
stands for all of them), `is_available` (`open`), the deletion mark and a count of the writes to it; the
seeded rows are rows like others and the tables begin empty. `Accept` is a request that has passed
session, token and JSON checks and, for a new spot, has drawn its id. `Read` is `get_spot` with what the
handler decides on it, `Write` the UPDATE of `update_spot` with the body merged into the row read before
(`Merged`), `ReadBack` the SELECT that ends `insert_spot` and `update_spot`, `Delete` and `Book` the
statements of `delete_spot` and `insert_booking`. Pool calls are not transactions here, so each
statement is a step, and any may fail (`Fail`), also between a write and its read-back. Whether
a merged row passes validation is a nondeterministic choice, except that a new spot without a price
does not. `told` and `offered` are history variables. Two updates that read the same row overwrite each
other; the code does nothing against that and no property claims otherwise: `MergeIsExact` is about
updates that nothing overtook. The handlers that only read are left out; the fields of a body, the
booking window and the total are in `Service`.

### HttpServer

`backlog` is the kernel's queue of the listener, `hand` the connection the acceptor has in hand, `queue`
the `sync_channel`, `live` and `stop` the fields of `Inner`, and `pc[w]`, `serving[w]`, `keep[w]` where
worker w stands in its loop and in `handle_connection`. `Accept`, `Check` and `Send` are one turn of the
acceptor's loop (errors of accept included), `Leave` its end, which drops the channel's sender and the
listener; a connection that still sits in the backlog then is reset by the kernel. `Lock` and `Recv` take a connection
under the receiver's mutex, which its holder keeps while it waits; `Read`, `Handle` and `Write` are
a turn of `handle_connection`, `Finish` a connection's end for whatever reason, a caught panic among
them, `Exit` a worker's end with `LiveGuard`. On main's side `Signal` is the flag that ends its polling
loop and the first line of `trigger`, `WakeUp` the connection `trigger` makes to its own listener,
`Drained` and `GraceOver` the two ways in which `shutdown` returns, after which main closes the pool. `shutdown`'s loop on
the condition variable is reduced to reading the count, because the count is read and its change is
notified under one mutex. What a request says, what the handler does and how long anything takes is
abstracted: a request either comes, with or without the wish to keep the connection, or the
connection ends. `wait` and `ShutdownHandle` are not used by main. Threads started later (the periodic
sweeps) end with the process and are not waited for.

### StripeWorker

A job is a call: `call[j]` is where its handler stands, or what it was told; `wait[j]` what is left of
its `recv_timeout`, `ttl[j]` what is left until the deadline on the `Job`, `reply[j]` the reply channel.
A name is used again once the job is gone, so calls never end. `Issue`, `Send`, `Receive` and `GiveUp`
are a call seen from the handler (`enqueue`, `send`, `wait`); `Take` and `Check` are `worker_loop` and
the start of `run_job`; `Gate`, `Attempt`, `Backoff` and `Exhausted` are `send_with_retry`, with the
breaker in `fails` and `cooldown`. `effects[j]` is Stripe's side: how often the job was executed. What
an attempt does there, and whether its answer comes back, is open; the idempotency key is `Processed`:
all attempts of a job carry one key and Stripe executes a key once. A refusal (4xx) may even answer
a job that was executed (a conflict with an attempt that is still running), so the caller knows nothing
of a call that "failed". `Tick` is a unit of time, which may pass between any two steps; durations of attempts and
pauses are left open. A worker that panics would be lost, and callers told "stripe worker died"; no code
on its path panics, so those branches of `send` and `wait` have no action. A reply after the caller
has left goes into a channel that nobody reads.

### SignIn

`lockout` and `windows` are the two `HashMap`s, `auth` the stored hashes, reduced to the password they
are of and the scheme that made them: "scrypt" with the present parameters, or an earlier one, bcrypt or
scrypt with others. `KeyOf` is what a scheme uses of a password, and any function of it: bcrypt uses the
first 72 bytes of the password and its NUL, repeated, so a hash opens with every password that shares
them. `signin` checks no length, and the check of `signup` counts UTF-16 units. A worker's request goes
through `EnforceAuthRateLimit`, `BadBody` or `IsLocked`, `VerifyPassword`, and `RecordFailure` or
`Welcome`, with `Rehash` before it if the hash it read is of an earlier scheme; for a sign-up,
`CreateAccount`. `Rehash` stores the password that was typed, over whatever hash the account has by then.
`ReadClock` and the step that takes the mutex are separate, at most `Skew` apart, so times reach a store
out of order. `Survivors` is `evict_oldest_entries`: any choice among equal ranks, which stands for the
heap and the hash map's order. `Cleanup` is the thread's sweep of both stores. `tries` and `admitted` are
history variables: recent wrong guesses of a key and recent requests of an address, forgotten when the
record of them is evicted. The third history, `original`, is the hash an account started with.

So an account with a bcrypt hash can come by another password than its own, and then refuse its own: who
types one that bcrypt cannot tell from it gets it stored as the account's. `PasswordKept` says that this
is the only way, once for an account, and not at all for one that was made with scrypt.

### HranaSession, Startup and RemoteStore

`baton[s]` is the session's `Mutex<Option<String>>`; `sent`, `wire` and `answer` are the HTTP request a
session waits for, on its way out and on its way back. `Send` is the first half of `execute`, `Receive`
and `TimeOut` the second: whatever comes, `NextBaton` decides what is kept before an error is returned.
The server (`Serve...`, `Expire`) is external: it accepts a baton once, gives a new one with each answer,
holds the write lock for one stream at a time, and rolls back a stream it has not heard of for too
long. `Batons` has a name for every baton that a session, an answer, a request or the transaction can
hold at once and one more, so there is always an `Unused` one to hand out. A database is the set of things it holds: table, columns, index, seed rows, account rows.

`Startup` gives each session the program of an instance, one statement at a time: `at` is its place,
`todo` the indices that a loop has not come to. `Advance` is what the code does with an outcome: an attempt at the schema
that fails is repeated from the start (`Retry`), up to `MaxAttempts`, which stands for the deadline of 180
seconds; an index that old rows contradict is only logged; a transaction that fails is rolled back
(`Unwind`). A serving instance runs `create_account`. `Crash` is a kill and restart, with a request
still on the wire. `RemoteStore` is the contract: an operation takes effect whole and once, "done"
means durable, "failed" means nothing at all, and the effect of an operation reported as failed may come
later.

### Connection, Service, Json and Boot

A connection is a sequence of lexemes: request line, header lines, chunk sizes, line ends and pieces of
a body, where a piece of a body may look like any of the others; that is what framing has to withstand.
`Encoded` is what a client sends for a message, `Refusal` what the server must answer to a message with
a given fault. `Orderly` says what makes a message well formed apart from the fault it names (nothing
in its fields contradicts its framing, which fits its pieces), and `Moderate` that it keeps to the limits,
so that there is nothing else to refuse it for. `ReadFirst`, `ReadField`, `EndOfHead`, `ReadSize`, `ReadData`, `DataDone`, `ReadCrlf` and
`ReadTrailer` are `read_request`, `read_body` and `read_chunked`; `armed`, `left`, `wait` and `spent` are the
socket timeout, the time to the deadline, what is left of the current wait, and the time spent on
this request. `Drip` is a byte of a line that arrives alone. The client sends without waiting for
answers, and stalls or hangs up anywhere; shutdown may come at any time. `ConnSpec` is a connection
with any handler, which may answer anything; `ServiceSpec`, which implements it, has the handlers of
`Service` (`Respond`).

`Service` puts `Dispatch` behind it: `require_auth` and `require_csrf` with the verdicts of `jwt_verify`
and of the CSRF store (`Kept`), the parsing and merging of bodies, validation, and what each handler stores. A
handler is one step with all of its outcomes, failures of the database included; the interleavings of
handlers are the subject of the other modules. A signature is the pair of its key and its text, so a verdict is
right exactly if both agree. A new row has an id that no row has (`NewIds`), as a random UUID has. Numbers are counted in halves: there are fractions to truncate, and `Wide`
is the largest integer; `Infinity` is what the parser makes of digits too large for a double, and is
refused wherever the code asks `is_finite`. An e-mail address is a sequence over a small alphabet, on which `ValidEmail`,
`Edged` and `Lowered` do what the scanner and `to_lowercase` do; accounts are kept under the
lower-case address, and a session is a token that `Subject` must accept afterwards. `Json` is the recursive descent parser over lexemes with its depth limit, and the
serializer that writes those lexemes: text is escaped and numbers are printed as single lexemes.
`Boot` decides whether a machine's server starts, and with which secrets, origins, keys and
database: the environment of the process first, then `.env.local` and `.env`, which may be links or
missing, then the JSON files.

## What is checked

| Run | Instance | Shows |
|---|---|---|
| `pool` | 3 threads, 2 connections | `Conservation`, `StrayOnlyIfStuck`, `NoLostWakeup`, the refinement `StoreSpec`, and `CloseReleases` (liveness) |
| `usage` | 3 workers, limits 0, 1, 2, a clock past two window ends | `CountWithinLimit`, `OverrunBounded` |
| `webhook` | 2 workers, 3 events: a snapshot, a fetch and a snapshot without a customer, 1 fault | `NoEventLost`, `EveryEventAcked` (liveness) |
| `webhook_record` | 2 workers, 2 snapshots | violated: `RecordMeansApplied` |
| `csrf` | 1 instance, 2 users, 2 browsers, 2 sign-ins, capacity 1, 1 fault | `StaleNeverAccepted`, `RevokedForGood`, `Recovers` (liveness) |
| `market` | 2 workers, 2 users, 1 spot, 2 prices, 3 writes, 1 booking | `DeleteToldOnce`, `OnlyOwnerOnlyLive`, `MergeIsExact`, `BookedOnOffer`, `NotFoundIsTrue` |
| `server` | 2 workers, 3 clients, a channel of 1, a backlog of 2 | `TypeOK`, `WorkersSurvive`, `ServedBeforeClose`, `ShutdownEnds` (liveness) |
| `stripe` | 2 workers, 2 calls at a time, a queue of 1, 2 retries, threshold, timeout and cooldown 2 | `TypeOK`, the refinement `CallSpec`, `EveryCallAnswered` and `BreakerCloses` (liveness) |
| `signin` | 2 workers, 1 e-mail, 3 addresses, 2 passwords, which bcrypt takes for one, stores for 2 and 1 entries, 4 requests, a clock past every window | `TypeOK`, `GuessesBounded`, `RateBounded`, `PasswordKept`, `LocksOutliveJunk` |
| `remote` | 2 instances, 1 column to add, 2 seed rows, 3 attempts, 1 account each, 1 fault | `TypeOK`, `CleanStart`, `ServesOnSchema`, the refinement `RemoteSpec`, `LockFreed` (liveness) |
| `http` | connections with one message of every framing and fault and a probe behind it, or with a message for each route; a production machine and others | `RequestsIntact`, `AnswersInStep`, `HeldBriefly`, `RowsSound`, `WritesEarned` |
| `http_budget` | the same | violated: `RequestInBudget` |

Why the bounds are enough. Pool: one caller more than there are connections, as in the server (8 workers
and the webhook cleanup against 8 connections): somebody waits while another returns and a third arrives,
which is the situation every race in `checkout` needs; several waiters at once are covered by the proof
of `WakeupsNotLost`. The state space is finite without any bound. Quota: three workers allow two to reset the same old window
while the third consumes in between; `MaxTime` lets two windows run out. Webhook: one fault is a
crash, a failed call, a lost answer or a needless repetition at any point; the second worker supplies
concurrent duplicates without spending it; removing the e-mail spends it, entering one does not; the
third event is refused for ever and keeps a worker busy meanwhile. A notice takes the branch of a fetch
that leads to no user. CSRF: two browsers
are two devices of one user or two users; with `Cap` 1 the second user's sign-in makes the sweep evict;
`Expiry` 0 means that a token is too old one tick later, `MaxTime` 1 is that tick; `MaxSignins`
bounds how often a browser signs in and `MaxFaults` restarts, lost answers, sweeps and failed mints.
Marketplace: the statements of different spots do not touch each other, so one spot and two requests
show every race of two; three writes are a creation, an update and a second update or a deletion in
between, and users and workers serve one request after another. Server: three clients fill both workers
and the channel, or the channel and the backlog, and one more is shed; the backlog holds the wake-up
connection behind or next to a client's, or has no room for it. Stripe: two calls suffice for one to wait, be refused as Busy or be
let through by the breaker while the other is being retried, and as names are used again, workers also
hold jobs whose callers have long left; 2 is the least timeout with a state between fresh and expired,
and the least threshold that counts.
Sign-in: two failures lock, two workers let one more failure slip past the check, and three addresses at
stores of two and one make every new key evict; the account is missing at the start or has a bcrypt
hash, and gets a scrypt one by a sign-up or a rehash (`MCInit`); an account from bcrypt is not followed
past its third request, two that race to rehash it and one that finds what they left (`FewAboutBcrypt`),
as the four guesses that can pass a lock are made at the others; the clock passes the end of a lock and
of both windows, and `Skew` 1 brings times out of order. Remote: two instances meet at every statement of
the schema and of a transaction; one column and two rows let a loop stop in its middle; one fault is a
lost or late answer, an expiry, a busy lock or a crash at any statement, and three attempts are more than
two instances can cost each other. Http: each message differs from a good one in one respect, so that
every guard is passed, and failed for its own reason, and the request behind a malformed message shows
whether the server is out of step; the timeouts differ, so that the one that counts can be told.
Runs in which the system may legitimately stop (the bounded webhook, CSRF, sign-in and startup runs, the
connection, which ends, and the server, whose process ends) do not check for deadlock; the others do.

Symmetry is used for the workers of the quota, for the workers, users and prices of the marketplace, and for
the workers, addresses and passwords of sign-in, whose properties are safety properties only; of `KeyOf`
only matters which passwords it takes for one, and that is both or none.

### Fairness

- `DbPool`: weak fairness of every thread's own next step and of the closing thread: the operating
  system runs runnable threads, statements end by the busy timeout, and closures return. Calling the
  database, closing it and spurious wakeups are not fair. A thread blocked in the condition variable has
  no step of its own, so `CloseReleases` depends on somebody waking it.
- `Webhook`: weak fairness of each worker's step, and strong fairness of the redelivery of each
  unacknowledged event: Stripe retries it, and a delivery that finds all workers busy waits in the
  server's queue, which is first in, first out, so that other events cannot keep a worker from it for
  ever. `EveryEventAcked` excepts a subscription event that names no customer (`Hopeless`), which the code
  never acknowledges, and one whose customer has no e-mail, for as long as that is so (`Waiting`). That an answer gets through in the end follows from the bound on faults.
- `CsrfGate`: weak fairness of serving, of the arrival of answers, and of a signed-in browser trying
  again. The gate itself needs nobody's luck: sweeps, restarts and other browsers are unfair.
- `HttpServer`: weak fairness of the acceptor, of each worker and of main. Reads and writes have
  timeouts and handlers return, so each of a worker's steps ends. Clients are not fair, the signal
  need not come, and the end of the grace period is not assumed: `ShutdownEnds` says that the server
  does not need it. It does assume that the wake-up connection came through or the acceptor has left.
- `StripeWorker`: weak fairness of time and of the callers, none of the workers: an attempt may hang.
  `EveryCallAnswered` and `BreakerCloses` therefore do not depend on Stripe.
- `Startup`: weak fairness of an instance that sends its next statement or receives an answer, of the
  server that serves what has arrived, and of the server dropping a stream nobody can name, which is what
  libSQL's expiry of idle streams provides. Lost answers, crashes and requests of the API are not fair.
  `LockFreed` depends on the last of these: the code has no way to release such a lock itself.

### Where code and documentation differ

- `webhook_record`: `routes.rs:1030` says that the record never claims an event was handled when it
  was not; a missing user or a failed write in `apply_sub_patch` is logged and the event recorded.
- `http_budget`: `http.rs:441` calls the request timeout a wall-clock cap and absolute. For lines it
  is; for a body `read_exact_timed` arms the socket once, and `read_exact` waits the same time again for
  each piece. `HeldBriefly` states the bound that holds.

Further differences that the models show when the stronger property is stated, and that are not runs:

- `db.rs:765` says that "a connection is never returned to the pool with a transaction still open". When
  the ROLLBACK of `TxGuard::drop` fails with the transaction open, which `db.rs:856` only logs, it is.
- `routes.rs:1078` answers 400 to a subscription event whose customer has no e-mail, so Stripe delivers it
  again until its window is over, while a checkout or an invoice of the same customer is acknowledged.
- `kdf.rs:945` says that the differences between bcrypt variants do not matter as "the backend caps
  passwords at 72 characters". `signup` counts UTF-16 units, of which 72 can be 216 bytes, and `signin`
  counts nothing, so passwords that differ after byte 72 open the same bcrypt hash, and the one that is
  typed first is stored by the rehash.
- A window of the quota can grant more than `FREE_USAGE_LIMIT` units (`src/docs/GUIDE.md:1363`), because
  `reset_usage_window` does not look at the window it replaces. By `OverrunBounded` it grants at most one
  quota per worker. Guarding the UPDATE with the `usage_reset_at` that was read would make it exact.
- `routes.rs:1036` holds a second application of an event to be safe because absolute values are
  written; a snapshot's values are as old as its event, so the row can go back for good.
- `routes.rs:199` and `src/docs/GUIDE.md:1038` say that a refusal carries a new CSRF token; a mismatch
  and a missing header are refused without one. Behind a load balancer without affinity, or with two
  devices on one account, or 24 hours after the last mutation, a browser stays locked out of every
  mutation, sign-out included, until it signs in again. `Recovers` states the complement: these are the
  only situations in which retrying does not help.
- `src/docs/UPGRADE.md:12` and `stripe_worker.rs:8` say that expired jobs are dropped instead of still
  calling Stripe. That is so for a job that expires in the queue (`AbandonedExpires`, proved); one that
  expires between two attempts is tried again, for minutes at worst.
- A remote transaction is atomic only while the server does not end its stream in the middle with an
  answer that carries no baton: the session then runs the rest outside a transaction. With `ServerCloses =
  TRUE` TLC finds `RemoteSpec` violated at once.
- A crash in the middle of seeding leaves the demo inventory short for good, since a non-empty table is
  left alone; `CleanStart` is about starts without a fault.
- A sign-up whose session cannot be made (no `JWT_SECRET` outside production, or no random bytes) is
  answered 500 although the account is stored (`Signup`); the next try is told 400.
- A `Cookie` header in which a pair without `=` precedes the token is read as having no token.
- `GUIDE.md` gives `usage.reset_at` in milliseconds while the code stores seconds.
- `booking_window` compares fractional times before truncating them, so a booking may be stored with
  `time_out` equal to `time_in`; it is billed for the shortest time. `RowsSound` allows this and no more.

## What is proved

| Theorem | Module | Inductive invariant |
|---|---|---|
| `TypeCorrect`, `ConnectionsConserved`, `StrayIsStuck` | `DbPoolProofs` | `Inv`: a thread holds a connection exactly from its checkout to its return (`Guards`); an open transaction sits on the connection of a thread inside `Pool::transaction` and holds only that thread's writes, unless its ROLLBACK has failed (`Lock`); an operation not yet answered has had no effect unless it reads back (`Effects`), and each thread is at a step of the operation it runs (`Running`) |
| `WakeupsNotLost` | `DbPoolProofs` | `IInv`: adds the count of threads about to notify or to look again (`Wakeups`) and the progress of `close_all` (`Closing`) |
| `PoolImplementsStore` | `DbPoolProofs` | `Inv`; `result` and `durable` are mapped to themselves, `jammed` to `stuck` and `echoes` to the pending operations that read back |
| `TypeCorrect`, `LimitEnforced` | `UsageQuotaProofs` | `Inv`: adds how old a request, and what it read, can be (`Timely`) |
| `OverrunIsBounded` | `UsageQuotaProofs` | `IInv`: a budget of one quota for every request that may still reset a live window (`Budget`), and why no new one arises during a window (`Young`, `Settled`) |
| `WebhookTypeCorrect`, `NothingLost` | `StripeProofs` | `WebhookInv`: a worker past `process_webhook` serves a handled event (`Done`) |
| `TypeCorrect`, `StaleIsRefused`, `RevocationIsFinal` | `CsrfGateProofs` | `IInv`: a stale request's header is on record nowhere while it runs (`StaleStays`), because every step leaves an entry alone, removes it or replaces it by a newer token (`Moves`) |
| `TypeCorrect`, `DeletionToldOnce`, `OwnersOnly`, `MergeExact`, `BookedTermsWereOffered`, `NotFoundTrue` | `MarketplaceProofs` | `IInv`: a creation hits no row and nobody else knows its id (`Fresh`), every offer made while a request runs is on record for it (`Watched`), and so is what it read (`Noted`) |
| `TypeCorrect`, `NoWorkerLost`, `PoolOutlivesRequests` | `ServerProofs` | `IInv`: the acceptor leaves only after the flag is set, and holds a connection only on its way to the channel (`Intake`, `Phase`); the live count is the number of workers that have not exited (`Count`), idle ones serve nothing (`Idle`), and a pool closed in time has none left (`Settled`) |
| `RequestsAreTimed` | `ServerProofs` | `TimeInv`: what a request has spent and what the read under way may still spend fit the room that its bytes have given it so far, and while lines are read the deadline has not moved (`Budgeted`) |
| `RowsStaySound`, `EveryWriteEarned` | `ServerProofs` | `ServInv`: the lines of a head are lines that came (`Carried`), the server runs with a state it starts with, and what is stored is in order (`Sound`); every outcome of every handler keeps it and has earned its writes (`Good`, one lemma per handler) |
| `RequestsArrive`, `AnswersMatch` | `ServerProofs` | `InStep`: the messages before the one under way are the requests handled (`Told`); how much of that one has been consumed, and what has been kept of it, is in every stage what the stage says (`Place`: its stray line ends, its head line by line, its body plain or piece by piece, or its fault); and only it can have an answer that no request handled accounts for (`Replied`) |
| `ServiceServes`, `ServiceIsTimed`, `ServiceIsIntact`, `ServiceIsInStep` | `ServerProofs` | that of `RowsStaySound`: `Respond` is an `Answer`, so `ServiceSpec` implements `ConnSpec` and inherits what is proved of it |
| `TypeCorrect`, `AbandonedJobsExpire` | `StripeProofs` | `IInv`: a job is in one place (`Unique`, `Occupied`), is not answered before it is over (`InFlight`), and its deadline comes before its caller's timeout (`Waits`); `AttemptsLeft` bounds the retries |
| `WorkerImplementsCall` | `StripeProofs` | the same, with what each answer says of the effect (`Truthful`, `Untouched`, `Unsent`); a call that is under way is "pending" |
| `PasswordsKept` | `SignInProofs` | `IInv`: a worker about to rehash holds a password that the account's first hash, one of an earlier scheme, cannot tell from its own (`Verified`), and nothing else changes the hash of an account that exists (`Owned`) |
| `LockoutBounded`, `LocksOutlive` | `SignInProofs` | the same, with what the lockout store may hold (`Sane`: within its capacity, no failure in the future) and that times read are not in the future either (`Busy`); so an unlocked record ranks below a lock that still counts |
| `TypeCorrect`, `Histories`, `GuessesAreBounded`, `RatesAreBounded` | `SignInProofs` | `HInv` = `IInv`, `GuessInv` and `RateInv`: each wrong guess of a key is counted in its record or about to be brought by a worker (`Tracked`), and at each time an address's admitted requests are covered by its window or have used it up (`Metered`) |
| `TypeCorrect`, `SchemaBeforeService` | `StartupProofs` | `Base`: a program waits for the statement it is at, and a request that is not late is waited for (`Located`, `Asked`, `Travels`); `Schemed`: what the program counts on is in the database (`Present`) |
| `RemoteAtomicity` | `StartupProofs` | `Atomic`: the open transaction has written just what the program whose hands its baton is in, or coming to, has done so far (`Whose`, `Carries`); a request without a baton writes no row of an account |
| `StartsClean` | `StartupProofs` | `Calm`: without a fault an instance has started over at most once for each column that is there and once for the inventory (`Paced`), and one instance puts in the inventory (`Leads`) |

Each proof has the same three parts: the initial states satisfy the invariant, every action preserves
it (one lemma per action), and it implies the property. They hold for any number of threads,
connections, workers, events, users, browsers, instances, spots, columns and faults, and for any
clients, messages, tokens and tables, under the named assumptions `DbPoolAssumption`,
`QuotaAssumption`, `WebhookAssumption`, `CsrfAssumption`, `MarketAssumption`, `ServerAssumption`,
`WorkerAssumption`, `SignInAssumption`, `HranaAssumption`, `StartupAssumption`,
`ConnectionAssumption`, `ScriptsAssumption`, `BootAssumption`, `DbAssumption`, `ClientsAssumption`,
`StringsAssumption` and `LimitsAssumption`. They say little more than that bounds are natural numbers,
sets are finite and things with different names are different; for `Service`, that a wire is a
sequence, that the claims in a token are JSON, that the tables begin in order, and that a token's life
ends before `MAX_SAFE_EXP`.

Some theorems have a hypothesis of their own:

- `RemoteAtomicity` assumes that the server ends no stream in mid-transaction (`~ServerCloses`). With
  `ServerCloses` the property is false, and TLC shows how.
- `StartsClean` assumes `MaxAttempts > Len(Columns) + 1`: each instance that starts at the same time can
  cost another an attempt for each missing column and one for the inventory. `open_remote_with_retry`
  waits 1, 2, 4, 8 and then 15 seconds within its 180, which is 15 attempts if each fails at once, so
  the hypothesis covers a database that lacks up to 13 columns. A new one lacks none, as `CREATE TABLE`
  brings them along. The run has 1 column and 3 attempts, which is the least that satisfies it.
- `RequestsArrive` and `ServiceIsIntact` assume `AllOrderly`: what a request should be is defined for
  messages that are well formed, or wrong in one of the ways that `BodyFault`, `HeadFault` and
  `FirstLine` list. The number of messages, their fields, the pieces of their bodies and what these look
  like, stray line ends and trailers are free, within the limits of the server or beyond them.
- `AnswersMatch` and `ServiceIsInStep` assume `AllModerate` as well, since a message beyond a limit is
  refused with the status of that limit and not with that of its fault. The messages of the run satisfy
  both (`Intentions` in `MCService`).

The invariants are needed because the properties do not carry themselves. That connections are
conserved does not follow from conservation one step earlier: `Return` must know that its thread holds
one. For the quota, the bound on `period` is not preserved by `Reset` unless the budget counts who may
still reset: a request whose read is older than the present window, of which no new one can arise. The
wrong guesses of a key are bounded only together with the failures that workers are still about to
record, and for those that the pruning of a record has dropped only by where the window stood then. A
handler's write is earned because the token it trusted was taken from a header, and a header is a line
that the client sent. That a request arrives as it was meant is decided long before it is handled, by
where the one before it was taken to end, so the invariant follows the place on the wire through every
stage of both: `EndOf` is where the first messages end, `Headed` how long a head is, and in a chunked body
the place and the bytes kept belong to the same chunk (`ChunksAt`). What concatenation does for any number
of messages and of pieces needs an induction; it is one over the set of the numbers for which the
statement holds (`Induction`), since a set can be given to a lemma where a formula cannot.

The theorems `TypeCorrect` and `WebhookTypeCorrect` of `DbPool`, `UsageQuota`, `Webhook`, `CsrfGate` and
`Marketplace` are not repeated as runs: what TLC would evaluate on a small instance is proved for all.

Only model-checked:

- the liveness properties `CloseReleases`, `EveryEventAcked`, `Recovers`, `ShutdownEnds`,
  `EveryCallAnswered`, `BreakerCloses` and `LockFreed`, since liveness under fairness is out of the
  prover's reach;
- what the recursive descent parser makes of a text. The theorems about `Service` hold for whatever
  value it yields, so they do not need to know.

## What is not modelled

- Hashes and ciphers: SHA-2, HMAC, scrypt, bcrypt, base64 and the random source compute on bytes and
  keep no state. The models take them as the functions they are meant to be: a signature is right for
  one key and one text, and a hash opens with the passwords of which its scheme uses the same (`KeyOf`).
- The width of a chunk's size: sizes are natural numbers, and `checked_add` of `read_chunked`, which
  refuses a sum beyond the integers, is the same refusal as beyond the limit. The CRLF after a chunk is
  one lexeme, where the code may wait for either byte, and a Transfer-Encoding with an empty value counts
  as none, where the code refuses it; no property tells these apart.
- The bindings to libcurl and SQLite, and the decoding of rows.
- CORS and security headers, the access log, dates, MIME types and the contents of static files:
  functions of one request that change nothing.
- The frontend, the Vite plugins and the scripts. What the frontend sends is what any client may send.
- Overlapping restarts of the server process with a local database file: the models of restarts are
  `Crash` in `Webhook` and `Startup` and `Restart` in `CsrfGate`.
- The composition of all handlers in one state space. `Service` runs one request after another from
  socket to row, and each of the other modules interleaves the handlers that meet in the same state;
  `DbPool` and `AtomicStore` justify that a transaction, or a statement, is one step in them, as long as
  no ROLLBACK has failed. `insert_spot` and `update_spot` read back in a second statement, and
  `Marketplace` has a step for it.

## What could come next

1. The streaming hash of `crypto.rs` against its definition on the whole text.
2. The JSON parser as a recursive function, so that what it makes of a text can be proved by induction
   over its length, as it is done for the messages of a connection.
