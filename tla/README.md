# Verification of waterfurnace-rs

TLA+ models of the Symphony client (`src/client`), its sessions (`src/session`) and the HTTP gateway
(`waterfurnace_http_gateway`), model-checked with TLC and proved with TLAPS.
Line numbers refer to the commit beside this directory; `PROJECT.json` maps every definition to
the lines it stands for.

## The system

waterfurnace-rs talks to WaterFurnace's *Symphony* service: an HTTP login gives a session cookie,
a page gives the URI of a WebSocket, and over the WebSocket go requests numbered 1..255 and
answers carrying the number of their request. An HTTP gateway serves the data to the local network.

| Component | State | Operations | Talks to |
|---|---|---|---|
| **Client** `src/client/mod.rs` | two Waiters (`ready`, `shutdown`), `socket` (sender of an unbounded channel), `transactions` (last number, table of oneshot senders), `login_data` | `connect` (one task: message loop joined with the login), `gateway_read`, `get_locations`, `logout` (any number of tasks) | Session by calls, its own tasks by the channel, the table and the Waiters |
| **Session** `src/session/mod.rs` | typestate Start / Login / Connected / Disconnected; cookie, WebSocket under a mutex | `login`, `connect`, `next`, `send_text`, `close`, `logout` | Symphony over HTTP and WebSocket |
| **protocol** `src/client/protocol.rs` | none | (de)serialisation; `transaction_id`, `error` of an answer | Client |
| **ready_waiter** | a `watch` channel of a Boolean | `set`, `is_ready`, `wait`, with and without timeout | Client, gateway |
| **Gateway loop** `waterfurnace_http_gateway/src/lib.rs` | connect task, ready future, server task, backoff, `ready` flag | select over the three; retry with backoff; shutdown | Client, HTTP server |
| **Gateway routes and handlers** | none | `check_ready`, four GET handlers, `rejection` | Client, cache |
| **Gateway cache** `cached_client.rs` | last good read per gateway, 10 s | `cached_gateway_read` | Client |
| main, tracing, build script | none | argument parsing, exporter set-up | |
| **mock_symphony** (test server) | last number seen, failure and delay distributions | answers logins and reads, sometimes with an error | tests |

What is hard here:

- *Concurrency.* `send()` allocates a number, puts the request on the channel and inserts the table
  entry under three separate locks, with awaits between them. Callers, the login future and the
  message loop interleave at every one of them.
- *Renewal.* Every 25 minutes the loop logs out, empties the table, starts the numbering over, and
  opens a new WebSocket, while callers already past the ready check go on and the channel keeps
  what is on it.
- *Failure.* Every HTTP request, the WebSocket and every answer can fail, and the paths out of
  `connect()` differ in what they clean up.
- *Dropped futures.* A caller's future may be dropped at any await (an HTTP client that hangs up);
  its entry and its request stay.
- *Deadlines.* 30 seconds for every wait of a caller, racing the answer.

What makes each component correct: the **Client** must give each call its own answer or an error,
let no call wait for ever, report ready only for a live logged-in session, and stop when asked; the
**numbering** must find a free number when there is one; the **Session** must not leave logged-in
HTTP sessions behind; the **gateway** must serve exactly while its client is ready, reconnect after
errors, and stop when told; the **cache** must not serve readings older than its lifetime and the
deadline of a read allow; the **handlers** must show each zone its own readings, and every zone that
the login data count.
`PROJECT.json` lists the individual hazards, each at its line, with the properties that cover it.

## Modules

| Module | What it is |
|---|---|
| `Tids` | The ring of transaction ids: successor, distance, "nearest free after the last one" |
| `TidLoop` | The loop of `next_transaction_id`, one iteration a step |
| `Client` | The client: state, one action per step, properties |
| `ClientInvariant` | The inductive invariant `IInv` behind the safety properties |
| `Lifecycle` | Abstract specification: what the owner of a Client sees of `connect()`, ready and `logout()` |
| `Connection` | Abstract specification: the stages of `connect()` that the message loop and the Session share |
| `ClientLifecycle` | The refinement mappings from `Client` to `Lifecycle` and to `Connection` |
| `Session` | The typestate Session as `connect()` drives it, with the HTTP sessions Symphony keeps |
| `Gateway` | The gateway: select loop, server task, requests, composed with `Lifecycle` as its client |
| `Service` | Abstract specification: what the gateway promises its HTTP clients and whoever runs it |
| `GatewayService` | The refinement mapping from `Gateway` to `Service` |
| `Protocol` | Pure operators: the read list, what can be made of a message, zone names, login data |
| `Handlers` | Pure operators: the bodies the HTTP handlers build, the status of their errors |
| `GatewayReads` | HTTP requests, the read cache and the client's renewals under a clock |
| `MCTidLoop`, `MCClient`, `MCSession`, `MCGateway`, `MCGatewayReads` | Instances for TLC |
| `TidLoopProofs`, `ClientTypeProofs`, `ClientTableProofs`, `ClientProofs`, `ClientLifecycleProofs`, `SessionProofs`, `GatewayProofs`, `GatewayReadsProofs` | Proofs for TLAPS |

The modules stack: `TidLoop` justifies the one-step numbering of `Client`, `Client` implements
`Lifecycle`, and `Gateway` runs against `Lifecycle` instead of the whole client, of which it
makes only `Lifecycle`'s own steps. `Service` is what is left of `Gateway` for one who does not see the client.
`Session` details what `Client` only sees succeed or fail: both are mapped to the stages of `Connection`, so
they agree on when `connect()` is connecting, runs, closes and returns, and on what it returns. `GatewayReads` builds on `Protocol` and `Handlers`; it has what
`Gateway` leaves out, the data that go through the handlers and the time they take, and takes for
granted what `Gateway` shows: its requests have passed `check_ready`.

### How `Client` corresponds to the code

A step is the code a task runs from one await (or lock) to the next. `pc[c]` says where each call
is; `phase` says where `connect()` is.

| State | Code |
|---|---|
| `ready`, `shutdown` | the two Waiters; a wait looks at the current value, as `wait_for` does |
| `socket` | `Client::socket`: `None`, a sender whose receiver lives, or one whose receiver is gone |
| `socketLock` | the guard `send()` keeps from the channel send (450) to the insert (453-454) |
| `queue` | the unbounded channel; it belongs to one `connect()` and survives its renewals |
| `wire` | requests Symphony has got on the current WebSocket and not answered |
| `last`, `table` | `TransactionList` |
| `slot` | the oneshot channel of each call of `send()` |
| `loginData` | whether `login_data` is `Some` |

| `phase` | Code of `connect()` |
|---|---|
| `opening` | 132-137: HTTP login, URI, WebSocket, storing the sender |
| `running` | 141-144: `try_join!` of `handle_messages` and `login` |
| `sending` | 197-199: `send_text`; the loop is inside a branch and looks at nothing else |
| `renewLogout`, `renewOpen` | 160-164: `session.logout()`; then login and connect again |
| `closing`, `terminating` | 206-213: logout after a stop request; then 150-153 |
| `panicked` | the task died at 282 |

A read goes `waitReady`, `nextTid`, `socketSend`, `insert`, `await`, then to its result or its
error. The login of session *n* is the call named *n* and goes through the same `send()` from
`nextTid` on; its error is `connect()`'s error. `Cancel` drops a caller's future at any of its awaits.
Symphony answers what is on the wire in any order, with a good answer, one with `err` set, one that
only has a transaction id (`CancelTransaction`), or not at all. A deadline may strike at any moment
of the wait it guards. `SendNext` takes a request off the channel and puts it on the wire, or loses it: a
failed `send_text` is only logged. Until `Sent` the loop is in `send_text`, which has no deadline.

History variables (`lap`, `lapOf`, `asked`) record how often the numbering has started over and which
`connect()` a logout was aimed at; no guard reads them.

### How `Session` corresponds to the code

`at` is the operation of `src/session/mod.rs` that `connect()` awaits: `login` (78-89), `config`
(147-168), `handshake` (132), `running` (between 142 and the end of `handle_messages`), `close`
(212-213), `logout` (114-116). After a logout `leaving` tells the renewal, which logs in again from
`Disconnected` (250-259), from the shutdown. Every `?` on the way is `Fails`: the Session is dropped
as it is, without a logout. `Dies` is the panic of the message loop (`client/mod.rs:282`), which drops it
likewise and is the end of the task: `connect()` has no outcome and is not called again. `mail` holds the login and logout requests that are on their way: the
client can only give them up, Symphony may still act on them. A login succeeds only with Symphony's
answer, so `LoggedIn` requires the session to be live; a logout likewise. The typestate itself (no
operation in the wrong state) is checked by rustc. `Stage` takes every operation on the way to a
running loop, a renewal's logout included, for `connecting`, and `close` and `logout` after a stop for
`closing`; `Client`'s `Stage` does the same with `phase`.

### How `Gateway` corresponds to the code

| State | Code of `waterfurnace_http_gateway/src/lib.rs` |
|---|---|
| `loop` | `select` at 89, `enabling` in the branch of `ready_h` (119-125), `backoff` in the delay (107), `logout` at 131, or how `run` ended |
| `connectH` | the JoinHandle `connect_h`: `spawned` (task not yet polled), `begun`, `failed` (its JoinError was consumed and the branch disabled in this round), `dead` (a finished handle that the next round polls) |
| `readyH` | the fused future `ready_h`: once done it is never ready again |
| `serving` | the AtomicBool that `check_ready` reads |
| `server`, `request` | the server task of 77-84, and each HTTP request up to its status code |
| `conn`, `clientReady`, `stop`, `caller`, ... | the client, by the variables of `Lifecycle` |

Each branch of `select!` is one action, but that of `ready_h`: `ClientReadyAgain` is its poll (118), which
looks at the client's flag, and `EnableRoutes` its store (121). The connect task runs on another thread of
the runtime and may take the client down in between; the routes are then enabled for a client that is
down, until `ConnectReturned` has the loop's next round. The branch of `connect_h` needs no such split: once
`connect()` has returned nothing but `Respawn` changes the client. While `loop` is `enabling`, `backoff` or
`logout` nothing else is polled.
A request passes `check_ready` (`routes.rs:112-123`), waits for the client, and gets the status that
`rejection` (`handlers.rs:136-157`) gives its error. The client's calls are reduced to what `Client`
shows of them: they wait for ready at most their deadline and then end. `HangUp` drops a handler that
waits, because its HTTP client is gone; the server need not wait for it to be drained. `GatewayService`
hides the client: `Request` takes a request for `admitted` from `check_ready` to its status, `Run` takes `run()` for
`on` until it has returned or panicked.

The gateway's manifest is still on tokio 0.2 and warp 0.2 while the client crate is on tokio 1; the
model is of the code as written, on a runtime where both work.

### How `GatewayReads` corresponds to the code

| State | Code |
|---|---|
| `now` | the clock of the runtime and of the cache |
| `ready`, `login`, `renewed` | `Client::ready`, `Client::login_data`, and when the latter was stored |
| `cache` | the `TimedCache` that `#[cached(time = 10, result = true)]` makes (`cached_client.rs:18-26`), by gateway id |
| `stage` | where a request is: `waiting` in `wait_ready_timeout` (`client/mod.rs:359`, `374`); `passed` on its way to the login data; `asking` with its read list, up to the channel (450); `sent`, not yet in the list of transactions (453-454), or `missed` if its answer cannot come any more; then `reading` or `lost` in the wait for it (409) |
| `since` | since when it waits |
| `maxZones` | the zones in the read list it sent (`client/mod.rs:387-400`) |
| `reply` | status, body and age of what it was told |

`CacheHit` and `Ask` are the two ways through `cached_gateway_read`: the cache is locked only to look
and to insert, not in between, so requests for one gateway can all miss, and the answers overwrite
each other in the order they come (`Answered`). An entry counts from its insertion (`at`); Symphony
took the values some time between request and answer (`sampled`). Errors are not cached (`Refused`,
`Failed`, the timeouts). Messages are records of what serde looks at: `ReadResult` (in `Protocol`)
follows `process_message` through the attempt at a `Response`, then at a `ResponseMeta`, to what the
waiting call gets. `Unreadable` leaves the call waiting, until its deadline. `Overtaken` is an answer that
comes between the channel and the list: it belongs to no transaction (`client/mod.rs:288`, `299`), is
dropped, and the call waits in vain. So a 504 does not mean that Symphony was silent; `TimeoutMeansSilence`
is about what comes once the read is listed. `HangUp` drops a handler between the miss and the insertion:
it sets no entry.

A request that is `passed`, `asking`, `sent` or `missed` waits for nothing but a lock (`login_data`,
`transactions`, `socket`), and no lock is held while its holder waits for a message or a timer
(`LockHeldInWindow`). `Tick` takes these places to last no time against seconds; other requests, answers
and the client move on in the meantime.

Metric names are sequences of the parts that the code puts together and takes apart: a zone's
number is written digit by digit, because `ZonePrefix` must not confuse 1 with 10. Bodies are the sets
of their keys. The members of an `activesettings` object have their zone's prefix themselves
(`sample_data/read_response.json`), so `zone_details` pulls them up and strips them like the rest
(`handlers.rs:124-131`); `Settings` has two of them. The value may also be no object: it is then left out.

`SessionEnds` and `LoggedIn` are what `Client` does to `ready` and `login_data`: a request that is still on the
channel survives a renewal, every other one is `missed` or `lost`. A request that is `passed` may find
login data of a session after the one that was ready. `LoggedIn` needs a login answer that can be
read; one that cannot (a key of `tstat_names` that begins with `z` and is no number of 8 bits) ends
`connect()`, and the gateway tries again with the old login data in place.

### Bounds

`MaxTid` stands for 255: the instances use rings of 2 to 5, so that they fill up and wrap within a
few calls. `MaxConnects` and `MaxSessions` bound the calls of `connect()` and the WebSocket sessions
over all of them; two sessions suffice for one renewal, three for a leftover of the first to meet
the third. Every caller makes one call. `Session` makes four logins: a renewal, a failure and another
`connect()` with one to spare for late requests. `Gateway` has two HTTP requests, one before and one
after a change of the ready flag, and three calls of `connect()`, so that a retry can fail again.

`GatewayReads` has two requests, for the two sides of a race in the cache, a `Lifetime` and a `ReadTime` of 2
ticks and a clock that stops at 4: a reading taken at 0 can be cached at 2 and served until 3, one
short of the bound of `BoundedAge`. The instance's gateway has one zone in one login answer and ten in
another, is gone in a third, and a fourth does not parse; names include a zone that is not counted,
one whose name is no string, and a key that is no zone.

The proofs have none of these bounds: they hold for every
value of the constants.

## What the runs check

| Run | Instance | Shows |
|---|---|---|
| `tid_loop` | ring of 5 | From every last number and every set in use, the loop of `next_transaction_id` ends, with the nearest free number or with the error when none is free; the `u8` never overflows |
| `renewals` | 2 reads, 3 sessions, ring of 2 | `IInv`; the socket mutex is held only between send and insert; a waiting call has its entry or is told; answers go astray only across a restart of the numbering; only a call that waits or gave up holds a number; the loop panics only once a call with a number has given up |
| `logouts` | 2 logouts, 1 read, 2 connects | ready stands for a finished login on the live session; `logout()` returns only after the loop it was aimed at; the client implements `Lifecycle` and `Connection` |
| `liveness` | 1 read, 1 lookup, 1 logout, 2 sessions | every call ends; a raised stop request ends `connect()`; `get_locations` never misses the login data |
| `session` | 4 logins | the session `connect()` holds is live at Symphony; only a `connect()` that fails or panics leaves a session behind, late requests included; the session implements `Connection` |
| `gateway` | 2 requests, 3 connects | routes are disabled while the loop waits to retry and until the retried `connect()` runs; routes enabled for a client that is down are disabled again; every error leads to another `connect()`; a client that stays ready is served; a shutdown ends `run()`, with Ok only after `connect()` took the stop, and asks the client to stop only when no request is left inside; the gateway implements `Service` |
| `reads` | 2 requests, 4 login answers, 4 ticks | nothing served is as old as lifetime and deadline together; a late answer that overwrites a newer one sets the readings back by at most the deadline; a zone that is named and counted shows its own room temperature and settings, and nothing else, once entries read with older login data are gone; once a read is listed only silence is answered with 504 |
| `own_reply` | 2 reads, 2 sessions, ring of 5 | **violated**: a read returns the answer to another read |
| `unawaited` | 1 read | **violated**: the warning about an answer nobody waits for panics |
| `too_many` | 3 reads, ring of 2 | **violated**: `TooManyTransactions` with fewer transactions in progress |
| `gateway_join` | 1 request, 2 connects | **violated**: the loop's panic for a failed join is never reached; it waits on with the routes enabled |

The four refuted statements are the repository's own (`tests/client.rs:96`, `src/client/mod.rs:284`
and `:508`, `waterfurnace_http_gateway/src/lib.rs:139`):

- *OwnReply.* Two ways lead there, both through a restart of the numbering (a renewal, or a wrap
  with the entry gone): a request still on the channel is sent after the renewal under a number that
  a newer call has been given, or a late answer to a call that has given up meets a newer call of the
  same number. `MisdeliveryCrossesLaps` says that this is the only way, and is proved. So is
  `OwnReplyInFirstLap`: the statement is true until the numbering first starts over.
- *UnawaitedIsLogged.* `oneshot::Sender::send` hands back the value it could not deliver;
  `commit_transaction` unwraps it for the log line, and it is `Err` if the answer had `err` set. The
  task of `connect()` dies with `ready` still up. `PanicNeedsGivenUp` is what holds: it takes a call that
  timed out or was dropped after it was given a number. Calls that are answered or refused, however they interleave, never kill the loop.
- *TooManyMeansInProgress.* Nothing removes the entry of a call that timed out or was dropped, short
  of an answer, a reset or a later call of the same number. `HeldByWaitingOrGivenUp` says that nothing else
  leaves an entry behind, and `TooManyMeansHeld` that the error is given only when each number is held by a
  call that waits or gave up.
- *JoinFailurePanics.* `select!` disables a branch whose pattern does not match, and takes `else` only
  when all are disabled. A panicked connect task disables `Ok(r) = &mut connect_h`, but
  `_ = &mut ready_h` can never be disabled: the loop waits on and nothing reconnects. If the client had
  been ready, as in the run's trace, the routes stay enabled. Together with
  *UnawaitedIsLogged* one late error answer takes the gateway out for good. `PanicsOnlyAfterCrash` says that where `run()` does panic, the client's task has.

Met while reading, and shown by no run:

- The gateway's tests call `run_incoming_with_client`, which does not exist, and `login_failure`
  expects 504 as the first status, where `check_ready` answers 503 until the client has been ready once.
- A request that no route accepts for its method is answered 500 (`Unrouted`), because `rejection` does not
  know warp's error for it.
- For a zone that does not exist `zones` answers 404 and `zone_details` 200 with an empty object.
- `mock_symphony` computes the end of `Chaos::delay_between_ms` from `range.start_bound()` (`lib.rs:147`), and
  inserts every zone name under the key 1 (`ws.rs:88`), without the `z` that the client looks for: under
  test no zone has a name. Its assertion that numbers increase (`ws.rs:50`) does not hold of two tasks
  that send at once, nor after 255; the client, which matches answers by number, does not need it.
- The `success` of a login answer is never read.

### Fairness

`FairSpec` says that tasks keep running: each call takes its next step, where a deadline is one of
them, and `select!`, which draws among its ready branches, does not pass over a raised stop request
for ever. `CallsEnd` needs no more: calls end even if `connect()` hangs. `ShutdownHonoured` is
stated under `NetworkReturns`, that the network operations of `connect()` and its loop return; HTTP requests
have a deadline (`HTTP_TIMEOUT`) but the WebSocket handshake, `send_text` and the Close frame have none
in the code, so this is an assumption about the network and stands in the property, not in the specification.
Nothing is assumed of Symphony's answers, of the connection, or of new calls.

The gateway's `FairSpec` assumes that a spawned task starts, that the select loop takes a branch that
stays ready and its delay ends, that `logout()` and the handlers get on (both have deadlines in the
client), and that the server ends once drained. Nothing is assumed of the client itself: it may
never get ready, never fail and never take the stop request. `Reconnects` carries the bound on
`connect()` calls in its premise; `ServesAgain` has as its premise a client that stays ready;
`DownClientUnserved` needs only that the loop takes a branch that stays ready.
`Session` is checked for safety only. So is `GatewayReads`, where time takes the place of fairness: it does
not pass the deadline of a wait that has not ended (`Tick`), which is what tokio's `timeout` gives on a
runtime that polls its tasks, nor while a request only waits for a lock.

## What is proved

For every number of reads, lookups, logouts, connects, sessions and identifiers (the assumptions
`ClientAssumption` and `MaxTidAssumption`: bounds are naturals, the kinds of calls are disjoint):

- `TidLoopProofs`: type correctness of the search, and `NearestFree`: the loop picks what `Client` takes
  `next_transaction_id` to pick in one step. The invariant says that everything passed since the first
  candidate is in use.
- `ClientProofs`: `Invariant` (`Spec => []IInv`), and from it the safety properties of the runs:
  `ReadyMeansLoggedIn`, `LookupFindsData`, `LockHeldInWindow`, `AwaitHasSender`,
  `MisdeliveryCrossesLaps`, `LogoutEndsConnect`, `HeldByWaitingOrGivenUp`, `PanicNeedsGivenUp`. Two more have
  no run of their own: `OwnReplyInFirstLap`, from `MisdeliveryCrossesLaps` and the part of `LapInv` that says no
  call is numbered before the first lap; and `TooManyMeansHeld`, a property of the steps.
- `ClientLifecycleProofs`: `Refinement` (`Spec => ImplementsLifecycle`): initial states map to initial
  states, every step maps to a step of `Lifecycle` or to none. `Follows` is the same for `Connection`.
- `SessionProofs`: `NothingLeftBehind`, `HeldSessionIsLive` and `Follows` (`Spec =>
  SessionFollowsConnection`), for any number of logins. The invariant accounts for each request on its
  way: it is the one `connect()` awaits, or its session was abandoned by a failure or a panic; and a session is not
  live while its login is still on its way.
- `GatewayProofs`: `ExitsCleanly`, `DisabledWhileRetrying`, `DrainsFirst`, `PanicsOnlyAfterCrash`,
  `Refinement` (`Spec => ImplementsService`) and `ClientHasLifecycle`, for any requests and
  reconnections. The invariant ties the loop to the client: in a backoff the client is idle; a client
  that is idle is not ready, so `ready_h` cannot complete before the retried `connect()` runs; no stop request is up before the loop is in `logout`; one that was taken
  had a `connect()` that is stopping or has returned Ok; once the loop is past its select for a
  shutdown, the server is done and no request is inside. `Refinement` needs the last, for `Return`; and
  it needs `serving` to be left alone once `run()` has ended. `ClientHasLifecycle` shows that each step
  of the gateway is one of `Lifecycle` for the client in it, or none: the loop asks of it nothing that
  `Lifecycle` lacks. Since `Client` implements `Lifecycle` (proved), the client that `Gateway` runs
  against is one the code provides.
- `GatewayReadsProofs`: `AgeIsBounded`, `OnlySilenceTimesOut`, `SetbackIsBounded` and `NewZones`, for any
  requests, gateways, login answers, lifetime and deadline (`ReadsAssumption`). The bounds come from the times the
  invariant keeps in order: no wait is past its deadline (`ReadTimes`); an entry was asked for, sampled
  and set in this order, and set within a deadline of being asked for (`EntryTimes`). `CountsCurrent`
  says that what was asked for after the login has the zones that the login data count: the half of
  `NewZonesShow` that is about time, kept through renewals, lost requests and overwritten entries. The
  other half is about names, for each of the 255 zones: digits are told apart (`DigitFacts`), so numbers
  are (`DigitsTell`); no digit is the `_` that ends the prefix, so the prefix of one zone begins no name of
  another (`ZonesApart`); what is stripped of its own prefix is what was put behind it (`OwnPrefix`).
  `OwnReadings` puts them together for `zone_details`: the room temperature, with the settings if they
  came as an object. `OnlySilenceTimesOut` is about a read that is listed (see `Overtaken`).

None of the client's properties is inductive by itself. `IInv` adds: a login only runs beside its own
message loop and on the newest session (`SessionInv`); calls stay in the code of their kind (`CallInv`);
an entry belongs to a call of that number which has left `send()` (`TableInv`), and its oneshot is still
empty (`SlotInv`), so that a call which has its answer, or was refused, is not in the table
(`HeldByWaitingOrGivenUp`); what is in a oneshot came from somebody (`ResultInv`); a call has a number
from its allocation on and its request carries it (`NumberInv`, `RequestInv`); two calls numbered in one
lap have different numbers, and no number of the current lap is beyond `last` (`LapInv`); an answer only
passes between calls of one number (`AnswerInv`); the stop request stays up while the loop acts on it
(`ClosingInv`); a waiting logout has its flag up or its loop has ended (`ShutdownInv`). For
`PanicNeedsGivenUp`, the login of a live loop is under way or done, never failed (`SessionInv`): its own
answers do not come too late; and the number of the call is that of its entry (`TableInv`). `MisdeliveryCrossesLaps` follows from `AnswerInv` and `LapInv`: sender and
receiver of an answer have the same number, and in one lap there is one call for it.

The proofs go action by action. `ClientTypeProofs` shows type correctness, `SessionInv` and
`ReadyMeansLoggedIn`; `ClientTableProofs` the lock, table, number and answer parts, from one lemma that sums
up what each action does to the table and the oneshots; `ClientProofs` the rest and the theorems.

Only model-checked: the liveness properties (`SearchEnds`, `CallsEnd`, `ShutdownHonoured`, `Reconnects`,
`DownClientUnserved`, `ServesAgain`, `ShutdownEnds`), which are out of the prover's reach; and the four
refutations.

## What is not modelled

- `connect()` called twice at once on one Client, its future dropped from outside, and a new
  `connect()` after the panic: the library's own users (tests, gateway) do none of them.
- Symphony answering one request twice or answering what it was never asked.
- The values of metrics, and most of their names: `DefaultMetrics` has one name of each sort that the
  prefixes tell apart. A read's answer also lists `tid` and `err` among its metrics (`protocol.rs:130`:
  both flattened fields see every key). Descriptions and locations are left out; so are tracing and
  the request log.
- Sessions that Symphony ends by itself, and WebSockets it still holds open after the Close frame.
- In `Gateway`: the length of the backoff (`max_elapsed_time` is `None`, so `RetryGiveUp` is never
  returned), a panic of the server task (its JoinError disables the branch; `Err(_)` at 134 is never
  produced). In `GatewayReads`: `check_ready`, which is in `Gateway`; an answer
  that belongs to another read, which is in `Client` (`own_reply`); a second Client in the process,
  which would share the cache.
- Command line, exporter set-up, build script: straight-line I/O. The routes and delays of the mock.

## Plan

1. *(done)* `Tids`, `TidLoop`, `Client`, `Lifecycle`; `Session`; `Gateway` on top of `Lifecycle`; the hanging
   `send_text` in `Client`; `Protocol`, `Handlers` and `GatewayReads`; their runs and proofs.
2. *(done)* `Connection`, which `Client` and `Session` both implement; `Service`, which `Gateway` implements.
3. `Waiter`: the watch channel with its versions, shown to implement the Boolean that the other modules
   use.
4. Of `GatewayReads`: that its `ready` and `login` make only steps that `Client` makes.
