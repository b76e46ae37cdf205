# A TLA+ verification of pykalshi

pykalshi is an asynchronous Python client of the Kalshi exchange: a typed HTTP
API with client-side rate limiting and retries, and a WebSocket client that
keeps subscriptions alive across losses of the connection. Paths below are
relative to the package, `src/pykalshi/`, of the repository.

## 1. Inventory

| Component | State | Operations | Interacts with | Hard behaviour | What makes it correct |
|---|---|---|---|---|---|
| Rate limiter, `rate_limiter.py` | per budget (read, write): rate, capacity, tokens, history of grants; two locks | `acquire`, `try_acquire`, `get_wait_time`, `reconfigure` | called by the request engine; `time.monotonic`, `asyncio.sleep` | sleepers whose wait is stale when they wake, a clock that moves inside a section, reconfiguration under sleepers, cancellation | tokens are conserved; no window grants more than the capacity; waits are sufficient and bounded |
| WebSocket client, `ws_client.py` | socket, `_listening`, `channels`, `_sid_map`, `_pending_init_subs`, message ids, the state lock | `connect`, `close`, `listener_loop`, `add_market(s)`, `remove_market`, `unsubscribe_all`, `request_snapshot`, `resubscribe_channel` | the exchange by messages, the program by calls, a callback task and exceptions | operations between a subscribe and its confirmation, losses at any point, recovery without the lock, sids that start again, sequence gaps | indexes agree; messages are booked on the right channel; no gap is missed or invented; client and exchange agree on the markets once quiet; a loss is recovered from |
| Request engine, `http_client.py` (195-356) | `_rates_configured`, `_rates_configuring`, `_rates_lock`, cost patterns, default cost | `configure_rate_limits`, `_ensure_rates_configured`, `_resolve_cost`, `_execute_request` | the limiter, the exchange by HTTP, the credentials | first requests racing the configuration, a configuration that fails half way, 429 and network retries of requests that may have been executed | one configuration per client, retries bounded, costs and limits from one source |
| API surface, `http_client.py` (358-831) and `api/*.py` | the counters of orders | one function per endpoint, one method per function | the request engine, the response models | literal segments and parameters in one place of a path, empty arguments, a price list in any order, an answer that is lost or unreadable | every request reaches the endpoint it means and is charged its price; answers are not mistaken for each other; the counters are exact |
| Configuration, `config.py` | frozen dataclass | URL resolution | read by both clients | precedence of explicit and default URLs | |
| Credentials, `auth.py` | key id, RSA key | `auth_headers` | called per request and per connect | timestamps that age during retries | |
| Exceptions, `exceptions.py` | none | classes | raised by both clients | | |
| Observability, `_observability.py` | none | no-op or OpenTelemetry meters and tracers | called by both clients | | |
| Data models, `models/*.py` | none | validation of payloads (generated) | parsing of responses and messages | optional and defaulted fields, fields the exchange stops sending | an answer that validates is of the model asked for |
| Protocols, `protocols.py` | none | structural types of the clients | | drift from the clients' signatures | |
| Test support, `testing/*.py` | a list of requests | mock transport and fixtures | replaces the HTTP transport | | |
| Generators, `tools/generate_models.py`, `tools/generate_ws_models.py` | the files of `models/`, one `__init__.py` for both | fetch a specification, sort it, write one file after the other | the published specifications, each other by `__init__.py` | cycles, aliases that need their item at once, a run stopped half-way, a new version between two runs | what both leave behind imports and exports what is generated |
| Other tools, `tools/`, `scripts/` | none | docstrings, coverage report, a request by hand | run by developers | | |

The exchange itself is external: `WsServer` models it from how `ws_client.py`
uses it and from the generated message models.

## 2. Plan

Modules, in the order of their importance. Those marked (done) exist.

1. `TokenBucket` (done), with the abstract specification `SlidingWindow` (done)
   that it implements, and `TokenBucketProofs` (done).
2. `WsServer` (done), the environment, and `WsClient` (done), which extends it.
3. `HttpClient` (done): the request engine over the limiter, reduced to what a
   request can tell of it, and an unreliable exchange; the abstract specification
   `RemoteCall` (done) that it implements; `HttpClientProofs` (done).
4. `Endpoints` and `Responses` (done), the tables of the API functions and of the
   response models, and `Api` (done), which composes them with the price list, the
   routes of the exchange and the counters; `ApiProofs` (done).
5. `TopologicalSort` (done), the sort of the schemas in small steps, over
   `SchemaOrder` (done), what it promises; `Generation` (done): the two generators of
   the models package, which take the steps of the sort; `TopologicalSortProofs` and
   `GenerationProofs` (done).
6. Proofs that no sleep is too long or too short, in `TokenBucketProofs` (done);
   that the indexes of the WebSocket client agree and never lead to the wrong
   channel, and that no gap passes unseen: `WsClientProofs` (done).
7. Proofs that the limiter implements the abstract window, `TokenBucketWindow` and
   `TokenBucketProofs` (done), and that no gap is a false alarm,
   `WsClientGapProofs` (done).
8. Proof that client and exchange agree for a program that obeys the rules:
   `WsClientSyncProofs` (done).
9. Proof that the engine implements the abstract remote call, `HttpClientCalls`
   (done), and that every request reaches its endpoint (`ApiProofs`, done).
10. Still open: settings (`config.py`) and credentials (`auth.py`).

## 3. The modules

### TokenBucket

One action per turn of a critical section. The locks of the source protect
sections without an `await`, so on one event loop they are never contended, and
a section is atomic; what interleaves is the sleep between two turns of
`acquire`. `Acquire` is the call up to the first grant or sleep, `Wake` a later
turn, `Cancel` the cancellation of a sleeper; `TryAcquire`, `GetWaitTime` and
`Reconfigure` are the other methods. The clock is discrete. A section reads it
several times; `MaxLag` lets it advance between the reading that expires
entries and the one that stamps a grant, and `MaxLate` lets the event loop wake
a sleeper late. Window, padding and the floor of a sleep keep the order of
magnitude they have in the source (1.0, 0.1, 0.01 s), in ticks. Costs are
natural numbers, as the API publishes them; rounding of floats is not modelled.

An entry of the history has one field more than in the source: the running
total of what the budget granted, so that the cost of a block of entries is a
difference (no recursive sum stands in the way of the proofs). `TotalsAreSums`
checks that the differences are the sums that the source adds up.

Two variables serve the properties: `issued` remembers every grant, and
`generation` counts the reconfigurations.

### SlidingWindow

What the limiter promises without tokens: a grant is made if and only if the
grants of the last window leave room. `TokenBucketWindow` maps `TokenBucket` to it
(`Implements`): the grants are those `issued` remembers, a caller waits while it
has a task. It models no code of its own.

### WsServer and WsClient

`WsServer` is the exchange and the connection: FIFO in both directions while
the connection lasts; at a loss, commands in flight disappear and a prefix of
the messages in flight may still be read. Sids and sequence numbers start again
with each connection. A second subscribe to a channel is rejected (error 6 of
`models/ws.py`).

`WsClient` is all of `ws_client.py`. A step ends where the source awaits
something that can suspend: a send, a connect, a sleep, the next message, the
lock. `Begin`, `Share` and `Abort` are `add_market`, `add_markets` and
`remove_market`: one channel's share of the call per action, the lock (`op`)
held in between; after a share that sent nothing the task has not suspended, and
`Next` lets only it go on (`OpRuns`, `SweepRuns`, `RecoveryRuns`). A send on a
closed connection raises after the state was changed, and one suspended while
the connection breaks raises when it resumes (`Interrupted`). `Resubscribe` and
`ResubscribeAgain` are the two halves of `resubscribe_channel`. `ConnectionLost`,
`Reconnect`, `ReconnectFails` and `Recover` are the handling of socket errors in
`listener_loop`; the `Handle...` actions are `_handle_incoming_message` by type
of message.

The rules. Whether client and exchange agree (`InSync`) depends on how the
program calls the client. The constant `Rules` names the rules it obeys:
`after_connect` (no call before connect), `not_reconnecting` (none while the
client waits for, or recovers, its connection), `confirmed` (only `add_market`
on a kept channel whose subscribe is not confirmed), `alone` (none during
`unsubscribe_all` or during a channel's resubscription pause) and `gap_loop`
(`resubscribe_channel` as in the loop of the repository's README). With all
rules `ws_sync` holds; each rule is necessary: taken out of `ws_sync.cfg`, TLC
finds a violation of `InSync`. The run `ws_batch` keeps the one that contradicts
a document; without `not_reconnecting`, for instance, an `add_market` during the
recovery sends a second subscribe of a channel that the recovery subscribes too.
So `InSync` says nothing of four hazards that the source has no remedy for: a
`remove_market` before the confirmation (`ws_client.py` 271) and one of a market that
a lost connection left in `pending_markets` (255), which `confirmed` excludes, a change
during the resubscription pause (323), which `alone` and `confirmed` exclude, and the second
subscribe during the recovery (363). `SidMapInverse`, `Routing` and the properties of
gaps hold without the rules, through all of these.

### HttpClient

The request engine: `configure_rate_limits`, `_fetch_and_apply_rate_config`,
`_ensure_rates_configured`, `_resolve_cost` and `_execute_request`. A call is one
use of the client by a task of the program; the task that configures executes
two more requests, for the limits and for the costs, before its own, and
`stage` says which request it is in. A step ends where the source suspends: at
`_rates_lock` ("lock"), in the limiter, while a reply is awaited ("sent"), in
the pause before a retry. A call that has not suspended is "entering", and
`Next` lets nothing else run.

`AwaitLock`, `Configure` and `Acquire` are what an entering call does;
`Granted`, `Receive`, `NetworkError` and `Retry` are the loop of
`_execute_request`. `Raises` and `Returns` say where a request's end leads: out
to the program, on to the next fetch, or to the end of the configuration, whose
`finally` is `Release`. `Cancel` is the cancellation of the task at any
suspension, `Late` the exchange handling an attempt that nobody waits for. Of the
exchange it is assumed that it executes what it answers with success and does
not execute what it refuses with a 429; of an error status either is possible. It is
also assumed not to redirect: a 3xx is no error for the source, and would come back
as an answer.
Only orders have effects worth counting when they come late.

`auto` (`_auto_configure`) is chosen in `Init`. The limiter refuses a cost above
the capacity and grants any other in the end, which is what `TokenBucket` shows
of it; `limits` and `costs` say whether capacities and prices are the defaults
or the published ones. `executed` and `faults` are history variables.

### RemoteCall and HttpClientCalls

What a caller may rely on, whatever the client does about rates: a call is sent
at most `Attempts` times, one attempt at a time; another attempt follows only a
429 or a broken connection; the call ends once, with the answer of the attempt
under way, with its error, cancelled, or refused before it was ever sent; and it
is executed in an attempt under way, or late in one that was given up.
`RemoteCall` has neither lock nor limiter, prices or pauses. `HttpClientCalls` maps
the engine to it (`Implements`): a call that waits, pauses, configures or is about to
configure is "open", only its own request on its way is "away" (`Standing`), and only
attempts at its own request count (`Sendings`). Neither module models code of its own.

### Endpoints, Responses and Api

`Endpoints` has one entry for each of the 90 functions of `api/*.py`: verb, path
and whether `validate_path_param` guards the parameters. A path is the sequence
of its segments behind `/trade-api/v2`, a parameter is `Arg`. `Responses` has the
fields of each response model, required, optional and list-valued, `Validates`
(`model_validate`), and the model that each method of the client uses. Both are
tables: they hold what the source says of each function, and `Api` asks what
follows from all of them together.

`Api` is one call of the program after the other. `Configure` compiles a
published price list; `Refuse` is the `ValueError` of a guarded empty argument;
`Send` resolves the price and sends. The exchange routes a path to the most
literal endpoint that fits and may or may not drop empty segments first (`cleans`,
chosen in `Init`; nothing in the repository says). `Reply` is one of: the
endpoint answers with what its model promises, with less, or without a body
(`Answer`, in which the method counts, validates, returns or raises); it executes
and the client learns only of an error (`Lose`); nothing is executed (`Fail`).
Waiting, retries and the race for the configuration are `HttpClient`'s.
`Outcome` tells an answer with content from an object without any, which is what a
model that requires nothing makes of another endpoint's answer. `executed` and `lost`
are history variables. Arguments that hold a "/" or equal a literal segment are left
out: identifiers of the exchange do neither.

### TopologicalSort and SchemaOrder

The depth-first sort of `generate_models.py`, one turn of a loop at a time. It is a
part of `Generation`, which calls it (`StartSort`) and takes its steps (`SortStep`),
and has no specification of its own. `stack`
holds, for each call of `visit` that has not returned, its name and the dependencies
its loop has still to come to. `VisitSchema` is a turn of the loop over the schemas,
`VisitDependency` a turn of the loop in `visit`, `Return` its last three lines. Any
order of the dictionary and of the sets is possible, and any references.
`SchemaOrder` states the promise: `TopologicalOrders` are the listings in which a
schema stands after all it depends on, unless that depends on the schema in turn
(`Reach`, the least closed set).

### Generation

The two generators, one file per action: `Starts` fetches what is published,
`WriteEnums` writes `enums.py` and calls the sort for the next file, `SortModels` is
a step of the sort, `WriteModels` writes `core.py`, `requests.py` or `responses.py`
in the order of the finished sort and calls it for the file after it,
`FinishModels` writes the `__init__.py`, `WriteWs` writes `ws.py`, and `FinishWs` edits the
`__init__.py`. `Stop` ends a tool between two files or in a sort, `PublishOpenapi` and
`PublishAsyncapi` change what the next fetch brings. A schema is its kind, the names
its properties or items refer to, and whether one of these has no type (`any`); a
file is its definitions in their order and its imports. What an alias names is needed
`AtOnce`, what an annotation names `Later`, and `Any` is imported where an annotation
uses it (`Typing`). An AsyncAPI specification maps the class names to what their
annotations name: the tool resolves a reference to the schema's own name, while the
class has it with a capital, so such a reference may name nothing.
The checked-in files that `Init` starts from are listed in one of the `Listings`
that the source allows.

`Regenerated` assumes what the tools assume of a specification. `WellFormed`:
requests and responses are referred to from their own file only; the item of an array
is generated or becomes `str`, and is `Any` only where an annotation of its file uses
`Any` too. `WellFormedWs`: what an annotation names is a class. A specification that
breaks this is in the run; nothing is claimed for it. Of an alias in a cycle of its
file, which no order can put right, `Loads` claims only that what it names is defined
there (`LeadsBack`); the rest of the package is claimed as without the cycle.

## 4. The runs

| Run | Shows | Bounds |
|---|---|---|
| `bucket_safety` | `Conservation`, `WindowBound`, `WaitSuffices`, `NoOversleep`, `TotalsAreSums`, that the abstract window is implemented (`Implements`), and under fairness that every waiter is served or gives up (`Served`) | two callers with two calls each, a window of three ticks, one reconfiguration that shrinks one budget and grows the other, clock lag 1, wake-ups 1 late, a clock that idles until 2 |
| `bucket_shrinks` | (violation) a waiter for more than the capacity waits for ever | one shrinking reconfiguration |
| `ws_sync` | `InSync`, `PendingAnswerable` under the rules | two channels, two markets, three calls, one loss, one published update, one skipped message |
| `ws_safe` | `SidMapInverse`, `Routing`, `NoSilentGap`, `GapIsReal` without rules | two channels, one market, three calls and close, one loss, one refused reconnect, one update, one skip |
| `ws_recovers` | `Recovers` under fairness | one channel, two markets, three calls, two losses, one refusal |
| `ws_close` | (violation) close during the reconnect pause is undone | one call, one loss |
| `ws_batch` | (violation) `InSync` without the rule `confirmed` | one channel, three calls |
| `http_calls` | `RetriesSpent`, `AnswerIsExecuted`, `DuplicatesAreFaults`, `OneConfigures`, `Affordable`, `Settled`, that the abstract remote call is implemented (`Implements`), and `CallsEnd` under fairness | two calls of any kind, two retries, a fallback write capacity below the default cost, prices that only the published capacities hold |
| `http_fallback` | (violation) when only the second fetch of a configuration fails, published capacities stay with the default cost | one call, no retries |
| `api_calls` | `OneEndpoint`, `Strays`, `OwnCharge`, `CountsMatch` | two calls of any of the 90 methods with named or empty arguments, any list of one or two entries of one verb out of seven that fit each other's paths |
| `api_prices` | (violation) an endpoint that is not listed is charged the price of a listed one | one call, the price list of the tests |
| `generation` | `Regenerated`, `SortIsTopological`, `DepthIsBounded` | 288 specifications of eight schemas, three versions of the AsyncAPI specification, one publication, any number of runs and stops, any order of dictionaries and sets |

Why the bounds are enough: two callers are what a race for a budget needs, and
the third tick of the window separates an entry at its expiry from one before
and one after it. Two channels are what a sid needs to lead to the wrong one;
two markets what a channel needs to be changed while another change is under
way; a second loss adds a loss during the recovery (`ws_recovers`). Two calls
race for the configuration, and two retries mix a 429 with a network error; the
proofs cover any number of both. A second API call tells a counter from a flag,
and a price list only matters by which of two fitting entries comes first. Three
core schemas are what a cycle with something that depends on it needs, and one
publication is what makes the files stem from different versions.
In `ws_recovers` and `ws_safe` the exchange's "ok" carries the markets where the client
looks for them (`OkCarriesTickers`); with two markets and three calls an "ok" may
then bring back a market that was just removed. `ws_sync` follows the message models,
which put them elsewhere.
`MaxUpdates`, `MaxSkips`, `MaxLosses`, `MaxCalls`, `MaxRefusals`,
`MaxReconfigs`, `MaxPublishes` and `IdleUntil` bound only how often the environment or the
program does something.

Fairness. `TokenBucket`: time passes and the event loop runs a sleeper that is
due (`WF` of `Tick` and of each `Wake`). `WsClient`: the event loop runs the
tasks that are ready and the exchange answers what it is sent; nothing is
assumed of losses, updates or calls. `HttpClient`: the event loop runs the tasks
that are ready, a capacity the limiter can grant is granted, and the wait for a
reply ends because httpx has timeouts; which way it ends is open. There is no
strong fairness.

## 5. The proofs

`TokenBucketProofs` proves, for any callers, requests, settings, window and
timing, `Spec => []TypeOK`, `Spec => []Conservation` and `Spec => []WindowBound`.
None of them is inductive. The invariant `IInv` says of each budget:

- `Chain`: the totals of the history are chained (each is the one before plus
  its cost), grow, and end in the total granted so far;
- `Balanced`: tokens and history add up to the capacity, so the `min` of the
  refill never cuts anything off, and tokens stay natural;
- `Log`: the history is the end of the log of all grants, and what the log holds
  of this generation before it has expired;
- `Within`: the bound itself. A new grant keeps it against unexpired grants by
  the balance, against expired ones because its stamp is not earlier than the
  clock that expired them. This is where the order of the two readings of the
  clock matters.

The lemmas about chains (`RecoveredSplit`, `SuffixChain`, `AppendChain`) and logs
(`LogSuffix`, `LogAppend`, `WithinAppend`) carry the argument; the steps
(`RefillStep`, `ConsumeStep`, `ReconfigureStep`, `TimeStep`) lift it to the state.
Assumed are only the constants' types (`RequestsAssumption`,
`SettingsAssumption`, `TimingAssumption`).

Its second part proves of the same specification that sleeps are bounded
(`NoOversleep`) and suffice (`WaitSuffices`). The invariant `WInv` adds to `IInv`:

- `Orderly`: a history is in the order of its stamps, and no stamp is later than
  the clock, so that "the first entries" and "the oldest entries" are the same;
- `Waiters`: a sleeper wakes at most `Longest` ticks from now, and unless its budget
  granted something or was reconfigured since it looked, the oldest entries that
  have expired by then give back what its cost lacks (`Awaited`).

An entry that a refill drops gives its cost to the tokens, so `Awaited` survives
it; a grant or a reconfiguration ends the claim. When the sleeper wakes in time,
the entries it waited for are expired, and its budget has room.

Its third part proves `Spec => Implements`, the refinement, and
`Spec => []TotalsAreSums`. The invariants of the two parts before it do most of
the work. The end of the log is the history (`Log`), and what lies before it has
expired or is of an earlier generation, so the sum over the log that the abstract
limiter computes is the sum over the history (`LoadIsHistory`); the history is in the
order of time (`Orderly`), so what a refill drops is what the window leaves; and
tokens and history add up to the capacity (`Balanced`), so the tokens that are left
are the room. A grant, a refusal, a cancellation, a reconfiguration and a tick each
map to the abstract step of that name; a turn that does two things at once (a waiter
that is granted, a refill before a refusal) maps to one. `Total` is a recursive
function, defined by a choice: that a sequence's running sums are such a function
(`TotalIs`) goes by the least number at which two of them would differ
(`SetInduction`), because no induction theorem can be instantiated.

`HttpClientProofs` proves, for any calls, retries, capacities and prices, each
safety property that `http_calls` checks, the action property `Settled`, and the
refinement `Implements`. Its
invariant `IInv` adds to `TypeOK`:

- `Rated`, about the configuration: whoever fetches holds the lock, and the lock
  is held only by who fetches, before the mark (`Lock`); the costs are fetched
  after the limits, so prices in force imply capacities in force (`Applied`);
  where a call stands says what it can still do (`Placed`); a cost in the
  limiter fits what is in force (`Charged`);
- `Counted`: the attempts made are the retries plus one;
- `Effects`: an own request not yet sent has no effects, and every attempt given
  up or executed, but one, is matched by a network error.

`Settled` follows from `Lock`: only a fetch changes what is in force, and a fetch
excludes the mark. For `Implements`, each step maps to the abstract action of its
purpose or to a stutter (`NextMaps`): the steps of a fetch change nothing that is
seen of the call, except that the end of a configuration is the end of
`configure_rate_limits` (`GoesOnMaps`); `Counted` makes the attempt that is refused
or breaks the last one exactly when the retries are spent (`PausesOrRaisesMaps`);
and `Placed` keeps the requests of a configuration from being counted as the
call's. Assumed are `CallsAssumption`, `KindsAssumption`, `RetriesAssumption` and
`CapacityAssumption`, the types of the constants.

`ApiProofs` proves, for any published price lists and any tables of endpoints and
models, `TypeOK`, `OwnCharge` and `CountsMatch`. The invariant says of the price that it is
that of the first match at the moment of sending (`Priced`), of the list that it
is one of the published (`Listed`), and of the counters that an answer is counted
in the step that executes it, or its loss is (`Tallied`). For `TypeOK` it says besides that the price in force is
one of the list or the default (`Charged`), that a call in flight is one of the
table (`Described`), and what the history variables can have counted (`Bounded`).
That a nonempty set of indexes has a least one rests on the well-founded order of
the naturals.

`RequestsReachTheirEndpoint` proves `OneEndpoint` for every table in which no two
methods have verb and path in common (`Distinct`); the theorem assumes no more of the
places of literals and parameters. An entry that fits a path as well as its own has
a parameter wherever the own entry has one, because no identifier is a literal; so it
has at least as many, and the exchange prefers it only if it has exactly those, and
then it is the same entry. That the table of the source is `Distinct` is what
`api_calls` shows: of two methods with verb and path in common each would serve
the other's requests.

`WsClientProofs` proves of the client over its connection, for any channels,
markets, rules and bounds, `Spec => []TypeOK`, `[]SidMapInverse`, `[]Routing` and
`[]NoSilentGap`. The invariant has two halves. `Indexed` is about ids and sids:

- `Turns`: what a suspended operation, the listener and the recovery can have left
  (while the listener sleeps, no sid is known; without a link, nothing arrives);
- `Old`: every id and sid in use, in the client or on its way, was given out
  before, so a new one is fresh. Sids restart with each connection, ids do not;
- `Known`: while the connection is open, a sid that the client knows is a
  subscription of that connection and of that channel, and no channel has two;
- `Confirmed`: a confirmation on its way brings a sid that the client does not
  know, for a channel that has none, and no two bring the same. This is what a
  `subscribed` reply needs to keep the indexes inverse;
- `Dropped`: what is being unsubscribed is already forgotten, and no confirmation
  on its way would bring it back.

`Streams` is about the numbers. `Sent` bounds what is on its way by what the
exchange has sent and keeps the skipped numbers apart from it; `Stands` says of a
known subscription that no number is skipped between the first message and the one
the client stands at; `Starts`, that the next message of a subscription that the
client has not read from is its first; and the confirmation of a subscription
comes before everything it numbers. Neither half is inductive without the other
facts in it, and `Streams` needs `Indexed`. Assumed are `ClientAssumption` and
`ServerAssumption`; the latter takes the channels to be finitely many, because a
recovery counts the channels it iterates over (`recovery.size`).

`WsClientGapProofs` proves the action property `GapIsReal`. A gap is reported by
comparing a message with where the client stands, and the client goes on reading
after the connection broke and the exchange's subscriptions are gone; `Streams`,
which is about those subscriptions, is then of no use. So this invariant, `GInv`, is
about the replies and the client alone:

- `Numbering`: of one sid, the numbers on their way rise and are above the place
  where the client stands; a message sent before any skip has every number between
  that place, or any message before it, and itself on its way (`Gapless`); and once a
  message tells of a skip, all later ones do;
- `Labelled`: the data of a sid are labelled with the channel that the client books
  it on, now or once a confirmation on its way is read, so none is passed over.

While the connection is open, `IInv` gives the labels and how each new message
continues the numbers. A loss cuts the replies to a prefix, which keeps `Gapless`
because the numbers rise. A message whose number is not the next one then must
tell of a skip (`GapTellsOfSkip`): else the next number would be on its way, behind
a greater one.

`WsClientSyncProofs` proves `Spec => []InSync` and `Spec => []PendingAnswerable`.
Without rules both are false, so the theorems assume of the constants what
`ws_sync` instantiates (`Disciplined`): the program obeys all five rules and does
not call close, and "ok" carries no top-level `market_tickers`, as in the message
models (`OkCarriesTickers`). Channels, markets and all numbers of calls, updates,
skips, losses and refusals are arbitrary. `InSync` speaks of quiet states only; the
invariant, `SInv`, says what holds on the way there:

- `Wanted`: while an id is pending, either its subscribe is still to be served
  (`Asked`) or its confirmation is still to be read (`Told`), with the markets that,
  together with those set aside meanwhile, are the ones the client keeps;
- `Followed`: once a sid is known, a market will be served when all requests on
  their way are (`WillServe`) exactly if the client keeps it. An update of a market
  that a later one undoes is why the order of the requests matters here;
- `Owned`, `Answers`, `Given`: what is served is known, about to be known, or about
  to be ended, so that nothing given up runs on; `Placed`, `Kept`, `Awaited`,
  `Paused`: a kept channel has its sid, or awaits it, or waits for the recovery or the
  end of its resubscription pause; `IdsRise`: requests and replies are in the order of
  their ids;
- `Tasks` and `Phases`, about who is under way when. This is where the rules enter:
  they keep an operation out of the recovery and out of a pause, and a task that
  lost its connection raises before it sends again;
- `Mapped`, that `_pending_init_subs` is a map, so that without ids it is empty.

In a quiet state nothing is on its way, so `Wanted` leaves no id pending and
`Followed` becomes the equality that `InSync` states.

`TopologicalSortProofs` proves that a call of the sort establishes the invariant
`SortInv`, that every step keeps it, and that it implies `SortIsTopological` and
`DepthIsBounded`, for any references among finitely many schemas:

- `Marks`: `visiting` is what the stack holds and `visited` what is listed, nothing
  twice in either and nothing in both;
- `Path`: the name of every call is reached from those beneath it, so that passing
  over a name that is being visited is passing over a cycle;
- `Looped`: what a loop has passed is listed, leads back to its name, or is the call
  above it. For the call on top the last is impossible, and when it returns it may
  be listed;
- `Listed`: the order itself, of what is listed so far.

At the end the stack is empty and every schema entered, so the list is a bijection,
and its length the number of schemas. The names on the stack are an injection into
the schemas, which bounds the depth.

`GenerationProofs` proves `Spec => []SortIsTopological`, `Spec => []DepthIsBounded`
and `Spec => []Regenerated`, for any specifications and any publications. The
invariant says that `SortInv` holds and that what is sorted is the references of the
file that is written next (`Sorting`), what is written of the files while a tool runs
(`Written`: those before its next step are of what it fetched) and what the tools
that ended left (`Left`: the four model files of what is published, an `__init__.py`
with all of their names, and with those of the second tool or without). A
publication ends every claim, a start those it undoes, and a stop none. What remains
is about files alone: each defines its schemas (`DefinedNames`); what a schema refers
to is in its file or imported (`RefersTo`), and so is `Any` (`AnyImported`); and the item
of an alias, unless it leads back to it, is earlier in a topological order
(`ModelsLoad`). Assumed of the specifications are `WellFormed` and `WellFormedWs`, in the
property itself, and that a specification has finitely many schemas or classes
(`SpecsAssumption`, which gives the types of the kind and of `any` besides).

Only model-checked: the liveness properties `Served`, `Recovers` and `CallsEnd`
(fairness and ENABLED are out of the prover's reach); `Strays`, a fact about the 90
table entries and their models rather than about any number of something.
The violations are TLC's as well.

## 6. What is not modelled

Of the limiter: rounding of floats, and the rates, which the source stores and
never reads (with a capacity above the rate, the rate that is kept is the
capacity per window, which is what `WindowBound` states).

Of the request engine: the lengths of the pauses between attempts, the age of the
signed headers, bodies. Of the API surface: query parameters and bodies, from
which every function drops what is `None`; the pages behind a cursor (`get_fills`
and `get_settlements` return one but accept none). Only `create_order` and
`cancel_order` count; the batch and event-order methods do not, in the source as
in the model. Of the data models: request models, item models and enums, lists of
fields that no code of the library reads.

Of the WebSocket client: delays and their doubling, logging, metrics and
undecodable messages; messages of unknown types, which are dropped together with
their numbers; the order in which a Python dict is iterated (any order is
allowed). Removals of `unsubscribe_all` that send nothing follow each other at once,
as they do while nobody else waits for the lock. A send that the loss of the
connection interrupts leaves the state of one that the loss precedes or follows,
before the listener has seen the loss, and is no step of its own (the comments at
`Interrupted`, `Resubscribe` and `RecoverEnds` say which). The program connects once, and a channel is in at most one
resubscription pause at a time. Callbacks run the program's own code. The
exchange's `ok` replies carry the market list where the client looks for it only
if `OkCarriesTickers`; the message models put it elsewhere, and of `InSync` nothing
is claimed with `OkCarriesTickers`.

Of the generators: fields, descriptions, types and the text of the files.
`update_init` run alone keeps names in `__all__` that it no longer imports; only a
run of both tools in their order is claimed to repair that.

Components without a module: configuration (an immutable record with URL
defaults), credentials (an RSA signature), exceptions, observability and protocols
(no behaviour that the library depends on), test support; of the tools,
`sync_docstrings.py`, `generate_coverage_report.py` and
`scripts/fetch_rate_limits.py`, single passes over text or a single request
without a state between two steps.
