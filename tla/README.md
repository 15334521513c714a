# Formal models of mev-share-rs

TLA+ specifications of this repository, the TLC
configurations that check them on small instances, and theorems about them that
TLAPS proves for every instance. Source paths are relative to `src/`.

## 1. The system

| component | state it keeps | operations | interacts with |
|---|---|---|---|
| **bundle simulation queue**, `crates/mev-share-backend/src/service.rs` | two priority queues, the running simulations (`FuturesUnordered`), the list of listeners, the current block number, the wakers registered by the last poll | handle: `send_bundle_simulation*`, `add_bundle_simulation*`, `update_block_number`, `clear_queue`, `events`, `queued_jobs`; service: `poll` (drain messages, process outcomes, pop requests, start simulations) | handles over an unbounded mpsc channel and a shared `Arc`; callers over a oneshot each; listeners over an unbounded mpsc each; the simulator through futures |
| **RpcSimulator**, `crates/mev-share-backend/src/rpc.rs`, `lib.rs` | none | `simulate_bundle`: calls `mev_simBundle`, sorts the answer into Success, Reschedule (nonce too low) and Fatal | the queue; the relay |
| **event streams**, `service.rs` 518-561 | the receiving half of a listener's channel | `SimulationEventStream` yields every event, `results()` only the simulated bundles | the queue |
| **SSE client**, `crates/mev-share-sse/src/client.rs` | `EventStream`: state Active / Retry / End, attempts made, endpoint | `subscribe*`, `poll_next`, `retry`, `retry_with`, `reset_retries` | an SSE server over HTTP |
| **SSE server**, `crates/mev-share-sse/src/server.rs` | broadcast ring, one forwarding task and one response body per client | `send`, `subscribe`, `SseBroadcastService::call`, `SseBroadcastProxyService::call` | SSE clients; the inner HTTP service |
| **request signing**, `crates/mev-share-rpc-api/src/auth.rs` | the inner service that is ready | `poll_ready`, `call` | the HTTP client below it |
| **RPC types**, `crates/mev-share-rpc-api/src/types.rs` | none | serde of every request and answer, hand-written for hints, bundle statistics and numeric strings | the relay's JSON |
| **RPC traits**, `mev.rs`, `eth.rs`, `flashbots.rs` | none | client and server traits expanded by jsonrpsee, client wrappers | callers; a relay or a server that implements the trait |
| facade crate, examples | none | re-exports, demonstrations | |

What is hard: the queue is a hand-written future, so it is correct only if every
way out of `poll()` leaves a waker behind for every kind of work; requests travel
between a channel, two queues, a popped list and a set of futures, and go back on
a retry; messages arrive between any two steps; callers and listeners leave at any
time; the service can be dropped with answers outstanding. The SSE client is a
hand-written stream state machine whose retry runs on a clone of its state. The
SSE server forwards through three buffers, and each may fill up or lose its
reader. A client that reconnects has, for a while, an old connection and a new one
that carry the same messages, without ids to tell them apart. The JSON of the RPC
types is also written by relays and searchers that do not use this crate, and what
is left out of it has to mean the same on both sides.

What makes each component correct:

* queue: no lost wake-up; a request is in one place and gets one verdict; the
  number of simulator calls is bounded by `max_retries + 1` and reported exactly;
  slots and queues keep their bounds; answers are truthful and arrive; an accepted
  bundle is not lost, and leaves for no reason but its own; what is simulated is in its
  inclusion window; high priority first; a bundle settles unless it waits for its block or
  bundles of a higher priority keep coming.
* SSE client: the retries are bounded by `max_retries`, the stream is not polled
  into a panic by a consumer that keeps the contract of `Stream`, the endpoint
  reported is the one connected.
* SSE server: a client sees the messages in order, without duplicates, from its
  subscription on; a lagging client loses only the oldest; a task ends when its
  broadcaster has gone (not when its client has: until then the tasks of clients
  that left pile up, and their receivers make `send` succeed with nobody listening).
* client and server together: over any number of connections the owner of a stream
  sees no message twice and none out of order.
* signing: a request reaches the inner service signed exactly when it is JSON and
  unsigned, and the service that is called has been polled ready.
* types and traits: each side reads what the other meant, whatever it left out, and
  fails with an error, not a panic.

## 2. Modules

| module | what it is |
|---|---|
| `BundleSimulatorService` | the queue, its handles, its task and its listeners, with its properties |
| `SimulationLifecycle` | abstract specification: what the queue promises about each bundle |
| `BundleSimulatorRefinement` | the mapping from the first to the second |
| `BundleSimulatorArrivals` | the queue under an endless stream of bundles: fairness and liveness |
| `BundleSimulatorDocs` | claims of the doc comments that the queue does not keep |
| `MCBundleSimulatorService` | the instances for TLC |
| `BundleSimulatorProofs` | theorems about the queue: types, slots, wake-ups, windows and priorities |
| `BundleSimulatorPlaceProofs`, `BundleSimulatorVerdictProofs` | theorems about each bundle: where it is and what becomes of it, the refinement among them |
| `EventStream` | the SSE client |
| `StreamContract` | abstract specification: what the owner of a stream may rely on |
| `EventStreamRefinement`, `EventStreamDocs` | the mapping; claims of the comments that the client does not keep |
| `EventStreamProofs` | theorems about the client |
| `SseBroadcast` | the SSE server |
| `LossyBroadcast` | abstract specification: ordered delivery that loses only the oldest |
| `SseBroadcastRefinement`, `MCSseBroadcast` | the mapping; the instance for TLC |
| `SseBroadcastProofs` | theorems about the server, the refinement among them |
| `SseSession`, `MCSseSession` | the SSE client connected to the SSE server: both modules composed over a network that breaks; the instance for TLC |
| `SseSessionProofs` | theorems about the session |
| `FlashbotsSigner`, `FlashbotsSignerProofs` | the signing middleware; theorems about it |
| `RpcTypes` | the RPC types and what serde does with them |
| `RpcApi` | the RPC methods: a call from the client trait to the server trait and back |
| `RpcApiDocs`, `MCRpcApi` | a claim of the comments that `eth.rs` does not keep; the instance for TLC |
| `RpcApiProofs` | theorems about the codecs and the calls |

Definitions named `X_Y` are mutants of `X`; no specification uses them. They show
that a property notices the bug `Y`.

### BundleSimulatorService

One `poll()` of the service is split at the points where other threads can be
seen: `phase` is where the task is.

| code | model |
|---|---|
| `while let Ready(Some(msg)) = from_handle.poll_recv(cx)` | `OnUpdateBlockNumber`, `OnClearQueue`, `OnAddEventListener`, `OnAddSimulation`, then `MessagesDrained` which registers `rx_waker` |
| `while let Ready(Some(..)) = simulations.poll_next_unpin(cx)` | `SimulationPending`, `OnSimulationOutcome`, then `OutcomesDrained` with `sim_waker` |
| `pop_best_requests` / `pop_next_ready` | `PopNextReady` per request taken or found outdated, then `PopBestRequestsDone` |
| the `for req in ready` loop | `StartSimulation` per request |
| `break` and `Poll::Pending` | `phase = "parked"` |
| the runtime polling a scheduled task | `BeginPoll` |
| tokio's coop budget, the yield of `FuturesUnordered` | `CoopYield`: Pending early, with the task scheduled again |
| a waker called by the channel or by a future | `notified`, set by `Send` and `SimulationWakes` when the waker is registered, which uses it up |
| dropping the service's future | `DropService`, between two polls |
| the handle's methods | `send_bundle_simulation`, `add_bundle_simulation`, `update_block_number`, `clear_queue`, `events`; callers that give up (`CancelAdd`) and listeners that go away (`DropEventStream`) |

A bundle is an identity with a priority and an inclusion window; its payload and
its overrides are not looked at by this code. A simulation future is a record with
the state of its poll: `unpolled` after `push`, `pending` with its waker
registered, `woken`; a woken future may be pending again. The answer of the relay is one
of three classes. The counters of the two environment actions (`MaxBlockUpdates`,
`MaxClears`) bound the behaviours; each identity in `Requests` is submitted at most once
and each in `Listeners` subscribes at most once. `reply`, `heard_by`, `simulator_calls`,
`relay_answers` and `mailbox` record what callers, the relay and listeners have seen.

`SimulationLifecycle` is what the queue promises about a bundle. Its steps have reasons: a
bundle is rejected only if there is no room for it (`no_room`), outdated only past its
window, cleared only if somebody has asked for it, simulated again only when the relay
asked for it, and finished only by an answer that is final or by its last attempt.
`no_room`, `outdated` and `clearing` are observed variables: the abstract specification
looks at them and says nothing of how they change, and `BundleSimulatorRefinement` defines
them from the queues, the windows and the channel. A retry that was lost, a bundle that
dropped out of a queue, or a clear that stopped a running simulation would be a step that
none of these allows.

`BundleSimulatorArrivals` is for liveness. Submitting each identity once would let every
bundle settle, because the others run out. There the identities in `Load` are given to a new
bundle when the old one is gone (`Renew`), for ever, and the properties are about the others.

### EventStream

The owner of the stream awaits one thing at a time (`busy`): `poll_next` or the
future of `retry()`. Each turn of the loop in `poll_next` is a step, so the timer,
the network and the server act between two turns.

| code | model |
|---|---|
| `State::{Active, Retry, End}`, `Option::take` on it | `state`; `"None"` is a state that was taken and not put back |
| `EventStreamInner { num_retries, endpoint }` | `num_retries`, `endpoint` |
| the `async move` block of `State::Retry` | `future`: its clone of the inner state, and its `stage` (sleeping, elapsed, connecting, connected, refused) |
| the arms of `match` in the loop | `TurnTaken`, `TurnEnd`, `TurnRetry...`, `TurnActive...`, together `PollStep` |
| the decoder of the connection | `inbox`; `Item` says what it may produce, `ServerSends` produces it |
| `retry`, `retry_with`, `reset_retries` | the actions of those names, then `RetryConnects` or `RetryFails` |
| `tokio::time::sleep`, the connection attempt | `Elapse`, `Respond` |

A connection is the endpoint it goes to, and a retry starts it with an empty inbox.
The owner may poll after `None`, which is the only way to the panic; the first such poll
after the end of the body is told `None` again (`client.rs:226`), which `StreamContract`
allows. `finished`,
`yielded`, `panicked`, `manual_attempts` and `auto_attempts` record what the owner
and the servers have seen. `MaxItems` and `MaxCalls` bound the behaviours.

### SseBroadcast

Messages are numbered as they enter the ring, so the ring is the last `capacity`
numbers up to `sent`, and a receiver is the next number it wants. (`capacity` is
the size of the ring that tokio allocates, which rounds the requested one up to a
power of two.)

| code | model |
|---|---|
| `SseBroadcaster::send` | `send`: `Json`, `ChannelClosed` (no receiver at the moment) or `ok` |
| `SseBroadcastProxyService::call` | `call`, which compares the whole uri (`Intercepts`) and either subscribes or hands the request to the inner service |
| the future of the call | `Respond` (the task is spawned), `RespondError` |
| `SseBroadcastStream::poll_next` | `Lagged`, `Receive`, `TaskEnds` |
| `sender.send(..).await` in the task, its error ignored | `Forward` |
| the body over the channel of `async_sse` (one message) | `pipe`, `BodyYields`, `BodyEnds` |
| hyper dropping the call or the body | `Disconnect` |
| the last broadcaster dropped | `DropBroadcaster` |

### SseSession

The module extends `SseBroadcast` and instantiates `EventStream` as `Client`, for the
endpoint that the server's path is, and every step is a step of one of them or of both.
`vars` and `Next` are the server's, `allVars` and `SessionNext` the session's. A connection of the server is the
body the client reads: `Transmit` is `BodyYields` of the server and `ServerSends` of
the client at once, `TransmitEnd` is its end. `OwnerRetries` makes an `attempt` on a
connection not used before, `RequestArrives` is the server's `call`, and
`RetryConnects` needs the response. In between the old connection, `current`, goes on.
`Breaks` lets the client see an error, and then the end, on a connection that the
server may still write to; `ServerSeesGone` is when it notices. `unread` numbers the
messages in the inbox and `seen` those the owner was given.

The session begins when `subscribe` has returned, as in `examples/sse-server.rs`.
Only `retry()` is used, because the server never sends a `retry:` field. Left out are
a `send` that fails, which the client cannot see, and a request that arrives after
its sender has given it up. `DropBroadcaster` is possible while connections are served;
there the model allows more than the example, in which the service of each connection
holds a handler with a broadcaster of its own.

### RpcTypes and RpcApi

A struct is a record from its JSON names to the type and the mode of each field; the
mode is its serde attributes:

| attributes | mode | written | read when absent |
|---|---|---|---|
| none | `Required` | always | error |
| `Option`, `skip_serializing_if = "Option::is_none"` | `Optional` | if there is a value | none, also when `null` |
| `default = ..` | `Defaulted` | always | empty |
| `default, skip_serializing_if = ..` | `Omitted` | unless empty | empty |

`Encode` and `Decode` are what serde derives from it, as sets of results that are
empty on an error. The code written by hand (`PrivacyHint`, `BundleStats`,
`u256_numeric_string`, `is_empty`) has operators of its own, and so have the untagged
`BundleItem` and the panic of `BundleStats` (`StatsPanic`). Leaves that other crates
encode are a hex string, a number, a string, a Boolean or a block tag.

Structs contain structs, and the codec follows them in layers instead of by recursion:
`EncodeLayer` and `DecodeLayer` take the codec of the parts as an operator, `Encode0` to
`Encode3` and `Encode` (and `Decode` likewise) stack five of them on `NoCodec`. Five is
what the deepest type needs, `PrivateTransactionRequest`: preferences, validity, refunds
and their leaves. Only `SimBundleLogs` nests without a limit, so its values are three
deep here. `IsValue` says in the same layers what the values of a Rust type are. A string
that is not a number may look like a hex one but not like a decimal one, because `Rewrite`
takes every decimal string for a number.

In `RpcApi` a call goes from `Call` (the client trait encodes the arguments;
`FlashbotsApiClient` puts them in a struct first, `ParamsOf`) over `ServerReceives`,
`Serve` and `Answer` to `ClientReceives`. `Passed` gives the arguments and results, any
set of values of the types. `Rewrite` makes the sender another
implementation, which writes one entry of the object in another way: it leaves it out,
makes it null, writes a number in another form, or adds an entry nobody knows.

### FlashbotsSigner

The inner service has `Slots` slots; `poll_ready` of an instance reserves one, and
a clone has no reservation. This is what tower demands of a caller, seen through an
inner service for which it matters. `poll_ready` and `call` are the methods;
`stage[c]` is where the future of call `c` is (rejected, passing through,
collecting the body, signing, called, done), and `Fail`, `InnerAnswers` and
`DropCall` are its ends. The signature is abstracted to whose it is, so that signatures
of two calls could be mixed up is not covered; `call` moves its own into its future.

## 3. Runs

`tlc -config <cfg> <module>`; PROJECT.json names both for each run. Deadlock is not
checked, except in `rpc_api`, where a call always comes to an end: when the bounded
environment has nothing left to do, the other systems rightly wait.

| run | instance | shows |
|---|---|---|
| `service_verdicts` | 2 bundles for block 2 only, 1 listener, block 2 reported once, 1 retry, 1 slot | `TypeOK`, `OneVerdict`, `RetryAccounting`, `AnswersTruthful`, `NoSilentLoss`, `ResultsExplained` |
| `service_contention` | 4 bundles, some not eligible yet, 2 slots, queues of length 1; no caller waits | `ConcurrencyBound`, `NoPriorityInversion`, `OverflowBound` |
| `service_lifecycle` | 2 bundles, one block update (also a repeated block), one `clear_queue`, no listener | `NoLostWakeup`, `WindowRespected`, and `LifecycleImplemented`: every step is a step of `SimulationLifecycle` or leaves it unchanged |
| `service_liveness` | 1 bundle, which may have to wait for a block, among 2 others at a time and no end of them, which can be simulated at once; 1 slot | `CallerAnswered`, `RequestSettles` |
| `event_stream` | 2 endpoints, 1 retry, 4 items, 4 calls of the owner | `TypeOK`, `NoPanic`, `ManualRetriesBounded`, `ContractImplemented`, `RetryResolves` |
| `sse_broadcast` | 2 clients of which one reads, ring of 2, 4 messages | `TypeOK`, `InOrder`, `OnlyOverwrittenLost`, `BroadcastImplemented`, `ReaderServed`, `TasksEnd` |
| `flashbots_signer` | 3 calls with every request, 2 slots | `TypeOK`, `CalledWhenReady`, `SlotsAccounted`, `ProperlySigned`, `BecomesReady` |
| `sse_session` | a subscription and one `retry()`, ring of 1, 2 messages | `OwnerInOrder`, `OwnerMissesOnlyOverwritten`, `OwnerServed`, `EndReachesOwner` |
| `rpc_api` | all 10 methods; of each type a sparse value and a full one, each varied in one field, three levels deep | `RequestUnderstood`, `AnswerUnderstood`, `PanicsAreKnown` |

Why these bounds are enough to be interesting.

* Queue: with one slot and queues of length one, two bundles already meet a full
  queue, a retry into an occupied queue, a retry that is the last one, and an
  outdated bundle behind or in front of another. Three bundles are needed for two to be
  popped in one round. Four are needed for `OverflowBound` to be at stake: a queue of one
  and two slots make a bound of three, which a fourth bundle of the same priority could
  exceed, and does if the admission test overlooks rescheduled bundles. The callers of
  these do not wait for their answers (`SentSpec`), which makes no difference to queues and
  slots and leaves TLC room for the fourth. One retry separates "the first failure" from
  "one failure too many".
* Queue, liveness: two others are needed for one to be in a queue whenever the other is
  simulated. With two and without the exception `Outranked` in `RequestSettles`, TLC finds
  a normal bundle that waits for ever behind high priority ones. Block updates are
  left out; a bundle that waits for its block then waits for good, and is excepted.
* `NoSilentLoss` is checked with one listener; the theorem is about any number.
* Client: one retry allowed makes the second one fail; four items are enough for
  two retries the server asks for with something in between, or for events, a bad
  one and the end; four calls are enough for a manual retry, one too many, a reset
  and a new one, during a retry that the server asked for.
* Server: with a ring of two, three messages make a receiver lag, and the fourth
  makes it lag again or arrives after it; one message each fits in the task and in
  the channel, so a stalled client falls behind with the fourth. Two clients are
  needed for one to be served next to the other.
* Signer: three calls over two slots compete for the second slot, with one of them
  waiting until another has finished, failed, been rejected or been dropped.
* Session: with a ring of one the second message overwrites the first, so the receiver
  lags; two connections overlap while a `retry()` is under way, and either may carry
  either message, or both carry the same one. `MaxItems` is what two connections can
  carry at most (two messages, an error and the end each), so it never binds.
* RPC: every field is met empty and filled in sparse and in full surroundings, each
  entry of an object at the top is rewritten in every way, and numbers are at 0, at
  the limit of a `u128` and above it (`u128_MAX` is scaled down to 1). `mev_simBundle`
  has two params, of which the first is rewritten.

Fairness.

* Queue: tokio polls a task that is scheduled and runs it on (`WF(PollStep)`), and its
  cooperative budget ends a poll that would receive messages for ever (`WF(CoopYield)`).
  A simulation ends: its future is woken (`WF(Wakes(r))`) and, however often it is woken
  in vain, has its answer at some time (`SF(Concludes(r))`). This is an assumption about
  the simulator: the service has no timeout of its own, and a relay that never answers an
  HTTP client without one holds a slot for ever. Nothing is assumed of callers, who may
  submit without end, of listeners, or of the drop of the service.
* Client: a consumer polls until it is told `None`, a poll runs to its return, the timer
  elapses. Nothing is assumed of servers: the client sends its requests without a timeout
  (`client.rs:358`, and the default `reqwest::Client` has none), so a connection attempt,
  the stream's own or that of `retry()`, may hang. `RetryResolves` therefore promises that
  a retry gets as far as waiting for an answer, and goes on once there is one; the abstract
  stream ends a `closing` stream only when no `retry()` is under way. Nobody has to call
  `retry`.
* Server: tokio runs the tasks and the calls; the body is read for the clients in
  `Readers` only. Nobody has to send, disconnect or drop the broadcaster.
* Signer: a call that is polled goes on, the inner service answers, and whoever
  waits in `poll_ready` is woken when a slot is free.

* Session: the owner polls until it is told `None`, tokio runs the server's tasks and
  calls, the network moves what is in a body and brings the response that a server has
  made. The request of an attempt may never arrive, and then the attempt hangs
  (`AttemptHangs`). Nobody has to send, to retry or to drop the broadcaster, and no
  connection breaks by assumption; one that breaks is seen to end.
* RPC: none; the properties are about states.

Disagreements between code and documentation, one run each (`BundleSimulatorDocs`,
`EventStreamDocs`, `RpcApiDocs`):

| run | what the code does |
|---|---|
| `doc_block_event` | `BlockNumberUpdated` carries the old block number twice |
| `doc_retry_limit` | a server can make the client connect again more often than `max_retries`, because the attempt is counted on a clone |
| `doc_call_bundle` | `eth_callBundle` takes and sends the type of its response; the bundle type made for it, `EthCallBundle`, is used by no method |

The models also contain these, which have no run of their own: `queued_jobs` is
always 0, nothing updates it (`service.rs:29`, `service.rs:38`); a bundle is not
simulated for its `inclusion.block`, which `types.rs:36` calls the first block it is
valid for, because `is_min_block` compares strictly (`service.rs:646`); after a failed
`retry_with`, `endpoint()` names an endpoint the stream is not connected to
(`client.rs:189`); `BundleStats::Seen` with `is_simulated` and `Simulated` without it
can be built and are read back as something else, which `AnswerUnderstood` excludes
with `StatsAgree`; a bundle item that has both `hash` and `tx` is read as the hash
(`types.rs:64`);
`send_bundle_simulation*` returns `Ok(())` for a bundle that is then rejected
because the queue is full (`service.rs:76` says that it returns an error);
`ClearQueue` spares the running simulations (`service.rs:478`); a retry makes a
full queue longer than its maximum (`service.rs:418`; `OverflowBound` says by how
much); a pending retry keeps the count it was made with when the retries are reset
(`client.rs:194`); the path of the SSE layer is compared with the whole uri, so a
query defeats it (`server.rs:272`); `ChannelClosed` only means that nobody listens
at the moment (`server.rs:75`); and JSON whose content type names a charset is not
signed (`auth.rs:80`).

## 4. Proofs

`tlapm <module>Proofs.tla`. Neither the sets of bundles, listeners, endpoints,
clients and calls nor the bounds are restricted. What is assumed of the constants
is named: `ConfigAssumption` and `InputAssumption` (limits, windows and block
numbers are natural numbers), `ClientAssumption` (the limit of retries is a natural
number or none), `ServerAssumption` (the ring has a slot), `SessionAssumption` (the
client asks for a uri that clients ask for), `SignerAssumption` (the inner service has
a slot), `WidthAssumption` (the width of a `u128` is a natural number) and
`PassedAssumption` (what is passed to a method has the types of its trait). The checks of each instance evaluate them.

`BundleSimulatorProofs`:

* `TypeCorrect`: `TypeOK` is inductive; one lemma per group of actions.
* `ConcurrencyBounded`: `SlotsInv` adds to the bound that the set of simulations is
  finite. `NextSlots` reduces a step to six things it can do to the slots.
* `NoWakeupLost`: that the task sleeps with nothing to do is not inductive, because
  it does not say who will wake it. `WakeupInv` adds: an unread message means that
  the task is scheduled or is still to read (`MessagesSeen`); an empty channel has
  a waker (`ChannelWakes`); the same two for the simulations (`FuturesSeen`,
  `FuturesWake`); and a sleeping task has nothing to start (`SleepsForAReason`).

* `WindowAlwaysRespected`, like the next from `RoundInv`: requests are popped and started within one round of
  `poll`, in which no message is received, so the block number they were compared
  with cannot go stale (`ReadyOnlyInRound`).
* `HighPriorityFirst`: the queues hold requests of their own priority
  (`QueuesSorted`), hence a normal request that is the first selectable one leaves
  no selectable request in the high priority queue (`PoppedRequest`), and nothing is
  added to that queue during the round.

`BundleSimulatorPlaceProofs` counts how often a request occurs in the channel, in the
queues, among the popped ones and among the simulations, and how many verdicts a
listener has heard about it. Every step moves one request from one of these places to
another, or takes it out (`PlacesStep`):

* `VerdictsAreFinal`: by `PlaceInv`, the places and the verdicts of a request are at
  most one together, and a request that was not submitted has neither. The counting
  lemmas (`CountAppend`, `CountTail`, `CountRemoveAt`) are needed because a request in a
  sequence is not a member of a set: `OneVerdict` is about copies.
* `QueuesBounded`: for each priority the length of the queue and what was popped of it
  or runs, its `Load`, exceeds the limit by at most `max_concurrent_simulations`
  (`LoadInv`). A retry only moves load; only the admission of a new request adds some,
  and it has compared the length before. That a request which was never simulated cannot
  come out of a simulation keeps `Fresh` within the limit itself.

`BundleSimulatorVerdictProofs`, with the places of the requests as invariants:

* `RetriesAccounted`: `AttemptsInv` adds that a request in the channel was never tried
  and that one that waits has `retries <= max_retries`, which is what the comparison in
  the outcome of a simulation establishes for the next round.
* `AnswersAreTrue`: `AnswerInv`, the answers in terms of the places, and
  `OutdatedInv`, which says of the events what the decision to drop a request knew.
* `NothingLost`: the listener must hear the verdict of a request that was submitted after
  it subscribed, so its own announcement has to be ahead of the request in the channel
  (`ChannelInv`, `AnnouncedBefore`) or the service knows it; from there a request that
  leaves the service is told to it (`HeardInv`).
* `ResultsAccounted` follows from the three and `VerdictsAreFinal`: the one verdict
  decides whether there is a result.
* `ImplementsLifecycle`: `StatusOf(r)` is a function of where `r` is (`StatusCounted`), and
  the step of each action maps to a step of `SimulationLifecycle` (`...Refines`). Each way
  out of the service has to show its reason: `AddMoves`, `OutcomeMoves` and `PopMoves` keep
  the test under which a request took the one way or the other, `RoomKnown` uses that a
  request is in the channel once, and `AttemptsInv` makes the last attempt the
  `max_retries + 1`st.

`EventStreamProofs`:

* `TypeCorrect`: `TypeOK` is inductive.
* `PanicsOnlyAfterNone`: needs that the state is missing only once `None` was told
  (`TakenOnlyAtEnd`).
* `ManualRetriesNeverExceed`: the attempts made are at most the attempts counted,
  and both respect the limit (`AttemptsCounted`).
* `ImplementsContract`: every step of the client is a step of `StreamContract` or
  leaves it unchanged (`ContractStep`).

`SseBroadcastProofs`:

* `TypeCorrect`, then `DeliveredInOrder` and `LosesOnlyOverwritten` from one
  invariant, `BroadcastInv`: where a client's receiver is (`Placed`), that
  delivered, channel, task and receiver are in order (`Ordered`), and that nothing
  is missing that the ring still has (`Complete`). An action of one client leaves
  the others alone (`Frame`), except `send`, which concerns all (`SendKeeps`).
* `KeepsPromise`: the server implements `LossyBroadcast`. The abstract state has
  the last message a client got, the maximum of a set, so `HasLast` is carried
  along as an invariant. Every step is one of the abstract actions seen from
  outside the server (`OutsideStep`), and those are the steps of the promise
  (`OutsideIsPromise`).

`FlashbotsSignerProofs`:

* `TypeCorrect`: that `free` never exceeds `Slots` needs the account of the slots
  (`SlotsInv`), since the step that gives one back does not look at their number.
* `NeverCalledUnready` and `AlwaysProperlySigned` from `CallInv`, which says for each
  stage of a call what it owns and what kind of request it has.
* `SlotsNeverLeak`: a step changes the slots in one of the ways of `SlotsStep`, each
  of which keeps the sum; finiteness of the holders is part of the invariant.

`SseSessionProofs` rests on `BroadcastInv`, because every step of the session is a step
of the server or leaves it alone (`ServerMoves`):

* `SeenInOrderOnce`: what was seen is in order because what is unread is newer than all
  of it and in order itself, and came over the current connection (`UnreadInv`); what
  arrives is newer still, by the server's order. For a reconnection this is not enough:
  the new connection must have subscribed after everything that was seen (`SeenBefore`
  in `SeenInv`), which holds because the owner reads nothing while it awaits `retry()`.
  `LinkInv` says what connections the client may have in the meantime.
* `MissesOnlyOverwritten`: a delivered message was seen or is unread while the
  connection holds (`GotInv`), and the others are accounted for by the server.

`RpcApiProofs`. The codec is not an induction but five layers, and a lemma cannot be
stated for every operator that a layer may take, so each has its own copy of the same
lemmas; the proofs differ in names only.

* The round trip, `Read0` to `Read4`: whatever is written for a value of a type is read
  as that value and nothing else. Each layer needs from the one within also that only
  units are written as null and only numeric strings as decimal strings (`ReadAs`), since
  these tell an absent field and a number in another form from everything else. It rests
  on `HintsRead` (all 64 sets of hints), `LeafRead`, `NumericRead`, `VersionRead`, on the
  order in which the variants of a `BundleItem` are tried, and on `FieldsRegular`: that no
  field of any struct breaks the rules which the attributes depend on.
* `RewrittenRead`: an object with one entry left out, null, in another form or unknown is
  read as `Reading` says, for every struct. `StatsRewrittenRead` and
  `StatsRewrittenPanic` say the same of the hand-written `BundleStats`, whose variant
  depends on two of the entries that may be missing.
* `Written0` to `Written4` and `CallBundleWritten`: what can be written at all.
* `RequestsUnderstood`, `AnswersUnderstood` and `PanicsKnown` follow from `RpcInv`: what
  is on the wire was written for typed values, with at most one entry rewritten
  (`Sending`), and what was taken or returned is what the codec makes of that. The
  properties themselves are not inductive, because they speak of the ends of a call only.

Only model-checked: liveness (`CallerAnswered`, `RequestSettles`, `RetryResolves`, the
liveness part of the stream's contract, `ReaderServed`, `TasksEnd`, `BecomesReady`,
`OwnerServed`, `EndReachesOwner`), which is out of the prover's reach. Every invariant
of the passing runs is proved, and so are the refinements of `SimulationLifecycle` and
`LossyBroadcast` and the safety part of the one of `StreamContract`.

## 5. Plan

Done: every component but the facade and the examples is modelled, with its
properties and runs, and every safety property of a passing run is a theorem.

Left: values of `SimBundleLogs` that nest deeper than three, which would take a
recursive codec and an induction the provers cannot instantiate; two entries of an
object rewritten at once; and the second param of `mev_simBundle` rewritten.

Left out on purpose: an `Err` of the inner `poll_ready` and clones of the signing
middleware itself; that JSON numbers above a `u64` are read as themselves needs the
`arbitrary_precision` of serde_json, which ethers-core asks for.

Not modelled: the facade crate and the examples, which hold no logic of their own; the
plain HTTP GET helpers of the SSE client, which are one library call each; the
codecs, the transport and the dispatch of other crates; formatting and error
accessors; the contents of bundles and messages, and the cryptography of signatures.
