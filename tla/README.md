# A TLA+ verification of logos-json-rpc-bridge

The bridge exposes the modules of a Logos host as JSON-RPC 2.0 over HTTP and
WebSocket, with event subscriptions and generated interface documents. This
directory models the parts of it in which several threads share state, checks
them with TLC on small instances, and proves the most important results with
TLAPS for every instance.

Source paths below are relative to the repository root.

## 1. Inventory

### Threads

| Thread | Runs |
| --- | --- |
| service thread | the libwebsockets loop: accepts, reads, dispatches requests, writes queued frames, `onClosed` |
| pump threads (2) | `CallPump`: subscribe jobs, upstream calls, refreshes, client replacements and releases, document builds |
| scheduler thread | `RetryScheduler`: discovery retries, revalidation, the publisher's coalescing delay |
| upstream threads | callbacks of the upstream clients: call answers, events, subscription status |
| host main thread | `start`, `stop`, `aboutToUnload`, and so `BridgeCore::shutdown` |

### Components

| Component | State | Operations | What makes it correct |
| --- | --- | --- | --- |
| Subscription bookkeeping (`subscription_table.h`, `json_rpc_bridge_impl.cpp`) | per connection, id -> subscription; `m_subscribers`, by number | subscribe, unsubscribe, abandon, close, loss, event | one owner per id; an id is free once its loss is announced; no id is lost; a closed connection owns nothing |
| Subscription hub (`upstream.h`) | per (module, event) an `Up`: handle, epoch, generation, copy-on-write subscriber set; per module a `Watch` | add, remove, bind, rebind, notifyModuleLost, deliverFor, retire, clear | a loss ends a subscription and never resumes it; one loss watcher per client; every `Up` follows a replaced client |
| Client registry (`upstream.h`) | per module the current client, epoch, in-flight count, recycle policy; retired clients with deadlines | invoke, finished, replace, lease, close | calls in flight outlive a replacement; no replaced client is kept for ever; none is destroyed in its own callback |
| Call pump (`upstream.h`) | queue, threads, stop flag | post, submit, stop | accepted jobs run unless the bridge stops |
| Module views (`discovery_model.h`, `exposure.h`, policies of `bridge_config.h`) | per module a snapshot: status, live report, contract, exposure | cross-check, publish, expose, gate, translate arguments | what is listed as exposed is what can be used; a hidden method gets the gate's refusal and nothing else; arguments fit the report; an honest contract is served |
| Discovery (`discovery.h`) | per module a view and a `Slot`: attempt, in flight, retry armed, checking, armed generation | refresh, callbacks, retry, loss, re-arm, replaced client, unavailable call, revalidate | a view served as fresh is from after the last loss; nothing is left stale with no refresh coming; only a real change ends subscriptions |
| Document publisher (`doc_publisher.h`) | pending flag, build mutex, current snapshot | request, rebuild, read | no change is lost, no snapshot goes backwards |
| Retry scheduler (`retry_scheduler.h`) | keyed timers, stop flag | schedule, cancel, stop | a later schedule of a key replaces the earlier one |
| Recycle policy (`recycle_policy.h`) | when it last decided, the gap | onUnavailable, onReached | replacements are spaced, fall on the client at fault, and come as long as they are needed |
| Request dispatch (`json_rpc_bridge_impl.cpp`, `rpc_dispatcher.h`, `error_map.h`) | draining flag, in-flight counters, batches | onBody, handleOne, dispatchCall, Batch | each request is answered once; counters return to zero |
| Server (`ws_server.cpp`, `peer_slots.h`, `http_body.h`) | connections, outbound queues, pending wake-ups, peer counts | attach, detach, send, requestClose, writeQueued, stop | frames in order or a close; no lost wake-up; slots match sockets; every close announced once |
| Configuration (`bridge_config.h`) | the `BridgeConfig` of a started bridge | parse and validate | the names it lets through name one module each, and no alias or key runs into another's |
| Document builders (`doc_*.h`, `schema_ir.h`) | none that lasts | build OpenRPC, OpenAPI, AsyncAPI from the views | what is listed can be called as described; references resolve; keys collide only where names are spelled alike |
| Contract reader, digests, offline tool | none that lasts | pure functions | left to the repository's tests |

### How they interact

A request reaches `BridgeCore` on the service thread. `rpc.subscribe` claims an
id in the connection's table, registers a subscriber, and posts a pump job that
adds it to the hub. The hub binds one upstream subscription per (module, event)
through a client leased from the registry, and delivers events on upstream
threads back through `BridgeCore::onEvent` to `WsServer::send`. A loss reported
by a client's status callback ends every subscription of the module
(`onSubscriptionLost`) and is passed on to discovery. A call that finds a module
unavailable tells discovery and may make the registry replace the client; the
replacement retires the old watcher, resets discovery's baseline and rebinds the
hub. Discovery swaps views, asks the hub to end subscriptions when a
revalidation finds another build, and asks the publisher for new documents.
`shutdown` stops the scheduler, clears the hub, closes the clients, stops the
pump and then the server.

### What is hard

Each table has a lock of its own and no two are nested, so every operation that
touches two tables has a moment in which they disagree, and any other thread may
act in it. Delivery takes no lock at all. Callbacks carry epochs, attempts and
generations that may be out of date when they are acted on. Handles and clients
wait for their callbacks when they are destroyed, so who drops the last
reference, and on which thread, matters; a delivery shares the `Up` it delivers
for, so the hub cannot make it end by letting go. The loss watcher polls and misses fast
reloads. `PROJECT.json` lists these hazards, each at its line, with the
properties that cover it.

## 2. The modules

| Module | Models | Theorems |
| --- | --- | --- |
| `SubscriptionContract` | what clients are promised about subscription ids: the abstract specification | |
| `Subscriptions` | subscription bookkeeping, the hub's membership and delivery, the pump, shutdown; implements `SubscriptionContract` | `SubscriptionsProofs` |
| `Clients` | the client registry, the hub's bind, rebind and loss watcher, release jobs, shutdown | `ClientsProofs` |
| `Discovery` | one module's discovery, its retries, revalidation and the provider behind it | `DiscoveryProofs` |
| `Recovery` | how a module is reached again, in time: the recycle policy and the retry backoff, composed | `RecoveryProofs` |
| `DocPublisher` | the document publisher | `DocPublisherProofs` |
| `Transport` | the server's connections, outbound queues, wake-ups and peer slots | `TransportProofs` |
| `CallPath` | bodies, batches, calls and their answers, shutdown | `CallPathProofs` |
| `ModuleViews` | what is known of one module: cross-check, exposure, gating, arguments, the error map | `ModuleViewsProofs` |
| `BridgeConfig` | what `start` accepts and makes of a configuration document | |
| `Documents` | what the three documents list, define and refer to, as functions of the views | `ModuleViewsProofs` |
| `SelfDescription` | a started bridge: composes `BridgeConfig`, `ModuleViews` and `Documents` | `ModuleViewsProofs` |

The `MC` module of each is what TLC runs; those of `Subscriptions` and `Clients`
define symmetry sets. In every module one action is one critical section of the code,
or one call between two; a thread's program counter and locals are variables, so
that the other threads act in between. Definitions whose name ends in `_` and a
word (`LossTake_Late`, `Enqueue_Drops`, ...) are faults: the forms the code
would have with a plausible mistake in it. No specification uses them; each
shows that the property named after it in `PROJECT.json` notices the mistake.

### Subscriptions

`entries` is all connections' `SubscriptionTable`s, `subscribers` is
`m_subscribers`, `ups` is the hub's `m_up` with its subscriber sets, `queue` the
pump. A subscription is a record of its keys: number, connection, id, event.
The service thread runs `Claim`, `Register`, `Submit` (rpc.subscribe), `Take`,
`UnsubErase`, `UnsubHub`, `UnsubAck` (rpc.unsubscribe), and `Detach`,
`CloseErase`, `CloseHub` (a closed connection). A pump thread runs a subscribe
job: `TakeJob`, `HubAdd`, `BindSubscribe`, `BindStore`, `Unbind`, `Ack`, or
`Abandon` when it fails. `LossBegin` ... `LossDone` is `notifyModuleLost` with
`onSubscriptionLost` for each subscriber; `DeliverSubscribers` ...
`DeliverDone` is `deliverFor` with its two lock-free reads as two steps.
`Drain` ... `ServerStop` is `shutdown`: closing the clients waits for their status
callbacks, stopping the pump and the server for their threads. `HubDrop` waits
for nobody. It drops the hub's references; an `Up` that a delivery or a thread
on its way out of `add` still shares (`Shared`) becomes `dropped`, and whoever
lets go of it last (`LastOf`) destroys its handle: `Ack`, `DeliverDone`, or
`DeliverLast` and `Unsubscribed` where that is the very callback that
`lp_unsubscribe` waits for. `GuardReenters` says whether its guard lets the same
thread in again, which the repository does not show. Only `bind` destroys a
handle that it has just got, and waits for its deliveries (`BindStore`).
`m_draining` is read once per body: `body` is the connection whose body was
under way as `Drain` ran, and its requests go on until `BodyDone`.
`out` records every frame handed to `WsServer::send`; `joined` is history.

`SubscriptionContract` is the same thing as a client sees it: a set of ids that
are taken (`ids`), a set of subscriptions that get events (`held`) and what has
been told (`told`), which change in whole steps with no threads, queue or hub.
An id is claimed by one subscription at a time; events start for the holder of
an id and never for two; the end of a subscription is told only when its id is
free and its events have stopped, and after that it does not begin again. The refinement
mapping (`Contract` in `Subscriptions`) takes `ids` from the tables, `held` from
`m_subscribers` and `told` from the frames in `out`. Most lock sections are
stutters of the contract; the property `KeepsContract` says that the others are
each one of its steps.

### Clients

A client is named by its epoch. `refs` records who refers to each client, and
`Drop` destroys it, and says on what kind of thread, when the last reference
goes; that waits for the client's callbacks unless it happens in one. `box` is
the shared box in which `finished` hands the last reference to a release job.
`Invoke`, `InvokeAsync`, `Finished`, `PostRelease`, `Unbox`, `PostReplace` are
the life of a call; `Replace`, `DropDying`, `Retire`, `ResetBaseline`, `Rebind`
a replacement with its hooks; `BindLease` ... `BindReread` are `bind`'s rounds,
each for the `Up` in `binding`, while `rebind`'s other `Up`s wait in `todo`;
`BindRefused` is a subscribe that gives no valid handle: a bound `Up` keeps the
handle it has, and `refused` remembers which client it was. `BindsDone` ends a
rebind, or an `add`, which takes its `Up` out of `m_up` if nobody has bound it
(`adding`); a rebind that still has that one in hand finds it no longer `Live`
(`dead`);
`WatchClaim`, `WatchInstall` its watcher; `ReportCheck`, `ReportApply` a status
report before and after the unlock. Time is abstract: whether the recycle
policy finds a replacement due and whether a deadline has passed are choices.
`Recovery` has the first of them.

### Discovery

A `chain` is a refresh (interface, lidl, version) or a revalidation read on its
way: the call is out, its answer is posted, what follows is decided outside the
lock, and the handler acts under the lock. The attempt number is only compared
with its current value, so a chain carries whether it is current.
`OnProviderLost`, `OnProviderArmed`, `OnClientReplaced` and
`OnCallUnavailable` are the four ways discovery is told that something changed.
The provider (`ProviderChanges`), the watcher (`PollMisses`) and the clients
(`Subscribe`) are the environment. Modules do not interact in discovery, so one
module stands for all.

### Recovery

What `Clients` and `Discovery` leave open in each other: which answers make a
replacement due (`Judge`, `Due`), and what discovery does about it. A call says
whose it is and whether it went through the current client; `Answer` is
`finished`, `Replace` and `OnClientReplaced` the replacement's job before and
after the client is swapped, `Resume` the refresh's handlers, and `Schedule` the
call to the scheduler that each makes after the lock. `Tick` is time: `age`
counts up since the policy's last decision and `timer` down to the retry. Both
are kept only as far as they are compared, so that time has no end and liveness
can be stated. `wedged` is the condition the policy exists for: a connection
through which the module stays unavailable after it is back. The first client
is made by the warm-up refresh, so `age` starts with the bridge. Builds, what a
contract says and the number of a generation are left to `Discovery`. Calls and
handlers are sets: two that are alike are one.

### DocPublisher

Threads that swap a view call `request`; `Arm` and `TimerFires` are the
coalescing timer; `Take`, `BuildLock`, `Clear`, `ReadInputs`, `Store` are a
rebuild on a pump thread. Swaps are numbered so that a snapshot can be compared
with the views it was built from; documents themselves are not modelled.

### Transport

`conns` is `m_conns`, `slots` is `m_peerSlots`, `pending` is `m_pending`, and a
`conn` record is a `Conn`. A frame is its place among all frames sent to its
`Conn`, so a gap or a swap shows in what has been `written`. The service thread
runs one callback at a time: `Get`, `Post`, `Body`, `Establish`, `ReceiveText`
and the refusals are what peers do; `WaitCancelled` is the cross-thread wake-up;
`HttpWriteable` writes a response in slices; `ServerWriteable`, `WriteTake`,
`WriteDone` are `writeQueued`, which lets go of the queue's lock around
`lws_write`; `DetachConn`, `DetachPending` are `detach`, which runs twice per
socket. `SendLookup`, `SendQueue`, `SendInsert`, `SendCancel` are `send` on any
other thread, with its three locks; the service thread's own sends are part of
the callback that makes them. libwebsockets is external: which sockets it has,
whether an HTTP transaction is open and which writeable callbacks are due are
modelled from the calls the code makes. A freed socket's address is used again
for a later one. Not modelled: lingering sockets, which are duplicates that are
only drained and closed, and the header checks, which refuse before there is a
`Conn`. All sockets belong to one peer.

### CallPath

A body is the sequence of its requests' kinds, told apart by where each is
answered: on the service thread, by a pump job, or by a client's callback.
`slots` and `remaining` are a `Batch`'s; a response is the id it carries. `OnBody`
refuses a body as a whole or makes its batch; `HandleInline`, `GetClient` and
`HandleSubmit` are `handleOne` and `dispatchCall`; `Store`, `Count`, `Flush` are
`Batch::fill` on whichever thread; `TakeJob`, `Invoke`, `InvokeAsync`,
`InvokeReturn` a pump thread's call; `Callback` its answer. The service thread
and `invoke` each hold the client for a moment, so either may be the one whose
release destroys it during shutdown. What is in a response, the gate that
refuses calls and the argument mapping are a free choice between an answer at
once and a call; `ModuleViews` has them.

### ModuleViews

A build of a module is what it answers: its live report and its `lidl()`. A
member is a name with parameter names; an argument is the name it was given
under, so that where it ends up can be told. A discovery is three steps,
`OnInterface`, `OnContract`, `OnVersion`, with `Reload` possible in between, and
publishes one of the four kinds of view. `ReadContract` stands for the contract
reader: a build has a contract that can be read, or none. The decisions are
operators with the code's names: `CrossCheckErrors`, `ExposeDeclared`,
`ExposeLive`, `MethodPermitted`, `EventPermitted`, `ToPositional`,
`MapCallError`. A call takes `Ask`, `Gate`, `Translate`, `Answer`; the view it
is gated by need not be the one its arguments are translated by. When a
discovery runs is `Discovery`'s subject; here it may run at any time.

### BridgeConfig, Documents and SelfDescription

A configuration document is a record of its sections in which a key is absent,
of the wrong type, or a value; `Accepts` is what `parseBridgeConfig` lets
through and `ParseBridgeConfig` what it makes of it, `ReadInt` with the wrap of
a conversion to `int`. Names are sequences of the parts between their dots, so
that aliases and keys, which are names joined with dots, can come out alike when
they would in the code.

`Documents` has one operator per builder function. Of a document it keeps the
operations, the params each admits, the keys, what is defined and what is
referred to: a schema is the set of its references. A type is the list of its
layers, arrays, maps and optionals around what may refer to something, and a
record's fields are a schema of their own. `ComponentKey` replaces what is not allowed in a
key, and references go through it as in `schemaRef`.

`SelfDescription` starts a bridge from each document that is accepted, follows
one of its modules as `ModuleViews` does, and asks at every point what the
documents built from the views (`Ctx`) would say. The operators `BuildOpenRpc`,
`BuildOpenApi` and `BuildAsyncApi` depend on the views alone, so the properties
are evaluated while no call is out.

## 3. The runs

| Run | Shows |
| --- | --- |
| `subscriptions` | all safety properties of subscriptions under refused binds, closes, losses and deliveries, and that the implementation keeps `SubscriptionContract` |
| `subscriptions_shutdown` | shutdown from any state leaves only deliveries behind, and only the upstream subscriptions that such a delivery holds; it meets no deadlock, given a guard that lets its own thread in again; when binds do not fail, what is acknowledged is held and every subscribe is answered |
| `clients` | calls outlive replacements, replaced clients are released and none in its own callback, subscriptions follow unless the new client refuses them, and the watcher follows in any case, over three clients and shutdown |
| `discovery` | in the absence of wedged connections, which `recovery` has: no stranded module, no old answer served as fresh, only real changes end subscriptions, and the view converges to the provider |
| `recovery` | a module whose provider stays up is discovered for good, through a connection that works; replacements keep the documented spacing and fall on the client at fault; both under bridged calls, failures, reports and late jobs |
| `documents` | no lost change, no snapshot that goes back, documents that follow the views |
| `transport` | a WebSocket client reads every frame in order or is closed, no wake-up is lost, slots match sockets, every close is announced once |
| `calls` | every body is answered once, whole and in order; nothing is forgotten; no batch is flushed after the server is gone |
| `views` | exposure agrees with gating, hidden methods get the gate's refusal, honest contracts are served, by-name arguments reach the module whole, over every order of reloads, discoveries and a call; the documents list only calls that are accepted, their references resolve, and their names stay apart unless they are spelled alike |
| `silent_subscription`, `silent_rebuild`, `dangling_wakeup` | the findings of section 6 |

### Bounds, and why they are enough

* `Subscriptions`: one connection, two ids, one event, two pump threads, one
  upstream thread, two subscribe requests, one loss, one event. Two subscribes
  that meet each other, a loss and a delivery are what the hazards need:
  subscriptions of different connections share only the hub's set, in which
  two ids of one connection meet as well. The theorems below have no bounds.
* `SubscriptionsShutdown`: one pump thread, one upstream thread and one id, which
  two subscribe requests may take in turn, so that the second one's job can wait
  behind the first; a delivery or a loss meets a bind and the clearing of the
  hub. Without symmetry, which liveness forbids, this is what fits; two pump
  threads and two deliveries at once are left to `ShutdownLeavesDeliveries`.
* `Clients`: two calls, one event, two pump threads, three epochs: a
  replacement of a replacement while calls are out on both, and an `add` or a
  rebind that each replacement overtakes. `BindRounds` is 2, where the code's is
  4, so that the rounds run out. One status report is enough to race a
  retirement. A rebind with several `Up`s in hand is left to
  `SubscriptionsMove`.
* `Discovery`: two builds, one typed, one provider change, one unavailable call,
  one replaced client. A change of provider also covers its going away and its
  first appearance, since the initial provider is free.
* `Recovery`: gaps of one and two ticks, so that the gap doubles once and meets
  its cap, and one delay, since how late a retry comes is open anyway. One
  handler at a time, one call of discovery's own and one bridged call, so that
  answers of two callers are judged in any order. The provider goes away once, at
  any moment, also at the start, with or without wedging the connection; one call
  fails that is no refusal; the watcher reports once. One replace job may wait as
  time passes, so that one is queued twice or comes late.
* `Transport`: two sockets, two `Conn`s, a queue of one frame, three frames per
  WebSocket connection and two per HTTP one, one sender beside the service
  thread, one connection allowed. Three frames are one that is queued, one that
  finds the queue full, and one that finds room again, which is what a gap
  needs; two HTTP frames are an answer and an event. Two `Conn`s are a request
  and the upgrade or the next request on the same socket, or two sockets that
  compete for the one slot.
* `CallPath`: two bodies of up to two requests of every kind, two pump threads
  and an upstream thread, so that all four threads can be filling the two slots
  of one batch, or those of two, in any order.
* `ModuleViews`: the five builds and three policies that `MCModuleViews` lists,
  which have every case the code tells apart: a method listed once per arity, a
  built-in that is declared and not listed, untagged events, unnamed parameters,
  a contract that does not fit its own report, no `lidl()` at all; policies that
  allow, deny, or leave open. A discovery may read its report and its contract
  from any two of the builds.
* `SelfDescription`: three configurations that start, with up to three modules,
  two of them with the same key (`wal/let` and `wal_let`), and 28 that do not,
  each for a reason of its own. No property is about the refusals: that they do
  not start is what `Accepts` says, and the run only shows that it does not let
  through a name that would bring two members together. The contract has a record that uses another, one
  that is used by it in turn, and a name that is no record. `IntWidth` is 24
  because TLC's own integers have 32 bits and the wrap needs wider numbers than
  the width.
* `DocPublisher`: four swaps by two threads, two pump threads, one failed build.

### Fairness

A started handler goes on and a pump thread takes a waiting job, because the
threads run and no lock is held across a wait. In `Discovery` every call is
answered, because the upstream call has a timeout, and the revalidation timer
re-arms itself; in `Recovery` time passes as well, and every kind of call is
answered whatever other calls there are. In `Transport` each turn of libwebsockets' loop handles a
wake-up and every socket that can be written, whatever other sockets do, so
these steps are strongly fair; a reader that takes nothing for ever, and is
neither closed nor fills its queue, is left out by that. No fairness is assumed
of providers, watchers, clients of the bridge or the shutdown. `documents` does
not check deadlock: the publisher may have nothing left to do. `Subscriptions`,
`Clients`, `Transport` and `CallPath` have an explicit `Rest` step that is
enabled only when no thread is in the middle of anything, so that a deadlock is
an error; `Discovery`, `Recovery` and `ModuleViews` always have a next step.

## 4. The proofs

### Subscriptions

`SubscriptionsProofs` proves, for any sets of connections, ids, events and
threads and any bounds, assuming that the service thread, the pump threads and
the upstream threads are different threads and that a connection is not a
subscription:

* `TypeCorrect`: `Spec => []TypeOK`.
* `NoDoubleDelivery`: `Spec => []OneOwnerPerId`. No two subscribers stand for
  the same id of the same connection.
* `ImplementsContract`: `Spec => KeepsContract`, that is, `Subscriptions`
  implements `SubscriptionContract` under the refinement mapping, and
  `NoticeMeansFree`: `Spec => []TerminatedFreesId`, from the contract's own
  consequence that a subscription whose end was told is gone.
* `CloseIsComplete`: `Spec => []ClosedOwnsNothing`, which is about subscribers
  only, as a closed connection's table goes with its `Conn`, and `IdsComeBack`:
  `Spec => []NoIdLeaks`.
* `LossIsFinal`: `Spec => []NeverResumed`, and `EventsAreFresh`:
  `Spec => []FreshGeneration`.
* `ShutdownLeavesDeliveries`: `Spec => []OnlyDeliveriesRemain`. That deliveries
  may remain is a defect of section 6.
* `AcknowledgedIsHeld`: `Spec => []RegisteredIsHeld`, where no upstream
  subscribe is refused (`~BindMayFail`). That it does not hold where one may be
  is the first finding of section 6.

`OneOwnerPerId` speaks of `m_subscribers` alone and is not inductive: what
keeps a second subscriber out is the connection's table, under another lock.
The inductive invariant is `Ownership`:

* `KeysUnique`: a table has one entry per id;
* `OwnersHold`: a subscriber has its entry, except in the moment in which an
  unsubscribe has taken the entry and not yet the subscriber, and no one has
  that id then. An unsubscribe and a subscribe are both on the service thread,
  so the id cannot be claimed in that moment;
* `ReleasingUnowned`: who frees an id after a failed subscribe or a loss has
  already erased its subscriber, which is why the code's order matters;
* `RegisteringPrivate`: between claim and registration no other thread and no
  job knows the subscription, so no loss can free it meanwhile;
* `SidsUsed`: numbers in use are below the counter, so a fresh one is new.

The refinement: that a claim meets no rival among the taken ids is immediate;
that a registration meets none among those that get events needs `Ownership`,
and that an end is told only after the fact needs to know what every thread that
is about to tell it has already done. The inductive invariant is `TypeOK`,
`Ownership` and `Endings`: whoever is about to tell an end has a subscription in
hand that no longer gets events (`EndingUnheld`) and whose id is free
(`EndingFree`), and what has been told is about older subscriptions than the one
being registered (`NoticesOld`).

The others add to these:

* closes and leaks: `ServiceConn`, by which the service thread registers for a
  connection that is still there and closes one that is not;
* losses: `Generations`, by which a number names one subscription wherever it
  turns up (`SidsName`), so that `joined` is written once for it, and a
  subscriber is in the `Up` of its own event only (`UpsApart`);
* events: a subscription joins once (`Unjoined`, `JobsOnce`), and whoever a
  delivery has read joined no later than the generation it reads next
  (`Reading`). The generation of an `Up` starts again only when the `Up` is made
  anew, and then no delivery runs: this needs the next invariant;
* shutdown: `Quiescence`. An `Up` that is being bound says how far its one
  binder is (`Binders`), a delivery runs under a live handle (`Deliveries`), an
  `Up` that the hub has dropped is shared by somebody (`Dropping`), and
  shutdown has joined or waited for each kind of thread at its stage
  (`Stopping`);
* acknowledgements: `Upheld`. Who takes a subscriber out of an `Up` has erased
  it from `m_subscribers` before, or has it in hand to end it.

### Clients

`ClientsProofs` proves, for any calls, events, pump threads and numbers of
clients, rounds and reports, assuming that a pump thread is none of the other
holders of a client:

* `TypeCorrect`: `Spec => []TypeOK`.
* `CallsAreAnswered`: `Spec => []CallsOutliveReplacement`.
* `NoneIsKept`: `Spec => []ReplacedAreReleased`.
* `ReleasesOnThePump`: `Spec => []ReleasedOnPump`.
* `SubscriptionsMove`: `Spec => []SubscriptionsFollow`.

The first three invariants rest on `Registry`, which is four things:

* `TypeOK`, with `Placed`: who needs a client to go on has one;
* `Books`: a client's in-flight count is the number of calls that are out on it,
  a retired client waits for one at least, and one with calls out is current,
  retired, or past its deadline, unless the registry is closed;
* `Boxed`: a client in the shared box of its last answer is there for the
  callback or for the release job; the job's share lasts until the job, and each
  client is released by one callback;
* `Held`: a client lives exactly as long as someone refers to it, and an idle
  pump thread refers to none.

None of these can be left out. That a replaced client goes depends on the count
reaching zero (`Books`), on the last answer's box reaching a pump thread
(`Boxed`) and on that thread letting go (`Held`).

`SubscriptionsFollow` is about moments in which all is quiet, so it has to be
followed through the others: `Hub` says that an `Up` that is not on the current
client is owed by a pump thread that is yet to bind or rebind it (`Followed`),
that a handle is never on a client newer than the watcher's (`HandlesWatched`),
and that the watcher the hub has claimed is set or about to be (`WatchSet`). An
`Up` that the current client has refused is settled like one that is on it
(`Settled`), and one that has no handle yet belongs to the `add` that made it
(`Added`). A bind that is overtaken owes its `Up` to the thread that replaced the client, and
a bind that runs out of rounds was overtaken in the last one.

### Discovery

`DiscoveryProofs` proves, for any builds and any bounds, without assumptions:

* `FlagsHaveWork`: `Spec => []NeverStranded`; `FreshAfterLoss`:
  `Spec => []FreshIsAfterLoss`; `EndsMeanChange`: `Spec => []EndsOnlyOnChange`.

The three are inductive only together, with what ties the calls under way to the
slot: a current refresh is the only current chain, and there is one exactly while
`inFlight` is set (`OneCurrent`); a current chain's report is from after the
last loss, a re-read that found a change still has found one, because only a
current refresh changes the view and there is none then, and an untyped restart
carries its change in a chain that has already decided (`ChainsOK`); and a set
flag or an unusable view has a handler, a timer or a job behind it (`Flags`).
A revalidation read does not set `inFlight`, so what it found may be out of date
when its handler has the lock again: that it is not is the point of the second
look at `cur` and `Settled`.

### Documents

`DocPublisherProofs` proves, for any threads and any bounds (naturals; `None` is
not a pump thread):

* `TypeCorrect`: `Spec => []TypeOK`.
* `CoalescingLosesNothing`: `Spec => []NoLostChange`. While the snapshot is
  behind the views, a request or a build is coming that reads them later.
* `SnapshotsMoveForward`: `Spec => NeverBack`, an action property. The snapshot
  served is never replaced by an older one.

Neither of the last two is inductive alone: whether a change is lost depends on
what a build that has already read the views will store, and when. The inductive
invariant is `Building`: `OneBuild` (the build mutex is held from the clearing of the
pending flag to the store), `PendingComes` (a pending request has a timer or a
job that will build), `StoresComeLast` (a build about to store outdated views
has another one coming), `StoresAhead` (what a build is about to store is one
generation ahead of the snapshot and reads swaps at least as new) and
`NoLostChange`.

### Transport

`TransportProofs` proves, for any sockets, senders, numbers of connections and
frames, and limits, from `TransportAssumption` alone:

* `SlotsAreCounted`: `Spec => []SlotsMatch`; `ClosesAreNoticed`:
  `Spec => []ClosedOnce`.
* `WakeupsArrive`: `Spec => []NoLostWakeup`; `FramesInOrder`: `Spec => []NoGap`.

All four rest on `Shape`: the types, no two sockets with one Conn (`Apart`), a
socket's kind that is its Conn's (`KindsMatch`), and what the service thread
and each sender hold in the middle of their work (`ServicePlace`,
`SenderPlace`). Over it come `Counted` (the sockets that own a Conn are a finite
set of the counted size), `Noticed` (no notice for a Conn that is not made yet),
`Awake` and `InOrder`. A lost wake-up could only arise where a sender has queued
a frame and not yet its socket while the service thread empties `m_pending`:
`Awake` says of each socket which of the two will signal it. `InOrder`
accounts for every frame numbered so far: written in order, at most one in the
service thread's hand, the next ones queued, and a dropped one only behind a
close that was asked for, after which nothing more is taken.

### Calls

`CallPathProofs` proves three theorems, for any threads, bodies and requests. The
assumption is that the three kinds of threads are different.

* `ServerOutlivesBatches`: `Spec => []NoFlushWithoutServer`.
* `AnswersAreWhole`: `Spec => []AnsweredOnceAndWhole`.
* `NothingIsForgotten`: `Spec => []NothingForgotten`.

For the first, the inductive invariant `ServerLast` follows the order of
`shutdown`: once the registry has let go of the client, no call is out and no
callback runs as soon as no thread holds it (`CallsEndWithClient`); only an open
registry lends it; and those who may still hold it, the pump and the service
thread, are joined before the server goes (`PumpsJoined`, `ServiceJoined`).

For the second it is `Whole`: a request is at one place at a time (ahead of the
service thread, with the pump, out at the client, or in one thread's hand:
`OneHolder`), it is open exactly until that thread stores its response
(`HeldOpen`), and `m_remaining` is the number of requests without a response or
with one not yet counted (`Accounts`). So a thread that counts down to zero is
the only one to flush, and finds every slot filled (`Flushing`).

For the third, a batch that is not flushed has something left to count or a
thread about to flush it (`Going`), and as long as shutdown has dropped nothing
an open request is at one of those places (`Placed`). Shutdown may lose jobs and
calls, and then that batch is never flushed; no theorem says that a body is
answered, which is `Answered`, model-checked under fairness.

### Recovery

`RecoveryProofs` proves two action properties, for any gaps, delays and bounds:

* `ReplacementsAreSpaced`: `Spec => SpacedOut`. The n-th replacement decided in
  a row waits for the n-th spacing.
* `FaultIsItsOwn`: `Spec => OwnFault`. The client that a replacement takes away
  was itself found unavailable, however late the job runs.

The inductive invariant is `Decisions`: the gap is the spacing of the decisions
made in a row (`Counted`), which the code never stores as a number, and a
replacement of the current client waits only while that client is to blame
(`ForCause`). The spacings are a recursive function; that there is one, and that
it is what its equation says, is proved here too, by a least counterexample.

### Views and descriptions

`ModuleViewsProofs` proves, about `ModuleViews`, for any builds, policies, names
and parameters:

* `ExposureAgrees`: `Spec => []ExposureIsTheGate`. The lemmas `MethodsAgree` and
  `EventsAgree` compare the two computations on any view; what remains is that
  the exposure a view carries is the one of its own content under the policy in
  force (`ExposureIsCurrent`), and that a pending view has an empty report.
* `RefusalsAgree`: `Spec => []HiddenLooksUnknown`. The invariant is that a hidden
  method never gets past the gate. For such a method the gate asks the
  configuration alone, so a publication between gate and translation does not
  matter. The refusal is the -32601 of a method that a loaded module does not
  have; what other unknown methods are answered is in section 6.
* `ArgumentsReachWhole`: `Spec => ArgumentsFit`, an action property. `Matched`:
  a contract that is served passed the cross-check against the very report
  published beside it, whichever builds the two came from. `BuildsAssumption`
  says that members and parameters are lists.

About `SelfDescription`, for any configuration documents, modules, contracts,
records and names:

* `ReferencesResolve`: `SelfSpec => []EveryRefResolves`. Each document's lemma
  (`OpenRpcResolves`, `OpenApiResolves`, `AsyncApiResolves`) holds of any views.
  It needs `SanitizedAssumption`: a key is its own key, as `componentKey` leaves
  what it has replaced alone.
* `GeneratedCallsWork`: `SelfSpec => []GeneratedCallsAreAccepted`. It rests on
  `ExposureAgrees`, on `Matched`, and on `Started`: an accepted configuration's
  names are one part each, no two alike, so that the entries of the followed
  module are its own. `WrittenAssumption` says that names are sequences of
  strings, `NamedParamsAssumption` that a contract names every parameter, as
  LIDL does: OpenRPC would list one without a name as `argN` (`ParamName`), and
  the dispatcher would not know it.
* `NamesStayApart`: `SelfSpec => []NamesKeepApart`. Two entries with one key
  belong to one member, or to two that `componentKey` itself makes alike
  (`SpelledAlike`). Nothing in the code sees to it that there are no such two
  (section 6); what the theorem shows is that nothing else can bring two members
  together: an alias always names its own member, and words like `request` or
  `subscribe` and the bridge's own entries keep the rest apart.

### What is only model-checked

* Liveness, as fairness and `ENABLED` are out of the prover's reach:
  `SubscribeAnswered`, `Converges`, `DocsFollow`, `Delivered`, `Answered`,
  `Recovers`, and that there is no deadlock.
* `HonestIsServed`, which is about the builds that `MCModuleViews` lists:
  that a contract was generated from the code is not something the model says.
* The three findings of the runs.

What a configuration document is refused for is modelled (`Accepts`) and neither
checked nor proved: runs and theorems start from a document that was accepted.

Recursive functions are within reach only where a least counterexample serves
instead of the library's induction theorems, which take an operator.

## 5. What is not modelled

The contract reader, the digests, the offline tool and the texts of the
documents are sequential functions over text; the repository's golden and
conformance tests are the better tool. Of the documents, the value constraints
inside a schema and the bridge's own `rpc.*` entries in OpenRPC are left out:
those entries write their schemas inline, and their error references come from
the list the error components come from. The blocking of
a client's first call on the host's main thread during unload is not modelled,
as the host's event loop is not part of the repository. The upstream client
library is external: it is modelled from how the code uses it (callbacks on its
threads, a status callback per client). Destroying a client is taken to wait for
its call and status callbacks, and destroying a subscription's handle for its
delivery callback, as the comments of `upstream.h` say; nothing says that
destroying a client waits for event deliveries, and the models do not take it to.

## 6. Findings

Three runs check what the repository says and find that the code does otherwise.

1. `silent_subscription` (`src/upstream.h:443`): a subscribe that joins an `Up`
   another one is still binding is acknowledged; when that bind fails, the `Up`
   is erased with it. It is never delivered to and never terminated.
2. `silent_rebuild` (`src/discovery.h:333`): a refresh that was due anyway can
   publish another build that the watcher missed, without ending subscriptions.
3. `dangling_wakeup` (`src/ws_server.cpp:211`): a connection that closes between
   the lookup and the insertion of a `send` leaves the address of a freed socket
   in `m_pending`. `Transport` lets libwebsockets ignore it, or give a spurious
   writeable callback to a new socket at that address, which its other
   properties tolerate.

Three defects that the properties had to make room for, which `Subscriptions` and
`Clients` reach in a few steps:

* `shutdown` takes the clearing of the hub to end the deliveries ("no further
  event deliveries", `src/json_rpc_bridge_impl.cpp:289`). A delivery under way
  shares its `Up` (`src/upstream.h:610`) and no later step waits for it, so it
  may call `m_server->send` after `m_server.reset()`: `sendEvent` is a place a
  thread may be in when `stage` is `stopped`. `OnlyDeliveriesRemain` says that
  no other thread can.
* Such a delivery may be the last to let go of its `Up` (`DeliverLast`). It then
  destroys the handle inside its own callback, and is the thread that an
  unsubscribe waits behind, which `src/upstream.h:612` says a delivery never is.
  Whether it waits for ever depends on the guard in the external protocol
  library (`GuardReenters`).
* A rebind that the new client refuses leaves the `Up` with the replaced client's
  handle (`src/upstream.h:580`), while README.md:311 says that subscriptions
  "move to the new connection". `rebind` does not look at the result and nothing
  tries again before the next replacement. `SubscriptionsFollow` says that
  nothing else leaves a subscription behind.

Six more things that the documentation says otherwise, found while modelling
and not run here: README.md:353 says that "Not-loaded, not-exposed,
denied-by-config and does-not-exist calls all produce a byte-identical
`-32601`", while a permitted call of an exposed module that is not loaded is
answered -32001, and an unknown method of one that is still pending, called with
by-name params, -32602 (`src/error_map.h:133`, `src/json_rpc_bridge_impl.cpp:594`;
`HiddenLooksUnknown` states what does hold, for reserved and denied methods);
when shutdown drops a queued release job before `finished`
returns, the client is destroyed in its own callback (`src/upstream.h:257`;
`ReleasedOnPump` shows that this is the only way); a status report accepted
before `retire` may reach discovery after its baseline was reset
(`src/upstream.h:662`); in-flight calls are bounded per batch only
(`src/json_rpc_bridge_impl.cpp:427`); the spacing of replacements is counted
from their decision, not from when the new connection is made
(`src/recycle_policy.h:22`), so a late replacement shortens the next wait; and
README.md:312 says of a replacement that "the module is rediscovered at once",
while a handler that chose its backoff under the slot's lock before it, and
reaches the scheduler after it, replaces the timer of that rediscovery
(`src/discovery.h:319`; `Schedule` in `Recovery` is where the last one wins).

Five more observations, which no run states because no document of the
repository speaks of them: an unsubscribe that overtakes its subscribe's pump
job leaves a subscriber in the hub that no table knows and no bound counts, to
which nothing is sent, until the module is lost
(`src/json_rpc_bridge_impl.cpp:563`); a delivery that found its subscriber
before a loss may send its event after the notice of that loss
(`src/json_rpc_bridge_impl.cpp:308`); two record, method or module names that
differ only in characters outside `[A-Za-z0-9._-]` get the same key
(`src/schema_ir.h:64`); a module name with a `/` in it is accepted, and its
OpenAPI path has a segment more than the route that serves it; a limit or a port
that does not fit an `int` wraps around (`src/bridge_config.h:196`).

## 7. Plan

Done: sections 2 to 4. What is left, in this order:

1. Compositions: `Transport` with `Subscriptions` at `send` and `onClosed`
   (subscribers of an HTTP connection are never removed), and `Clients` with
   `Discovery` at the status hook, where generations meet epochs.
2. Proofs: every safety property of the runs has its theorem, `HonestIsServed`
   aside. What is left are the type invariants of the modules whose theorems do
   without them (`Recovery`, `Transport`, `CallPath`, `ModuleViews`), a
   statement of `HonestIsServed` for builds described by how a contract is
   generated, and the properties that the compositions bring.
