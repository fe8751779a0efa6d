# Verification of iicp-client-python

TLA+ models of the concurrent and distributed parts of `iicp_client`: the node
that serves tasks, how it starts, stays up and tells others of itself, the relay it
may run, the stores its processes share, the native TCP transport, the client SDK,
and the discovery, cooperative inference and routing of the local proxy. TLC checks
every model on small instances; TLAPS proves the central invariants for all values
of the constants. Paths below are relative to `src/iicp_client/` of the repository.

* [Inventory](#inventory) - the system's parts, their state and their hard behaviours
* [Modules](#modules) - how each module corresponds to the code
* [Runs](#runs), [Bounds](#bounds), [Fairness](#fairness)
* [Proofs](#proofs)
* [Findings](#findings) - where comments or docs promise what the code does not do
* [What is not modelled](#what-is-not-modelled) and the [Plan](#plan)

Run a model with `tlc -workers 2 -config MCx.cfg MCx` (one to four minutes each), check proofs with
`tlapm xProofs.tla`. `PROJECT.json` lists runs, properties, the mutants that
show each property can fail, the source lines behind each definition, the
hazards and the theorems.

## Inventory

A **node** serves inference tasks to a mesh. It registers at a **directory**,
sends heartbeats, and answers tasks over HTTP (`POST /v1/task`), over the native
TCP transport, or, when it cannot be reached, through a **relay** run by
another node. A **client SDK** and a local **proxy** (OpenAI- and
Ollama-compatible) discover nodes and send them tasks.

| Part | State it keeps | Operations | Concurrency and failure | What makes it correct |
|---|---|---|---|---|
| HTTP task admission (`node.py`, `scheduler.py`, `availability.py`, `idempotency.py`) | slot semaphore, `_active_jobs`, nonces, task ids, counters | `_task` | one thread per request, handlers on a shared event loop, 60 s time limit, TTLs | slots neither leaked nor oversold; duplicates not executed together; refusals leave no trace; every request leaves |
| Dispatch admission store (`dispatch_admission.py`) | SQLite rows per ticket | `evaluate_dispatch_admission`, `consume`, `transition`, `cleanup` | several processes on one file, stale clock readings, storage errors, crashes | a ticket is redeemed at most once |
| Durable lifecycle (`service_lifecycle.py`) | SQLite task and event tables | `submit`, `transition`, `cancel`, `status`, `events_after` | several processes, multi-transaction `cancel`, bounded replay | tables agree, terminal states final, no silent gap for observers |
| Relay registry (`relay_session.py`, `relay_ticket.py`, bind handlers of `node.py`) | worker to session map, consumed tickets | bind, unbind, pull, finalizer | event loop (TCP) against handler threads (HTTP) | session cap, no displacement of alive sessions, single-use tickets |
| Relay forwarding and worker (`relay_session.py`, `relay_worker_client.py`) | pending calls, poll queue, stream queues | `forward_task`, pull, respond, reconnect | time-outs, disconnects | every call answered once or failed |
| Directory session (`node.py`, `recovery.py`) | token, stashed token, metrics batch, recovery counters | register, heartbeat loop, endpoint change, shutdown | lost messages, forgetful directory, second registering thread | tasks counted once, token heals, restart only after grace |
| Native transport (`iicp_tcp.py`, `native_response_sequence.py`, `native_call_identity.py`) | per-connection state on both ends, concurrency gate | INIT, PING, DISCOVER, CALL, streaming CALL, CLOSE | time-outs and cancellations with the connection kept, vanishing peers, back-pressure | answers match requests, streams end once, gate balanced |
| Proxy routing (`proxy/routing/*`, `proxy/clients/node.py`) | circuit breakers shared by requests | serial fallback, redundant dispatch, retries | concurrent requests interleaved at awaits, lost replies | breakers consistent, truthful outcomes, no needless repeat, every request ends |
| Node selection (`proxy/routing/selector.py`) | none | filter chain | - | what CIP and routing are given passed the filters |
| CIP (`proxy/cip/*`, the three compatible front ends) | session budget, award replay cache | gates, dispatch, receipts, award | concurrent dispatches, repeated receipts | budget not overspent, awards earned and made once |
| Proxy directory client (`proxy/clients/*`, `proxy/network/peer_cache.py`) | remembered redirect, pinned ticket key, node lists | discover, redirect, refresh | redirects in circles, rotated keys, failing replicas | every resolution ends |
| Client SDK (`client.py`, `routing_policy.py`, `selection.py`, `_http.py`) | candidates of a call | tickets, discovery, policy, submit, retry | time-outs, refusals, fallbacks | no needless repeat, nothing sent against the policy |
| Trust store (`dispatch_ticket_trust.py`) | bundle file, high-water mark, lock file, replay cache | install, recover, verify | processes, crash with the lock, threads with their own clocks | no lost install, nothing stale accepted |
| Tunnel (`tunnel.py`) | child process, respawn counts; cooldown, gate and lease files | open, watchdog, respawn, close | close against respawn, dead lease holders, provider limits | no tunnel after close, a lost one comes back, every process gets its turn |
| Start of a node (`cli.py`, `nat_detection.py`) | endpoint, pinholes, port mapping, tunnel, pidfile | detect, escalate, register, stop | each rung may fail, the process may end at any of them | no placeholder registered, an ending that can clean up does |
| Supervision (`instance_lock.py`, `cli.py`, `service.py`) | pidfile, hand-over marker | acquire, rotate, claim, complete, restart | processes die between reading and writing a file | every node reloads the key and is served |
| Updater (`updater.py`) | status file, installed package | tick, install, reload | several processes, failing installs, lost writes | every process gets the newest version |
| Peer manager (`peer_manager.py`, `/v1/peers`) | peer map and its file | exchange, merge, prune, persist | lost exchanges, crashes, second-hand mentions | gossip is mutual |
| Backend stability, runtime health (`backend_stability.py`, `runtime_health.py`) | drain deadline, health snapshot file | probe, heartbeat, healthcheck | probes against heartbeats, dead writers | a drain runs its time, no dead node reported alive |
| Backends, identity, crypto, policy documents, pricing, diagnostics | none that is shared | - | - | pure data |

How they interact: the directory session's counters come from task admission;
the relay's HTTP endpoints run on the node's handler threads while its TCP
sessions run on an event loop; a relay bind and a new tunnel URL re-register the
node beside the heartbeat loop; a draining backend makes task admission refuse; a
start chooses between port mapping, tunnel and relay and hands the result to the
directory session; the proxy finds nodes through the directory client, decides on
CIP, and sends tasks to what task admission models, over HTTP or the native
transport. The dispatch store, the lifecycle store and the trust store are library
ports of the package: the processes of one deployment share their files.

The hazards, each at its line with the properties that watch it, are in
`PROJECT.json`.

## Modules

Every `XProofs` module holds the theorems of `X`. `DispatchPathProofs` holds those of
the modules on the way from a client to a node (DispatchAdmission, CipDispatch,
NativeSession, ClientSubmission), and `NodeHostProofs` those of what runs around a node (TicketTrust, BackendHealth, TunnelWatch, NodeStartup). The `MC` modules
give the modules model values, and put components that share no state into one run (see
[Runs](#runs)). Operators whose comment begins with "Mutation" are
variants of the definition that follows them; they are used only to show that a
property notices that fault.

### TaskAdmission

`POST /v1/task` in `node.py`, one action per statement group that another thread
can interleave with. `pc[r]` is the place of request r's thread in `_task`.

| Action | Code |
|---|---|
| `PreCheck` | rate limit, token, policy and body checks: may refuse |
| `AvailabilityGate` | window cap, read under `_jobs_lock` |
| `AcquireSlot`, `QueueForSlot`, `CapacityExceeded` | semaphore, non-blocking or with the queue time limit |
| `CountJob` | `_active_jobs += 1` |
| `CheckNonce`, `CheckIdempotency` | the two duplicate caches |
| `SubmitHandler`, `CollectResult`, `HandlerTimeout` | `run_coroutine_threadsafe(...).result(timeout=60)` |
| `WriteResponse`, `WriteError` | inside the `try`, so a vanished client turns a success into an error |
| `ReleaseSlot`, `UncountJob` | the `finally` blocks |
| `HandlerEnds`, `ExpireNonce`, `ExpireTaskId`, `CloseLoop` | environment |

A handler stays in `running` after its thread gave up on it: the time-out does
not cancel the coroutine.

### DispatchAdmission implements DispatchTicket

One action per SQLite transaction; the clock reading of `Evaluate` is taken
before the transaction and used after it (`job[p].now`). `Crash` loses the
process and keeps the rows. `DispatchTicket` is the abstract ticket: fresh,
accepted, settled, forgotten; the mapping reads a row that is gone as forgotten
if the ticket was ever redeemed.

### LifecyclePersistence implements TaskLifecycle

`SqliteLifecyclePersistence`. `Submit`, `Transition`, `Status` are transactions;
`cancel` is three (`CancelRead`, `CancelHook`, `CancelWrite`, then
`CancelReturn` or `CancelAborts`), with any other process in between, and with
retention (`TtlPasses`) and a new submission of the id in between as well: the closing
status reads whatever row there is, and `lives` tells which life it is of.
`ObserveEvents`, `ObserveResumeUnavailable` and `ObserveUnknown` are the three
outcomes of `events_after`. `LifecycleStates` is the transition table.

### RelayBinding

TCP sessions (`Tcp`) run on one event loop: `MayRun` keeps the synchronous part
of a handler free of other TCP handlers. HTTP sessions (`Http`) run on threads
and interleave at every registry call. `VerifyTicket`, `FindExisting`,
`ProbeExisting`, `Admit`, `ConsumeTicket`, `Bind`, `Ack` are the bind path;
`Finalize` the TCP `finally`; `Unbind`, `CloseHttp`, `PullStart`, `PullEnd` the
HTTP endpoints. A worker's HTTP session is unbound at most once; the bind rate
window appears as "may refuse".

### RelayForwarding

What happens to calls once a worker is bound. One worker binds one session after
the other (`Bind`, over TCP or HTTP); it and the relay notice a lost connection
independently (`WorkerDrops`, `RelayDrops`, then `Finalize`; `Poll` revives an HTTP
session that was silent). A consumer has a thread and a coroutine:

| Action | Code |
|---|---|
| `Lookup` | `registry.get`; 404 if there is no session, or, on `/v1/relay-for`, no alive one |
| `Begin` | `run_coroutine_threadsafe`: registration in `_pending` or `_stream_pending`, on HTTP also `_queue.put` |
| `Write`, `Drain` | the CALL frame under `_write_lock`, and `drain()`, which has no time limit |
| `Return`, `ReadEvent`, `TimesOut` | the ends of `wait_for` (120 s), and one turn of a stream's loop |
| `Collect`, `GiveUp` | `.result(timeout=125)`; giving up does not cancel the coroutine |
| `Abandon` | the consumer of a stream closes the generator |
| `Take`, `Respond`, `SendEvent` | the worker reads a call, answers it, streams events |
| `OnResponse`, `Unheard` | an answer reaches the relay in the frame loop or by POST, or finds no session |

Events over HTTP are separate POSTs and arrive in any order; frames of one TCP
connection arrive in order or not at all. A stream's `queue` and
`NativeResponseSequence` (`expects`) are those of `on_stream_response`, with
overflow. Who may bind is left to RelayBinding; the fallback of `/v1/relay` to HTTP peers,
pings and the worker's directory callbacks are left out.

### DirectorySession

The heartbeat loop (`phase`), an endpoint-changing thread (`mover`), the
directory's view (`dir`, `issued`, `credited`), and a network that loses requests
and replies (`MaxFaults` of them). Metrics travel in a batch (`pending`) that is kept
until it is acknowledged. The recovery classification of `recovery.py` is
`Classify`/`CountCheck`. The directory is external and modelled from how the
node uses it: a batch id is counted once.

### NativeSession

Both ends of a connection of `iicp_tcp.py` with a FIFO channel each way
(`up`, `down`). The client may give up on any wait and keep the connection
(`GiveUp`), which is where stale frames come from. The server's streaming handler
is blocked by a full write buffer. Frame encoding is a well-formed or a garbled
frame. RELAY_BIND and FEEDBACK frames are left out: this client sends neither,
the server rejects type 0x0B before `_on_relay_bind`, and it ignores FEEDBACK.

### ProxyRouting

One event loop: actions run from one `await` to the next. `SubmitSerial` walks
the ranking to the first candidate that the SSRF check and the breaker pass;
`Replies`, `PostLost`, `PostErrored`, `Retry`, `Failed` are the ends of one POST
and the decisions that follow it; `SubmitRedundant`, `LegStarts`, `Collect` are
the race of `aggregator.py`. Nodes are external. An error status says nothing of the
task: a node answers 500 after its handler ran or while it still runs (`node.py:1802`,
`node.py:1859`), and a relay's 502 may follow a run, so `PostErrored` leaves the node
without the task, with it, or with it done. Nothing is assumed of a second copy, since
idempotency is off by default (`node.py:343`), and a node may execute a task whose
caller has given up (`ExecutesLate`). `reset_s` is one event, open to elapsed. Slots of
requests are reused, with their histories cleared. The unsafe URL's
`ValueError` is raised outside the `try`, so it records no failure; a CIP
mismatch has counted as a success before it is noticed; both are kept. The credit
award that a CIP reply starts is in CipDispatch.

### ClientSubmission

`_submit_async` of `client.py`. Discovery asks for tickets one by one
(`TicketGranted`, `TicketRefused`, `NoMoreRoutes`, `TicketUnsupported`) or for the
legacy list (`DiscoverAnswers`); `PolicyFilter` applies `RejectionReason` of
`routing_policy.py` to every node; `SelectCandidates` and `RankerRefused` order
them; `CandidateBegins`, `NodeAnswers` and `SendFails` are the loop over candidates
with its same-node retries. Lists are filtered in their order (`Kept`); the directory
lists a node once, and no configuration asks for legacy discovery in restricted mode,
since the constructor refuses it (`SdkConfigsAssumption`). `Failures` is the table of error classes that
`_http.py` turns an answer into. Nodes and directory answer as they like.

### ProxyDiscovery

`DirectoryClient.discover` and the `PeerCache` in front of it, with the two clients as
the proxy builds them (`proxy/main.py:89`, `proxy/network/peer_cache.py:49`): without a
replica registry and without a resolver of keys. A handler that finds no fresh list
(`GetNodes`) discovers with the app's client and, if that succeeds, once more with the
cache's; the refresh loop does the latter for every cached intent. A discovery asks for
tickets one by one (`TicketedRoute`, `NoRouteAvailable`, `TicketsUnsupported`), fetching
the directory's key when the client has none (`KeyArrives`: checked before the await, set
after it), or for the legacy list, which may be a redirect to a replica (`Redirected`,
`RedirectIgnored`), remembered for its `Retry-After` (`RedirectExpires`). The directory
and its replicas answer anything, and the directory changes its key once (`RotateKey`).

### CipDispatch

A request through one of the surfaces (`ChatCompletions`, `ApiChat`, `ApiGenerate`,
`Messages`), the filters of `selector.py` (`Rank`, `Select`), the gates
(`PassGates`, `DecideDispatch`, `ComputeEnvelope`), the session budget, the replies
(`RouteReplies`, `RaceEnds`) and the award coroutine (`SubmitAward`, `AwardEnds`).
One event loop: what lies between two awaits is one step. A candidate replies or
does not; how its POST goes is in ProxyRouting.

### TicketTrust

`FileTrustBundleStore` with writers that install or recover (`AcquireLock`, `Decide`,
`Commit`, `ReleaseLock`, `WriterDies`), and threads of a verifier (`VerifyBegins`,
`CacheContains`, `CacheRemember`, `AcceptUncached`), each with a clock reading of its own.
`minimum_bundle_version` and `replay_cache` are the caller's to give, and 0 and `None` by
default: each verification chooses, and `NothingStaleAccepted` speaks of those that gave
the stored high-water mark, or the cache. A bundle is its version and the state of the
one key; signatures are a verdict.

### TunnelGate and TunnelWatch

TunnelGate: several processes ask Cloudflare for a tunnel. The cooldown after a 429,
the gate between two creations and the creation lease are files with deadlines;
every reading, unlinking and writing of them is a step, and a process may die after
any. TunnelWatch: one process's watchdog, with the child process, the edge that may
or may not answer for its URL, respawn counts, the policy for a dead tunnel, and
`close` or a signal from the main thread at any point.

### NatDetection and NodeStartup

NatDetection is `detect_nat` as operators over a record of what the host's network
answers, one per rung. NodeStartup is `_serve` from the saved configuration to the
end of the process: detection, pinhole, the escalations to tunnel, relay and gossip,
the forced tunnel, the fallback of an unroutable endpoint, the NAT-4 guard, the
instance lock, registration and service. Three rungs may open a tunnel (`TunnelSpawned`,
then `TunnelFails` or `TunnelOpened`); `nsChildren` counts the children that run,
`nsRun.tunnel` those the process has a handle of. It ends in one of these ways:

| Action | Ending | Cleans up |
|---|---|---|
| `Stop` | the end of `serve` | tunnel, pidfile, pinhole if the router answers, registration |
| `ReadConfig`, `FallbackOfRelay`, `TakeLock`, `Interrupted` | `SystemExit` or Ctrl-C before `serve` | tunnel (atexit) |
| `Terminated` | SIGTERM between two rungs or while serving | the last tunnel that opened (its handler) |
| `KilledOpening` | SIGTERM while a tunnel opens | nothing: the handler is installed later (`cli.py:2325`, `cli.py:2379`) |
| `ExitAbruptly` | `os._exit` of the hand-over watch (`cli.py:1385`) or of the recovery check (`node.py:1068`) | nothing |
| `TunnelDeadExits` | `os._exit` when the tunnel is dead (`cli.py:2363`) | nothing; the child is gone |
| `Replaced` | `execvp` after an update (`updater.py:258`) | nothing |

`CleanEndings` are those of the first three rows; `ServeLeavesNothing` is about them.

### NodeSupervision

The processes of one operator under a supervisor: `AcquireCheck` and `AcquireWrite` of
the pidfile, `Register`, `Crash`, `Start`, and the hand-over of a rotated
operator key through a marker file that processes read, truncate and write in separate
steps (`ClaimRead`, `ClaimOpen`, `ClaimWrite`, `CompleteRead`, ...). `Torn` is a marker
whose writer died in between.

### SelfUpdate

`auto_update_tick` of several processes: the index is read (`CheckIndex`), the
candidate is tried unless its back-off says no (`Tick`), installed for all of them
(`Install`, `InstallFails`), and each reloads (`ReexecCli`, `ReexecFails`). The status
file is read and written whole, and a write may be lost.

### PeerGossip

`PeerManager` of several nodes: bootstrap, rounds with a random peer, the peer's
`/v1/peers` handler, merge, prune, persistence, crash and restart. Ages are counted in
gossip intervals; an exchange may be lost on either way, and is refused when the
signature keys differ. `MCPeerContact` gives every node one round per interval, as
`gossip_loop` does, and records how long a listed peer and the node have exchanged no
message.

### BackendHealth

`observe_backend_stability` for the three kinds of backend, the drain it starts, the
task that is refused or served meanwhile, the heartbeat that tells the directory, and
the health snapshot that another process classifies. Deadlines and time stamps are
kept as the intervals still to pass or since passed.

## Runs

Some runs hold several components that share no state. Such a run has a variable
`subject`, chosen in the initial state: a behaviour is one of that component, and
the others stay where they start. Its states are the sum of theirs, not the
product, and a property of one component says of such a run exactly what it says
of the component alone. Fairness is a disjunction over `subject` in the same way.

| Run | Components | Shows |
|---|---|---|
| `serving` | TaskAdmission, TunnelGate | slots and job count balance, no duplicate executed beside its original, refusals leave no trace, every request leaves whatever its handler does; every process that asks for a tunnel gets its turn, whatever the others left behind |
| `dispatch_path` | DispatchAdmission, NativeSession, CipDispatch, ClientSubmission | the store implements the single-use ticket; streams show their own events in order and end once, answers match, the gate balances; the session budget holds and awards are earned; the SDK never resends to a node that may have the task and sends only what the policy allows |
| `node_state` | LifecyclePersistence, TicketTrust, NodeStartup | tables agree, cancel reports the end of the life it worked on, observers miss nothing, the store implements the abstract lifecycle; no install lost, nothing stale accepted by a caller that asks for the safeguards; no placeholder registered, no tunnel left by the endings that can close it |
| `node_reports` | DirectorySession, BackendHealth | tasks counted exactly once, restart only after the grace, a void token heals; a drain runs its time and a dead node is not called alive |
| `mesh` | RelayBinding, PeerGossip | a ticket admits once until it expires, a lost TCP session leaves; until an HTTP bind is asked for also the session cap, and nobody but a session itself takes it from the registry; gossip becomes mutual |
| `relay_forwarding` | RelayForwarding | pending tables exact; a 200 means run and a 404 not run, never run twice; streams without a gap; every consumer is answered whatever the worker does, and with a worker that reads no coroutine waits for ever |
| `routing` | ProxyRouting, ProxyDiscovery | outcomes told to callers are true, no task sent on after a usable reply, POSTs within budget, breaker maps agree, every request ends; every resolution of nodes ends, whatever the directories answer |
| `node_host` | TunnelWatch, NodeSupervision, SelfUpdate | no tunnel process after `close`, an announced tunnel comes back; every supervised process reloads a rotated key and every supervised node is served again; every process ends up on the newest version |
| `task_inference_cap`, `proxy_executed_twice`, `gossip_second_hand`, `startup_registers_wan` | TaskAdmission, ProxyRouting, PeerGossip, NodeStartup | expected to find a violation: see [Findings](#findings) |

## Bounds

Small enough for TLC, large enough that each interesting case happens:

* TaskAdmission: 2 slots with shares of 50 and 100 per cent. Two requests of any kind
  meet in every stage; and a queueing and a fail-fast one arrive while a third one
  waits for a handler that hangs, so that they find the slots full, queue, and get the
  slot it frees. What holds for more requests is proved.
* TunnelGate: 3 processes, cooldown and lease of 2 ticks, gate of 1, so that deadlines
  pass in either order and one process can be behind two others.
* DispatchAdmission: 3 processes (redeem, settle, clean up at once), 2 tickets,
  skew 1, retention 2, delay 1 (the least that satisfies `RetentionCoversSkew`
  with equality), clock to 7, past the last cutoff of both tickets.
* NativeSession: one client with 3 requests (a handshake, a stream that is given up,
  and what follows it), one with 2 that competes for the single slot, 1 partial
  event per stream, a write buffer of 1 frame (so the second event blocks).
* ProxyDiscovery: one handler beside the refresh loop (so both clients fetch at once, and
  two coroutines share one of them), one replica, which may redirect to itself, 2 ticketed
  routes and then the legacy list.
* CipDispatch: 2 requests of any of 7 bodies and then a plain one, on a session budget
  for two dispatches; 3 workers, 1 nonce that several receipts may carry.
* ClientSubmission: 22 configurations of mode, policy, token and ranker on 4 nodes that
  differ in key, region, manifest and trust; retries 0 to 3.
* LifecyclePersistence: 2 tasks compete for 1 key, 2 cancelling processes, an
  observer, replay window 2 of sequences to 3 (so the window moves), 2 lives (so a
  task is resubmitted after its purge).
* TicketTrust: 2 writers, 2 verifying threads, 2 tickets that expire at different
  times, versions 0 and 1, one operation of each actor (every pair of an install, a
  recovery and a verification overlaps, and a second one finds what a dead one left).
* BackendHealth: the three kinds of server; drains of 1 and 2 intervals, staleness of 1
  and 2, ages to 4.
* NodeStartup: networks and configurations that reach every rung (`MCNodeStartup`).
* RelayBinding: 2 TCP sessions and 1 HTTP session for 2 workers, 1 ticket, cap 1:
  two sessions of one worker, two workers for one slot, a replayed ticket, and a bind
  on the other transport in every gap.
* RelayForwarding: a plain and a streaming call, a TCP session and the HTTP session
  that follows it, a write buffer of 1 frame (so the second writer queues behind
  `drain()`), an event queue of 1 (so a partial and the final event overflow it and
  change places).
* DirectorySession: no start token (a deferred registration), 2 tasks, 2 endpoint
  changes, 1 network fault or loss of the registration, grace 2, a check every 2 beats.
* ProxyRouting: one request after another over 3 nodes, one unsafe, one with a native
  endpoint, 2 retries, threshold 2, rankings of up to 2 nodes, redundant legs in any order. Two requests at once
  multiply the states beyond TLC's reach with 3 nodes; `RoutingSound` is proved for any
  number.
* PeerGossip: 2 mesh nodes, one that persists, and one that only answers; 1 crash,
  1 lost exchange. `gossip_second_hand` has an expiry of 3 intervals, as 90 s are of 30 s,
  and no lost exchange, so that the crash is the only fault of its trace.
* TunnelWatch: 4 child processes in turn, 2 respawns and 2 failed probes allowed.
* NodeSupervision: two nodes, one with a second, forced instance; 1 fault.
* SelfUpdate: 2 processes, 3 versions, 2 failures, back-off to 2 intervals.

`MaxClock`, `MaxSequence`, `MaxLives`, `MaxMoves`, `MaxFaults`, `MaxTasks`,
`MaxRequests`, `MaxCandidates`, `MaxBinds`, `MaxEvents`, `TtMaxVersion`, `TtMaxClock`, `TtMaxVerifies`,
`TtMaxWrites`, `BhMaxAge`, `PgMaxCrashes`, `PgMaxLosses`, `SvMaxFaults`,
`UpMaxVersion`, `UpMaxFailures` and the number of `Tunnels` bound counters that the
code does not bound; the other constants are parameters of the code.

Deadlock is not checked: in every run some component really may stop, because
every request is answered, a connection is closed, a node is shut down, or the
bounds of the counters are used up.

## Fairness

* TaskAdmission: weak fairness of each request's thread. Its waits are bounded
  (queue time limit, 60 s), and the operating system schedules threads. Nothing is
  assumed of handlers.
* RelayBinding: weak fairness of the bind steps, of the acknowledgement, of a
  lost connection's finalizer and of a removal under way, which the event loop or
  the handler thread goes on to run. Nothing is assumed of workers.
* RelayForwarding: weak fairness of the consumer's thread and of its coroutine, whose
  waits have time limits except `drain()`, and of TCP finding out that a peer has
  left. `CoroutinesEnd` alone also assumes that the worker's loop reads while it is
  connected; `EveryCallAnswered` holds without.
* DirectorySession: weak fairness of the heartbeat loop and of an endpoint change
  under way; every request of theirs has a time limit. Faults are finite.
* ProxyRouting: weak fairness of starting, ending and collecting POSTs and of
  retries: each POST has a time limit and each back-off ends.
* ProxyDiscovery: weak fairness of an answer, a failure or the time-out of the request a
  coroutine waits for (the clients have time limits). Nothing is assumed of what is
  answered.
* TunnelGate: weak fairness of time and of each process's steps; a process may die.
* TunnelWatch: weak fairness of the watchdog thread and of a process that was told to
  end. Strong fairness of a spawn, its URL, and the edge answering for it: the provider
  is outside the node, and `TunnelComesBack` is about what the watchdog does when
  it is not down for ever. Nothing is assumed of which attempt succeeds.
* NodeSupervision: weak fairness of the threads of a process that runs, of the
  supervisor's restart (`Restart=on-failure`, `KeepAlive`) and of the grace period.
  Nobody need start, stop or rotate; crashes are finite.
* SelfUpdate: weak fairness of the loop and of time; strong fairness of the index
  answering with the latest version (it may fail any number of times before). Failures
  of install and reload are finite (`UpMaxFailures`).
* PeerGossip: weak fairness of time, exchanges and bootstrap; strong fairness of
  each `Round(n, m)`, since `random.choice` draws a peer that stays listed again and
  again.
* The other modules state safety only.

## Proofs

All theorems are for every value of the constants, from the `ASSUME`s of the
modules (finiteness of the sets, natural numbers, `None` distinct, configurations the
code accepts). Every safety property that a passing run checks is the conclusion of a
theorem; most are conjuncts or consequences of an inductive invariant that the proof
module defines, and whose preservation is one lemma with one step per action.

* **TaskAdmission** - `SlotConservation` is inductive once tied to the set of
  holders: each action moves a request into or out of `Holders` exactly when it
  changes the semaphore (`Cardinality` lemmas of `FiniteSetTheorems`), likewise
  `Counted`; with the types this is `SlotAccounts`. `NoDuplicateExecution` follows from `DedupInv`: a request past a
  duplicate check still has its nonce or task id in the cache. That rests on one
  modelling assumption, the guards of `ExpireNonce` and `ExpireTaskId`: the TTLs of
  300 s outlast the 60 s a thread waits for its handler (not the handler itself:
  see [Findings](#findings)). `RefusalLeavesNoTrace` is proved with the
  companion that a request under way has not been answered.
* **DispatchAdmission** - `SingleUse` needs `AdmissionInv`: a ticket whose row was
  cleaned up is too old for every reading still pending. It is inductive only if
  `RetentionCoversSkew` (retention at least skew plus the delay between reading
  and transaction), a hypothesis of the theorems. The code has no default for
  `retention_s` and does not compare it with `clock_skew_s`: it is the caller's duty. The refinement follows action by action.
* **LifecyclePersistence** - the event table holds an interval that ends in the
  row's sequence number (`LogMatchesRow`); together with the cancel and observer
  invariants it gives `CancelReturnsItsEnd`, `ObserverGapFree`, `KeysBound`,
  `TablesConsistent` and the refinement. A process about to re-read knows the life it
  worked on and its end; a terminal row can only be purged, and a purge ends that life.
* **RelayBinding** - `EntryHasOwner` and `TicketOneUseUntilExpiry` for both
  transports. While `TcpOnly` holds the event loop's atomicity (`LoopInv`: at most
  one handler is in its synchronous part, and what it has found still holds) gives
  the cap, `AliveNeverDisplaced` and `FinalizerRemovesOwn`, together
  `NobodyElseRemoves`; the induction uses that `TcpOnly` is never regained.
* **RelayForwarding** - `PendingExact` is inductive with `CoroutineStarted`: a
  coroutine exists exactly once its thread has submitted it, on the session it
  found. `ToldTruth` needs `DownFresh` (a call on its way to the worker was sent
  once, on its own session, and has not been started) and `AnswersFromRuns`
  (whatever can become an answer, a future, an event or a frame, belongs to a
  call that was started). `StreamGapFree` needs `StreamInv`: the queue of a stream goes
  on where its consumer is, its last event is the one before `expects`, and what is put
  in after an overflow or a gap is an error in front of everything.
* **DirectorySession** - `MetricsConserved` with the batch's three places
  (pending, in the request, counted), and `RestartOnlyAfterGrace`; together
  `SessionSafe`.
* **ProxyRouting** - `RoutingSound`, from three invariants. `BreakerInv` ties the
  failure count to the open stamp. `RepeatInv` says that every node a task arrived at
  executed it, was given up on or answered an error, and that each that executed it is
  one of these, had its reply discarded, or answered. `RoutingInv` gives `OutcomeIsTrue`
  and `RetryBudget`: a serial request has one coroutine, that of the candidate it has
  come to, and no usable reply so far; the aggregator has kept or still has to collect
  every usable reply; a coroutine has made at most one POST an attempt, and one more
  natively. What the walk over the candidates stops at (`WalkStops`) follows from the
  least element of a set of naturals, taken from well-foundedness, since the
  library's induction theorems cannot be used.
* **CipDispatch** - `SessionBudgetHolds` because the tracker has spent at least the number
  of requests with an envelope, and at most the budget (`BudgetInv`, a cardinality); `AwardsEarned` because an
  award comes of a reply bound to a dispatch that had an envelope (`AwardInv`), and a nonce
  that is not in the replay cache was not forwarded in its window (`ForwardInv`).
* **NativeSession** - `SessionSound` from `SessionInv`: a reader that is not at a frame
  boundary has the rest of a frame to come (`ReaderInv`); events given to the caller
  are those of its call, numbered (`OwnInv`); events written are numbered and the last is
  the terminal one (`ServingInv`); the gate's count is the number of sessions that hold
  it (`GateInv`); and, until a client gives up on a request, the two ends take turns: a
  request is on its way up, or the server works on it, or what is left of its
  answer is on its way down (`LockStepInv`). Without the turns `AnswersMatch` is not
  inductive: a frame carries no id that `call` compares.
* **ClientSubmission** - `SdkInv`: discovered, eligible and tried nodes are each a
  sublist of the one before without repetition, and every send so far went to a
  candidate the loop has left, or to the present one, which was busy. This gives
  `NoResendToSilentNode` and `SentOnlyAsAgreed`. What `Kept` returns (`KeptMembers`) is
  proved by counting positions, not by recursion.
* **TicketTrust** - `NoLostInstall` is inductive once a writer past the lock file is its
  owner (`LockHeld`). `NothingStaleAccepted` needs `FloorBelowHigh` (no bundle that was
  in force is newer than the file's high-water mark), `AcceptedRemembered` (a ticket
  accepted by a call with the cache is in it or has expired) and `ThreadsCarry`, what a
  verification takes along from loading to its answer. Calls without the minimum or
  without the cache interleave freely, and nothing is claimed of them.
* **BackendHealth** - `DrainRunsItsTime` because the drain owed is never longer than the
  one the node keeps; `LiveMeansAlive` because the file is no younger than the node's
  absence, and one that says live was written while the heartbeat loop made progress.
* **TunnelWatch** - `CloseLeavesNoTunnel` from `TunnelInv`: of the child processes nobody
  told to end only the tunnel in use and the one being opened can run.
* **NodeStartup** - `PlaceholderNeverRegistered` from `RouteInv`: what is registered is
  the placeholder only if the variable the guard looks at is, and no rung of
  detection yields it on any network (`DetectionIsElsewhere`). `ServeLeavesNothing` from
  `HolesInv`, an open pinhole is the one the node has noted, and `ChildrenInv`: a rung
  opens a tunnel only while there is none, so that between two rungs there is at most one
  child and the process has its handle.

Only model-checked: the liveness properties `EveryRequestLeaves`, `EveryOpenerProceeds`,
`LostSessionLeaves`, `WaitsEnd`, `TokenHeals`, `ResolutionsEnd`, `RequestsEnd`, `GossipIsMutual`,
`TunnelComesBack`, `EveryNodeReloads`, `SupervisedNodeComesBack` and
`EveryProcessUpdates`, and with them the modules TunnelGate, ProxyDiscovery,
NodeSupervision, SelfUpdate and PeerGossip, of which only such properties are stated. Liveness under fairness,
`ENABLED` and induction over recursive data are outside what the installed provers can
do. The refutations under [Findings](#findings) are behaviours of small instances and
need no proof.

## Findings

Runs in which TLC finds a behaviour of the code that contradicts what a comment
or document says; the quotations are in `PROJECT.json`.

| Run | The code allows |
|---|---|
| `task_inference_cap` | more handlers than `max_concurrent` run, since a timed-out one goes on without its slot |
| `proxy_executed_twice` | two nodes execute one task after a lost reply or an error status |
| `gossip_second_hand` | a peer stays listed past the expiry window although no message has passed between it and the node: being named by another node counts as contact |
| `startup_registers_wan` | a node whose router mapped the port goes on to open a tunnel instead of registering its WAN address |

Observations made while modelling, which the models contain and no run is devoted
to:

* `serve` deregisters with the token it was started with, and not at all if that was
  empty, although the heartbeat loop or an endpoint change may have registered the
  node with another one since (`node.py:2181`): the entry then stays until the
  directory expires it.
* A forwarded call whose consumer gave up stays in the poll queue, and the worker
  executes it for nobody (`relay_session.py:240`); calls pending on a lost
  connection are not failed, but wait out their 120 s (`relay_session.py:117`); one
  worker that stops reading blocks every later call of its session in the write lock,
  since `drain()` has no time limit (`relay_session.py:115`).
* A life that `cancel` ended may be purged, and its id submitted again, before the closing
  `status` of `cancel` (`service_lifecycle.py:592`): the caller then gets the record of the
  new life, which may be accepted. `CancelReturnsItsEnd` has that exception.
* The safeguards of `verify_dispatch_ticket_v2` are optional arguments
  (`dispatch_ticket_trust.py:394`) that no code of the package passes; without them an
  older bundle that `recover` put back is trusted, and a ticket is accepted any number of
  times.
* Two requests pass the cap of an availability window together, since it is
  checked before and apart from the slot (`node.py:1673`).
* A task id's TTL of 300 s ends while its handler still runs; a retry then runs
  beside it (`idempotency.py:38`). The guards of `ExpireTaskId` let this happen.
* With HTTP binds in play, `at_capacity`, the alive check and `bind` are separate
  critical sections: the cap is exceeded, an alive session replaced
  (`node.py:1322`, `node.py:1348`), and a finalizer removes an entry that is no
  longer its own (`relay_session.py:598`). This is why `SessionCap`,
  `AliveNeverDisplaced` and `FinalizerRemovesOwn` are stated under `TcpOnly`.
* A native `call` after a timed-out request returns the answer to that request
  (`iicp_tcp.py:874`). This is why `AnswersMatch` has `gaveUp`.
* A streaming CALL at a full gate is answered `backend_error`, not 429
  (`iicp_tcp.py:706`).
* A half-open breaker lets every concurrent request through, not one probe
  (`proxy/routing/circuit_breaker.py:61`).
* Redundant dispatch ends early only on status `success`, and nodes of this
  package reply `completed` (`proxy/routing/aggregator.py:122`).
* Tunnel: a signal during a rebuild leaves the `cloudflared` child that
  `open_quick_tunnel` is waiting for (`tunnel.py:525`); the lease file is created empty
  and written afterwards, and an empty one counts as expired, so that another process may
  remove it in between (`tunnel.py:294`); the gate
  and the lease are checked apart; removing an expired cooldown file can remove a fresh
  one (`tunnel.py:205`).
* Client SDK: with `max_retries=0` the loop ends in `raise None` (`client.py:765`); a
  body cut off while it is read escapes as the HTTP library's error; a
  `profile_request` goes past the "ticketed" mode; an error on a later ticket
  request discards the routes already granted (`client.py:386`).
* CIP: `trusted_peers` decides only whether an envelope is built, the chain is given
  the unfiltered nodes (`proxy/cip/dispatch.py:110`); a LOCAL decision still sends the
  task to a remote node, without envelope; the budget is charged at dispatch, where the
  docstring of `SessionBudgetTracker` says after the award; `submit_award` spends a
  nonce before it compares the session; the gates accept `majority_vote` with one
  replica, the consumer needs three; a missing reputation is 1.0 in one place and 0.0
  in another.
* Proxy routing: an error status sends the task on to the next node although the first may
  have run it or be running it (`node.py:1802`); the node's 429 carries `IICP-E021`, not the
  `capacity_exceeded` that the retry looks for.
* Proxy discovery: neither client is given a registry or a resolver, so that a redirect to
  any https host is followed and its list taken unverified; a remembered redirect is
  followed without asking the seed, may be renewed by the replica it leads to, and a dead
  replica behind it fails discovery until `Retry-After` has passed
  (`proxy/clients/directory.py:131`); a ticket key is pinned on first use, by whichever of
  two fetches ends last, and never refreshed, so that a rotated key fails every later
  ticket; handlers that miss the cache together each call the directory twice, where the
  header of `peer_cache.py` says "at most one directory call per active intent per 30s".
* Start: the endings `KilledOpening`, `ExitAbruptly`, `TunnelDeadExits` and `Replaced` above
  run no hook and leave the pidfile, all but `TunnelDeadExits` also a running tunnel;
  a port mapping is never deleted; tunnel and pinhole are opened before the
  instance lock is taken; the NAT-4 guard is narrower than `_looks_routable`; the WAN
  address of UPnP is believed even if it is private; the lock's check and its write are
  two steps, and `release` removes another owner's pidfile after `--force`
  (`instance_lock.py:107`).
* Hand-over: `_claim_supervised_handoff_restart` says "Atomically claim" and reads,
  truncates and writes (`cli.py:1354`); a process that dies in between leaves a torn
  marker, which everyone ignores. `EveryNodeReloads` has that exception.
* Updater: an older candidate may be installed over a newer one by a process that read
  the index earlier (the next tick heals it); a status write that fails loses the
  back-off at the next reload.
* Gossip: exchanges are verified with the receiver's own key, so nodes with different
  keys never exchange; a node that does not gossip never prunes; the file is written
  outside the lock (`peer_manager.py:95`).
* Backend health: the heartbeat tells the last observation, not the drain; a loading
  observation may shorten the drain of an unstable one; the snapshot knows nothing of a
  drain, so `healthcheck --ready` says ready during one (`cli.py:950`).

## What is not modelled

* Cryptography, document formats, CBOR, signatures, pricing and scores: pure functions
  over data. Where the control depends on their verdict, the verdict is an input.
* The replica registry, the resolver of keys and the verification of replica answers
  (`proxy/clients/directory.py`): optional arguments that nothing in the package passes.
* Backends (`backends/*`): HTTP adapters without state of their own.
* Lifecycle accounting and distributed ports: value objects and interfaces without an
  implementation in the package.
* The in-memory lifecycle store, the cancellation registry and the observer buffer: they
  repeat the durable store under one lock.
* The commands of `cli.py` besides `serve`, `operator` and `healthcheck`: they print, or
  edit a configuration file; `scripts/`: tools of the release process.
* The UPnP, STUN and HTTP probes themselves, the download of `cloudflared`, and the fallback of
  `/v1/relay` to HTTP peers.

Hazards without a property are listed in `PROJECT.json` with the reason.

## Plan

Done, in this order of importance: task admission, dispatch store, lifecycle
store, relay binding, directory session, native session, proxy routing, relay
forwarding; then client submission, trust store, tunnel, CIP, proxy discovery, start,
supervision, updater, gossip and backend health.

The proofs went the same way, the type invariants and stores first, and now reach every
safety property of the runs.

Next:

1. Safety invariants, with proofs, for the modules that have liveness properties only:
   what the lease and the cooldown of TunnelGate still exclude in spite of the races
   listed above, what a hand-over of NodeSupervision may not lose, which versions
   SelfUpdate may install, and what PeerGossip may list.
2. Replica trust, for clients that are given a registry and a resolver, once the proxy
   builds such clients.
3. The in-memory lifecycle store, shown to implement TaskLifecycle too.
4. The safety parts of the liveness arguments (a request that waits is always one that
   a step can release), which remain after fairness is left to TLC.
