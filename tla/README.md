# TLA+ models of the frp tunnel service

The repository is a small control plane for [frp](https://github.com/fatedier/frp):
a control API on a VPS (`server/`, Go, gin, SQLite) keeps the tunnels of each
registered gateway, and an agent on the gateway (`agent/`) pulls them, renders
`frpc.toml` and runs the `frpc` child process. This directory holds TLA+ modules of
the parts whose correctness depends on order, interleaving and failure, the TLC runs
that check them and proofs that TLAPS checks. Every path below is relative to the
repository's root.

## 1. The system

| Part | State | Operations | Hard because |
|---|---|---|---|
| tunnel mutations, `server/internal/tunnel`, `database/tunnels.go` | table `tunnels` | Create, Update, Delete: several SQL statements each, then a bump | requests interleave between statements; lookups and writes are separate and no UNIQUE index backs them; the bump can fail or never come |
| publish, `server/internal/publish` | – | search for a free subdomain, then Create with a TTL | the search, the second lookup and the insert are three different moments |
| config versions, `database/configversion.go` | one counter per gateway | ensure, get, bump | it is the only thing an agent compares |
| TTL janitor, `server/cmd/control-api/main.go` | a list in memory | every minute: list expired and enabled rows, disable and bump one by one | works through a stale list; a lost bump is never repeated |
| heartbeat and Config handlers, `server/internal/gateway` | `gateways.current_config_version`, status | record the reported version, answer `need_sync`; read the version, then the rows | two statements with writes between them; late heartbeats |
| synchronizer, `agent/internal/sync` | snapshot, trigger channel of capacity one, mutex | `SyncOnce` called at boot, by the loop (ticker, trigger) and by each local publish | callers contend; failures after a partial effect; the fast path trusts a version |
| frpc manager, `agent/internal/frpc/process.go` | `frpc.toml`, child process, mutex | write, verify, rename; kill, wait, start; `Status`, `Stop` | frpc is killed before the new one is known to start, may die by itself or outlive the wait for its end; shutdown races a reload |
| renderer, `agent/internal/frpc/render.go` | none | tunnels → `[[proxies]]` blocks | sorting, sanitizing and skipping interact |
| agent state file, `agent/internal/config/state.go` | credentials, applied version, in memory and on disk | load, set, save | memory and disk differ after a crash or a failed save |
| heartbeat loop, `agent/internal/heartbeat` | – | send the applied version, trigger on `need_sync` | lost and abandoned calls |
| local publish API, `agent/internal/localapi`, `agent/internal/publish` | – | forward to the server, then `SyncOnce`, answer `ok`, `pending_sync` or an error | the answer must be true although another caller may have done the sync |
| registration, `agent/internal/register`, gateway handler | gateways, credentials | allocate an id, insert, show the secret once, save it | lost reply, failed save, racing ids |
| health checks, `agent/internal/healthcheck`, `server/internal/health` | `health_checks` rows | probe, report; upsert, write a transition event | reports race deletes and each other |
| dashboard, event log, auth, configuration, opening the database | – | reads, best-effort log rows, stateless checks | – |

How they interact: an administrator (or a local client through the agent's publish
API) changes a row; the handler bumps the gateway's version; the agent's next
heartbeat carries its applied version and is told `need_sync`, which fills the
synchronizer's trigger; `SyncOnce` pulls version and rows, renders them, replaces
`frpc.toml`, restarts frpc, then marks the version applied in memory and on disk. A
ticker and the boot do the same without being told.

What makes each part correct: every change is announced and every announced change
reaches frpc; a version on record never claims more than frpc was started with; no
older config replaces a newer one; an expired tunnel is withdrawn; a publish answered
`ok` is deployed; names, domains and ports stay unique; every row accepted is served;
one frpc at most serves, and it is the manager's; an agent's credentials work and are
its own; a health row belongs to a tunnel, tells the truth about its target, and its
turn to unhealthy is announced.

## 2. Modules

| Module | What it is |
|---|---|
| `ControlLoop` | one gateway's control loop: handlers, publish, janitor, Heartbeat and Config on the server; boot, loop, publish requests, `SyncOnce`, frpc, state file, heartbeats on the agent; nine kinds of fault |
| `Rollout` | what the loop promises, abstractly: configs change, get announced, the gateway moves forward along them and claims only what it reached |
| `TunnelService` | the tunnels table under concurrent create, publish, update and delete, each statement a step |
| `Render` | the renderer as a function of the pulled list, and its reference definition |
| `RenderListing` | the renderer over a growing list whose order within a second is arbitrary |
| `TunnelRender` | `TunnelService` composed with `Render`: which accepted rows end up with a block |
| `FrpcManager` | the child process, the manager's and the synchronizer's mutexes, callers of `SyncOnce`, shutdown, crash and restart of the agent |
| `Child` | what the manager promises, abstractly: processes that serve come one at a time, each with the config installed when it began |
| `Registration` | `EnsureRegistered` against the Register handler and the gateways table, with several agents |
| `HealthReport` | the probe loop, the reports under way, the Report handler and the health rows, against changes of tunnels and targets |
| `ControlLoopProofs`, `FrpcManagerProofs`, `RegistrationProofs`, `HealthReportProofs`, `RenderListingProofs` | theorems about the module they are named for |
| `ControlLoopPromises` | theorems about what the loop promises to the callers of the API; built on `ControlLoopProofs` |
| `RenderProofs` | lemmas about the renderer: the sort, the loop, the winners; no state |
| `TunnelServiceProofs` | theorems about `TunnelService` and, with the lemmas of `RenderProofs`, about `TunnelRender` |
| `MC*` | instances for TLC |

### ControlLoop

A step is what the code does between two points where another process, goroutine or
machine can see or change its state: one SQL statement (the pool has one connection,
`database/db.go`), one message, one file or process operation. In `ControlLoop` the
lookups that precede a handler's first write are not steps: they read only and at
worst refuse the request. (`TunnelService` has them all.)

* `hist` is the sequence of all states the table went through, and `bumpAt[v]` the
  position of the last change when the version became `v`. Neither exists in the code;
  the code reads the last element only. They let the properties speak of the age of a
  config: `toml`, `frpc.at`, `snap` and `sync[c].at` are positions in `hist`.
* A row is `"unborn"`, `"gone"`, `"off"` (disabled) or an enabled payload, which stands
  for target, domain and port together. `UpdateTunnel` may leave any content,
  because it writes back columns read earlier.
* `mem` and `disk` are the applied version in memory and in the state file; `reported`
  is what heartbeats left in the gateways table.
* `sync[c]` is the progress of one caller of `SyncOnce`: `want` (waiting for the
  mutex), `asked`, `listing` (Config has read the version, not yet the rows),
  `answered`, `write`, `start`, `mark`, `save`; `broken` when the server died under the
  call.
* `SyncReturn` is the return of `SyncOnce` to its caller, whose next statement is part
  of it: main leaves its boot phase, the loop goes back to its select, a publish
  answers.

Faults, each counted against `MaxFaults`: a failed bump, a failed row update of the
janitor, a crash of the server, the agent or frpc, a call given up although the server
may have served it, a config that cannot be written or verified, an frpc that does not
start, a state file that cannot be written. An abandoned heartbeat can reach the server
at any later time (`LateTouch`). `MaxEvents` bounds administrators' requests and faults
together, for a run that would take too long with both at their own limits.

### TunnelService, Render, TunnelRender

`TunnelService` has the statements of `Service.Create`, `allocateRemotePort`,
`Service.Update`, `Store.UpdateTunnel` (which reads again and writes every column),
`Service.Delete`, `resolveDomain` and the bump. The columns no lookup compares and no
property is about (target, enabled, source, expiry) are left out; `domain` and `port`
are what lookups compare and updates change. `undisturbed` and `overlapped` are history
variables: they record whether a request wrote after another had written since it
began.

`Render` keeps what decides whether, where and under which name a tunnel gets a block:
the stable sort (the k-th of the sorted list is the entry with k - 1 before it), sanitizing, the skip of an empty, repeated or invalid entry, and that
a name counts as seen only when its block is written (`AddBlock` is one turn of the loop,
`RenderBlocks` the fold over the sorted list). Names are given by a map to their sanitized
form and a rank (string order). The text of a block is left out.

`TunnelRender` lists the rows of a gateway in one order only: the renderer sorts by
name, and names differ within a gateway in the states its properties are about (the run
`render` checks that the order then does not matter).

### FrpcManager, Child

`ControlLoop` takes a restart of frpc as one step that works or fails. `FrpcManager` has
what is inside: `stopLocked` kills the tracked process and waits for `done`, which another
goroutine closes, for five seconds at most; `startLocked` starts another; both under
`Manager.mu`, which `Status` and `Stop` take too. A process is `"up"`, `"doomed"` (it was
sent SIGKILL and serves no more, but the kernel has not finished with it), `"dead"`
(nobody has waited for it yet) or its slot is `"free"`. `current` is `Manager.current`;
`Running` is what `isRunningLocked` returns, true until the process has been waited for.
Configs are numbers in the order of their issue.

`main` follows `main()` from the signal on: `Server.Shutdown` waits up to five seconds
for publish requests (`Drained`), then `Stop`, then the end, which takes all goroutines
with it but not a child process. `Restart` is the unit's `Restart=always`; systemd
first ends the processes left in the unit's control group. `late` records that a call
entered the manager after `Stop` had returned.

### Registration

`agent[a].pc` is the place in `main` and `EnsureRegistered`; `req[q]` a Register request in
the server: `lookup` (with `n` suffixes tried), `insert`, `version`, `created`, `failed`.
The gateways table is a function from id to secret (the code stores its hash): its
primary key is what decides a race. A fresh secret is one that occurs nowhere
(`NewSecret`), which is what 256 random bits amount to. `spoiled` counts the requests
or results that a fault made useless, so that `FewGateways` can say where superfluous
gateways come from. `emptied` are the agent processes whose registration was answered by
nothing: the code takes that for a success (run `no_credentials`), so `Registered` asks
credentials of every agent but those.

### HealthReport

`snap` is the synchronizer's copy of the pulled tunnels, `agent.todo` what is left to
probe, `agent.checks` the results by name, `rep[r]` a report in the server with the results
left and, at work on one, the tunnel found, the status reported and the one read
(`prev`). A tunnel has an address (host and port), which `UpdateTunnel` can change and
which the agent pulls with the name; `target` is what a probe of each address would find,
and `Probe` asks the address pulled last, whatever the tunnel's address is by then.
`UpdateTunnel` is the PUT that changes the target, `enabled` or both, in either direction,
and the janitor's disable. `Start` is what answers before any tunnel has the address.

History variables: `had` (the addresses a tunnel has had), `was` (what these have been since
the tunnel had them), `owed` (turns to unhealthy less events); and the exceptions that the
properties need: `namesakes` (a tunnel created while its name was still
carried by the agent or a report), `crossed` (deleted under a report about to write),
`blurred` (a previous status that a report got wrong, or an event lost). Names are unique in
this module; `TunnelService` has the requests that see to it, or fail to.

After a PUT the row can show the former address: until the next pull, and from reports under
way even later. That is what the code does (`healthcheck.go:71`), no document denies it, and
`HonestRow` states no more than holds; `Truthful` says that it passes.

## 3. Runs

| Run | Module | Checks | Shows |
|---|---|---|---|
| `publish` | MCControlLoop | TypeOK, DeployInv, PublishOk, NoRollback | two local publishes, loop and boot contend for the synchronizer, with a timeout, a crash or a failed start |
| `faults` | MCControlLoop | IInv, AppliedIsLoaded, ReportedIsLoaded, InSync, Refinement | any two of the nine kinds of fault, with an administrator, a TTL and the janitor |
| `convergence` | MCControlLoop | BumpContract, ExpiredRetired, Convergence | an administrator's updates race the janitor, two requests or one and a fault of agent or network: every change is announced, `need_sync` brings it to frpc, an expired tunnel is withdrawn for good |
| `tunnels` | MCTunnelRender | SerialInv, SerialUnique, SerialBlocks, ExhaustedOnly | three requests on two gateways, two at a time, statements failing or not: duplicates need overlapping requests, without overlap the renderer drops no tunnel that has a route, a port is refused only when none is free |
| `render` | MCRenderListing | ServesWinners, Stable | all lists of up to three tunnels over four names, two of them equal once sanitized and one of which nothing is left |
| `frpc` | MCFrpcManager | IInv, NoStray, RunsInstalled, ExitClean, Refinement, Revived | loop and publish request, any three faults of seven kinds: at most one frpc serves, with the installed file, none after `Stop` unless a call came later, one with the latest config in the end |
| `registration` | MCRegistration | IInv, AccountInv, CredentialsWork, OwnGateway, FewGateways, Registered | two agents of the same name, any fault of seven kinds: credentials held work and are the agent's own, wasted gateways come from faults, everyone ends up with credentials unless answered by nothing |
| `health` | MCHealthReport | IInv, RowsOwned, HonestRow, Announced, Truthful | two tunnels, two addresses, three changes, any fault of six kinds: rows have owners, show what the tunnel's own addresses have been, are announced, and true of the present address in the end |

Runs that TLC must find violated, each a statement of a document or a comment that the
code does not keep:

| Run | Property | What happens |
|---|---|---|
| `lost_expiry` | ExpiredRetired | the janitor's only bump for an expired tunnel fails or is cut off by a crash, and no later tick repeats it (comment at `main.go:149-150`) |
| `duplicates` | Unique | two requests look before either writes (`docs/API.md:149, 151`) |
| `orphan_rows` | NoOrphans | a report that has looked up a tunnel writes its row after the delete; the row stays and is counted (`docs/API.md:172`) |
| `no_credentials` | Credentialed | a 2xx answer to a registration whose body is cut off before its first byte is taken for a success with empty credentials (comment at `register.go:17-19`; `client.go:227, 232`) |

More disagreements that the modules make visible, without a run of their own:

* A bump that fails, or a crash before it, breaks `docs/HANDOFF.md:119-120` ("every tunnel
  create/update/delete bumps") for any change, not only for an expiry: `BumpContract`
  fails as soon as `"lostBump"` or `"serverCrash"` is among the `Faults`.
* The server accepts "-a" beside "a", which the renderer cannot tell apart, so the second
  is skipped with a warning in the agent's log, against `docs/AGENT.md:134`;
  `SerialBlocks` therefore takes names that stay different.
* An update may empty the domain of an http tunnel or the port of a tcp tunnel, which
  `Create` would refuse; such a row has no route, is skipped too, and `SerialBlocks`
  does not count it.
* Config filters on `enabled` only (`gateway.go:196`): until the janitor's next tick an
  expired tunnel is still served, against "enabled, non-expired tunnels"
  (`docs/API.md:82`). In `ControlLoop` this is `Served`, which has no expiry.
* An applied version that could not be saved is never saved: memory already has it, so
  heartbeats are answered `need_sync = false` and syncs take the fast path, against "the
  next heartbeat will re-sync" (`sync.go:108`). In `ControlLoop`: `SaveFails`.
* `UpdateTunnel` reads a row and writes every column back, undoing a concurrent update of
  another one, against "any omitted field is unchanged" (`docs/API.md:165`). In
  `TunnelService`: `ReadRow`, `WriteRow`.
* A sync that enters the manager after `Stop` has returned starts frpc just before `main`
  returns, against "Shutdown: stop frpc" (`main.go:107`): a publish that outlasts the five
  seconds of `Shutdown`, or a loop that had already pulled. `ExitClean` excludes it by
  `late`; systemd ends the process.
* `healthcheck.Run` probes in its own loop, not in a goroutine per tick as its comment
  says (`healthcheck.go:25-26`, `:38`). `HealthReport` follows the code.

Bounds, and why they are enough:

* *one gateway* in `ControlLoop`: no state is shared between two gateways except the
  uniqueness of domains and ports, which is the subject of `TunnelService` (two
  gateways in the run `tunnels`).
* *tunnels, `MaxOps`*: one or two tunnels and one or two admin requests, besides the
  janitor's and the publishers' writes. Every property of the loop relates at most two
  table states (the one a version announces and the one frpc runs); two writes around a
  pull already give the three interesting orders. The proofs of the safety properties
  have no such bound.
* *`MaxFaults`, `MaxEvents`*: two faults for safety, so that a fault can hit the recovery
  from another; one for liveness, after which the system must settle. In `convergence`
  `MaxEvents` is 2: two requests, of which the janitor's expiry can come before, between or
  after, or one request and one fault. Its administrator makes one request at a time; what
  races it is the janitor.
* *three requests, two at a time* in `TunnelService`: a row that exists and two that
  race over it. `PortMax` 2: a taken and a free port, a full range, and an
  explicit port outside it. `Tries` 2 (10 in the code): a first and a last
  candidate.
* *`frpc`*: one loop and one publish request contend for both mutexes; two configs; three
  faults, so that a fault can hit the recovery from another and the shutdown; four slots,
  one more than faults, so that a new process always finds one (`SlotAssumption`).
* *`registration`*: two agents with one slug are the whole contention; three requests leave
  room for one that its agent has given up; four ids and one suffix tried (8 in the code),
  so that a request can run out of tries; seven secrets, more than are ever asked for. One
  fault: with two, the state space is beyond a few minutes.
* *`health`*: two ids over two names, so that a name can be used again; two reports, one
  given up and one waited for; two addresses, one that answers at first and one that does not;
  three changes (create, delete, create again; or create, move, and the old address goes
  down); one fault.
* *deadlock* is checked wherever some process never rests: `ControlLoop`, `RenderListing`,
  `FrpcManager`, `HealthReport`. A server without requests stands still, and their number
  is bounded, so the runs of `TunnelService` and `TunnelRender` switch the check off; so
  does `registration`, which is over when everyone is registered.

Symmetry is used in safety runs only.

Fairness (`ControlLoop`): weak for every request handler's next statement, the
janitor's minute ticker and its list, the steps of a `SyncOnce` that holds the mutex,
the heartbeat ticker and its call, the receive from the trigger channel and the answer
to a publish — all of them goroutines that block on nothing else and calls with a
deadline. Taking the mutex is strongly fair: Go's `sync.Mutex` hands over to a waiter
that has waited a millisecond (starvation mode). No fairness for administrators,
expiry, publish requests or faults. `FairSpec` adds the sync ticker. `HeartbeatSpec`, under
which `convergence` runs, grants the ticker only where heartbeats cannot help, when frpc has
died while its config is current; everything else rests on `need_sync` alone.

`FrpcManager`: the same strong fairness for steps that need a mutex (`SyncStep`,
`MainStep`), weak fairness for the ticker and for the kernel and the waiter of a process.
`Registration`: weak for each agent's loop, which retries for ever, its restart by the
service manager, and each handler; strong for a suffix that hits a free id, since
suffixes are random and requests come back as long as they fail. `HealthReport`: weak for
pulls, ticks and handlers. Nothing forces a change, a request or a fault, and faults are
bounded: the liveness properties speak of what happens once they have ceased.

## 4. Proofs

`ControlLoopProofs` (from the assumptions `DataAssumption`,
`ActorAssumption`, `BoundAssumption` of `ControlLoop`; any sets of tunnels, handlers
and publishers, any number of requests, any faults):

* `TypeCorrect`: the types. They say more than that: no version exceeds the server's,
  and every config on the agent comes from a table state that existed.
* `Inductive`: `IInv` is an invariant. None of the properties below is inductive by
  itself: that a version marked applied stands for a loaded config depends on what the
  call about to mark it has done before. `IInv` states it step by step: later versions
  announce no fewer changes (`BumpInv`); one caller is past the mutex (`LockInv`); what
  it has pulled was listed after its version was assigned (`PullInv`, because Config
  reads the version first); and the pulled, the installed and the running config become
  equal in this order before the version is marked (`OrderInv`); therefore every copy of
  an applied version, in memory, on disk, on the server and in heartbeats under way, is
  a loaded one (`LoadedInv`).
* `AppliedTheorem`, `ReportedTheorem`, `InSyncTheorem` follow from `IInv` alone;
  `NoRollbackTheorem` from `IInv` and one step (`ForwardStep`).
* `RefinementTheorem`: every step of the loop is a `Change`, `Announce`, `Deploy` or
  `Claim` of `Rollout`, or leaves it alone; the abstract history is the table's history
  seen through its enabled rows.

`ControlLoopPromises` (the same constants):

* `BumpContractTheorem` has a hypothesis on the faults: no bump is lost and the server does
  not stop between a row write and its bump. Without it the property is false, which is the
  finding of `lost_expiry`; every other fault is allowed. The argument: each step that
  changes the table leaves its author at its bump (`PendingStep`), for a publish by
  `RequestInv`, which says where the request and its call of `SyncOnce` can be.
* `DeployInductive` and `PublishOkTheorem`, with any faults: `PublishOk` says that the
  running config has the tunnel, whoever loaded it, so it takes an invariant that follows
  the tunnel to the process. `DeployInv` adds to `IInv` that no table forgets a tunnel once
  inserted (`BornInv`), and that the tunnel is in the table when its bump is due, in what
  the current version announces when the answer is sent, in what any version announces that
  the request's own sync reads, and in the running config when the answer is `ok`
  (`PublishedInv`). The fast path is covered by `IInv`: the version it compares with stands
  for a loaded config, which is no older than what that version announces.

`TunnelServiceProofs` (from the assumptions of `TunnelService`; any number of gateways,
names, ports, handlers and requests):

* `TypeCorrect`.
* `SerialInductive` and `SerialUniqueTheorem`: `SerialInv` adds to uniqueness what a request nobody has
  disturbed may rely on (`Trusted`): no row clashes with its own in the fields it no
  longer has to look up. A write disturbs all other requests, so only the writer's trust
  is ever needed to show that the rows stay apart (`PutUnique`). The same invariant says
  how far a port scan has come: every port it has passed is taken (`Scanned`).
* `ExhaustedOnlyTheorem`: an undisturbed scan that gives up is past `PortMax`, so by
  `Scanned` the whole range is taken.
* `SerialBlocksTheorem`, under the hypothesis that sanitizing keeps names apart and leaves
  something of each (which the server does not check, see section 3): uniqueness makes
  every valid row the only claimant of its name, hence a winner, and `Rendered` gives one
  block for each winner; the count is carried over by a bijection from blocks to rows. The
  table is shown to be finite on the way (`TableFinite`).

`RenderProofs`, `RenderListingProofs` (lists of any length, any names, ranks and sanitized
forms):

* The renderer is a fold over a sorted sequence, and the induction theorems of the library
  cannot be used (their parameter is an operator). Induction is done with sets instead: a
  set of naturals that is not empty has a least element (`Least`, from the library's
  well-foundedness of `<`), so a set with 0 and every successor up to n has all of `0..n`
  (`Induct`). With it: the function that `FoldLeft` chooses exists (`IteratesExists`) and
  is the loop (`Loop`), and after k turns the blocks are those of the first valid entries
  of their names among the first k (`Turn`, `Folded`).
* `Places`, `OrderSorts`: counting what comes before an entry gives each a place of its own,
  so the list is sorted and complete. `WinnersAreFirst`, `Rendered`: the first of the sorted
  list are exactly the winners of the reference definition.
* `ServesWinnersTheorem` follows. `StableTheorem`: a permutation of a list without equal
  names moves each entry's predecessors with it (`Permuted`), so the sorted list is the same.

`FrpcManagerProofs` (any callers, processes, configs; `SlotAssumption` is used by TLC
only):

* `TypeCorrect`, and `Inductive`: `IInv` adds to the properties who holds which mutex
  (`LockInv`, `StopInv`) and that nothing serves in the gap between kill and start
  (`GapInv`), which is why two processes never serve together (`Alone`), even when the
  wait for a killed one has run out or the agent has crashed.
* `NoStrayTheorem`, `RunsInstalledTheorem`, `ExitCleanTheorem` follow;
  `RefinementTheorem`: every step is an `Install`, `Serve` or `Lose` of `Child`, or
  leaves it alone.

`RegistrationProofs` (any ids and secrets; finitely many agents and requests):

* `Inductive`: `IInv` adds what a request is entitled to at each place (`ReplyInv`: from
  `version` on, its gateway exists with its secret and nobody holds or makes the same)
  and that an agent waits for a request of its own (`WaitInv`).
* `CredentialsWorkTheorem`, `OwnGatewayTheorem`.
* `AccountTheorem`, `FewGatewaysTheorem`: the bound on the gateways is not inductive, because
  a request nobody waits for has yet to insert its own. `AccountInv` counts gateways and such
  requests (`Orphans`) together against the agents that have, or wait for, a gateway of
  their own (`Owners`) and the faults (`spoiled`); each step moves one unit of this account
  or none.

`HealthReportProofs` (any ids, names; finitely many reports):

* `Inductive`: `IInv` adds that what a report has read is still in the table unless
  another report was about to write too (`Working`), that an entry carried under a
  tunnel's name has an address of that tunnel, and a result a state that one of its
  addresses has been in, unless it is a namesake (`CarryInv`), and that ids
  and names are fresh (`NameInv`).
* `RowsOwnedTheorem`, `HonestRowTheorem`, `AnnouncedTheorem`.

Only model-checked: all liveness (`Convergence`, `ExpiredRetired`, `Revived`, `Registered`,
`Truthful`), since the installed provers do not handle `ENABLED`. Every invariant and every
action property of the runs that pass is proved, `BumpContract` and `SerialBlocks` under the
hypotheses named above.

## 5. Not modelled

* the dashboard and the listings, which only read; the events besides that of a turn to
  unhealthy, which no code reads back; bearer tokens, HTTP envelopes, configuration
  parsing and opening the database, which keep no state that other parts depend on;
* the syntax of names, hosts, domains and TTLs, latencies and messages of probes: pure
  checks or data of one value;
* `EnsureRunning`, which nothing calls, although the comment at `process.go:84` and
  `docs/AGENT.md:123` rely on it;
* time: timeouts are choices, so how long slow probes delay a tick is not said;
* the rows of tunnels that are disabled: they keep their last status, and `Truthful` and
  the code are silent about them;
* a local publish API that cannot listen (`main.go:103-105`): `main` then goes straight to its
  shutdown, as after a signal, and the service manager starts it again; no property depends on
  it;
* a second instance of the agent, and an installation without the service manager.

## 6. Plan

Done: `ControlLoop` with `Rollout` (the system's main promise), `TunnelService`,
`Render` and their composition, `FrpcManager` with `Child`, `Registration`,
`HealthReport`, and the safety theorems of all of them.

1. Proofs: the safety part of the liveness properties, where it has one: which
   version a settled agent reports, that an expired tunnel is off once the janitor has
   passed it, that a registered agent stays registered.
2. Compositions: `FrpcManager` as the implementation of `ControlLoop`'s frpc steps;
   `HealthReport` with `TunnelService`'s deletes.
