# A TLA+ model of the DBCP entry service and its operator

The repository holds a user-management application (nginx, an HTTP gateway, a
TCP backend, MySQL, Redis) and a Kubernetes operator that runs it: for every
`DbcpEntryService` custom resource (CR) the operator keeps a ConfigMap, a
Service and a set of raw Pods. This directory models the parts in which several
actors change shared state, checks them with TLC on small instances and proves
their safety properties with TLAPS for all instances.

## The system

| Part | State | Operations | Talks to |
|---|---|---|---|
| Operator reconciler (`operator/internal/controller`) | local variables of one pass, workqueue, informer caches | `Reconcile`: finalizer, ConfigMap, Service, Pods; cleanup on deletion; five-second full sync | API server |
| Kubernetes | CR, ConfigMap, Service, Pods | user edits, kubelet, garbage collector, watches | operator |
| First controller (`cloud_native_entry_task/controllers`) | none between polls | the same reconciliation by polling, with uncached reads; two instances during its own rollout | API server |
| Container (`CRD/docker`) | environment, processes | migrate, start tcpd and httpd, stay with nginx; restarted by the kubelet | ConfigMap, MySQL, Redis |
| Configuration (`internal/config`) | file, environment | load with precedence, validate | every process |
| Gateway (`internal/httpapi`) | the session cookie in the browser | one backend call per request, with a deadline | TCP backend |
| TCP server (`internal/service/tcp_server.go`) | job channel, workers, connection handlers | accept, queue or refuse, execute, respond, shut down | gateway, service |
| Service (`internal/service/service.go`) | none of its own | login, logout, profile, nickname, picture upload and read | MySQL, Redis, disk |
| MySQL store | users with nickname and picture metadata | single statements | service, seed command |
| Redis store | sessions with expiry, pictures by version without | single commands | service |
| Token manager, passwords | secret | issue, verify | service |
| Seed command (`cmd/seed`) | job channel, workers, a count | insert users in batches | MySQL |

What makes it hard to test: the operator acts on caches that lag behind its own
writes, may stop between any two calls, and meets a CR that is deleted and
created again under the same name. Pods read the ConfigMap when they start, not
when they are created. In the application, an upload touches a file, a row and
a cache entry without a transaction, while other requests in other Pods do the
same; a caller's deadline runs independently of the queue and of Redis; shutdown
closes the channel that handlers send on; each process decides once whether Redis
exists, and nothing restarts tcpd.

## Modules

| Module | What it models |
|---|---|
| `EntryCluster` | Kubernetes around one CR: stored objects, users, kubelet, garbage collection, manual changes (external; from the controllers' use of it) |
| `ManagedEntry` | abstract: what both controllers promise of one CR and its objects |
| `EntryOperator` | the reconciler on top of `EntryCluster`; implements `ManagedEntry` |
| `PollingController` | one instance of the first controller on top of `EntryCluster` |
| `PollingRollout` | two instances of it, during a rollout of its Deployment |
| `RemoteCall` | abstract: what a caller of the TCP backend may rely on |
| `TcpServer` | the server and the gateway's client; implements `RemoteCall` |
| `ProfilePictures` | picture upload and read over MySQL, Redis and per-Pod disks |
| `Sessions` | login, logout, `requireUser`, token and session expiry |
| `Users` | the users table: `INSERT ... ON DUPLICATE KEY`, `UPDATE` of a nickname |
| `Seeding` | the seed command |
| `Nicknames` | nickname updates from the gateway's status to the row, over `RemoteCall` |
| `Accounts` | `Seeding` and `Nicknames` on the same table |
| `Configuration` | operators: how a configuration comes about |
| `Container` | entrypoint, migration, tcpd, httpd, nginx and the kubelet's probes |
| `EntryClusterProofs` | lemmas shared by the proofs about both controllers |
| `EntryOperatorProofs`, `PollingRolloutProofs`, `TcpServerProofs`, `ProfilePicturesProofs`, `SessionsProofs`, `AccountsProofs`, `ContainerProofs` | the theorems about the module in their name |
| `MC*` | values of the constants and symmetry sets for TLC |

Operators commented *Mutant* are wrong versions of the definition that follows
them, as a slip in the code would make them. No specification uses them; each
property is known to fail when one of them takes the place of the original.

### The operator

`api` is what the API server stores. `cache` is what the client's `Get` and
`List` return, and `events` the later states the watch has still to deliver, per
kind and in order. A pass is one action per API call (`AddFinalizer`,
`EnsureConfigMap`, `EnsureService`, `ListPods`, `DeleteOutdated`, `ScaleDown`,
`ScaleUp`, `CleanupPod`, ...), with `entry`, `doomed` and `current` for its local
variables. A read from the cache is merged with the call after it: deliveries in
between change neither. Every call can fail (`CallFails`; a call whose answer is
lost is a call that succeeds followed by a failing one), and the process can stop
between any two (`Crash`), after which caches are listed afresh. The controller
has one worker, so passes do not overlap.

The data is reduced to what the controller compares. `spec.config` is one value;
image and resources are another. A spec hash is the tuple of what is hashed, the
token secret is the uid it is derived from, so hashes are taken to be free of
collisions. Labels, names and the namespace are constant for one CR. The mutated
copy of a Service in `CreateOrUpdate` has no cluster IP, hence always differs and
is always written. Left out: foreground deletion, removal of the finalizer by
hand, two leaders at once, an owner reference that cannot be set.

Garbage collection of ConfigMap and Service is not an action here, because
`ChildrenOwned` shows that they never lose their owner.

`ManagedEntry` is what the operator looks like without caches, passes and failures:
a CR that is absent, new, guarded by the finalizer or marked, and who owns which
object. Objects come only for the incarnation that exists, while it is guarded or
marked; an incarnation begins and ends with neither ConfigMap nor Service; objects
may go at any time. Pods may outlive their CR (`operator_stale_cleanup`), so it
promises nothing of their end. The refinement mapping (`Managed` in `EntryCluster`)
reads all of this off `api` and `lastUid`.

### The first controller

`PollingController` shares `EntryCluster` with the operator and differs where the
code does: `List` reads the CR from the API server every poll, nothing is kept
between polls, ConfigMap and Service take a `Get` and then, if they differ, a
`Create` or `Update`, and there are no caches. The CR that a poll works on is still
as old as the `List`. `Malformed` are specs that `parseSpec` refuses and the CRD
lets through: it sets no minimum length for the strings and does not check
quantities. Such a spec ends a poll after the finalizer and does not stand in the
way of deletion. A process that ends and is started again begins with a poll, so
`CallFails` covers it. A request of an ended process that the API server carries
out later is left out, besides what the operator's model leaves out.

The Deployment has no leader election, so while it is rolled out two instances
work on the same CR. `PollingRollout` instantiates `PollingController` a second
time with variables of its own: `NewStarts` begins the rollout, `NewStep` is the
new instance, `OldStops` cancels the old one wherever it is and puts the new one in
its place. Here the garbage collector also takes ConfigMap and Service
(`CollectChild`), since an instance may create them for a CR that the other has
already seen off. An `Update` is accepted when the contents are those that were
read, where the API server compares versions.

### The TCP server

A call, its connection and the goroutine serving it share a name, since the
client dials for every call. `wire` holds the frame under way. `Offer` is the
`select` around the job channel with its three outcomes and, once the channel is
closed, the panic. Workers take jobs in order, call `service.Handle` (`Take`
counts it in `runs`) and put the response in the handler's channel. `Cancel` is
the signal; `AcceptFails`, `CloseJobs` and `ServeReturns` are the way out of
`ListenAndServe`. A caller can leave at any point (`GiveUp`), also with its request
still on the way, which the server then reads and executes. A response can be lost,
because the connection fails or the frame is too large (`Write`). The read has a
deadline (`HandlerReturns`), the wait for a worker has none. Invalid JSON, which this
client never sends, and a queue of size zero are left out.

An orderly return of `ListenAndServe` protects no request: workers hand
`service.Handle` the context that the signal cancels. What that does to an upload
is in `ProfilePictures`, where every statement can fail and a process can end
between any two steps.

### Profile pictures

One user. `row` is path and version, `cache` maps versions to pictures, `files`
is the disk of each Pod: the operator's Pods mount no volume, so a restart empties
it. Whether a Pod caches at all (`caching`) is decided when it starts. `UPDATE` and
the `SELECT` for its result are separate actions, as they are separate statements
on a connection pool; `crossed` remembers that another `UPDATE` came between the
two. A failing `UPDATE` may have been carried out, or may be carried out later, when
its client has given up or has ended (`lateUpdates`, `LateUpdate`); the same holds of
a command to Redis (`lateSets`, `LateSet`). Redis errors in `Save`, `SaveRead` and
`DropOld` are ignored, as in the code, and Redis may lose what it stores
(`RedisLoses`). `Restart` ends one process: its requests are gone, what they had sent
may or may not arrive. Paths are taken to be unique (they hold a nanosecond timestamp).

### Sessions

Time runs in ticks, `Second` of them to a second, so that the truncations in
`Issue` and `SaveSession` matter. Each Pod has sessions or not (`enabled`),
decided by the ping at its start. A `SET` or `DEL` is on its way (`sets`, `dels`)
until Redis carries it out, which may be after the client's deadline. `requireUser`
takes two steps, `Verify` and `GET`, and a logout may come between. Redis may
come back with or without its data. Clocks of different Pods are taken to agree.
A `GET` is carried out when it is answered, and signatures are taken to be
unforgeable.

### Accounts

`Users` is the table, a nickname per user number. `Seeding` is the seed command:
`SendJob` blocks on the full channel, workers take batches, a batch that fails
(or whose answer is lost) is passed over, and the result compares a count with
what was asked for. `Nicknames` is one user with several tabs. Its calls take
the steps of `RemoteCall`, so it rests on what `TcpServer` is proved to implement;
the backend's steps are its own. `Blank` is a nickname that the service refuses,
`Wide` one that passes its check in bytes and not the column's in characters, which
MySQL refuses in its strict mode. An `UPDATE` that fails was carried out, was not, or
still will be (`late`, `UpdateLate`). `UPDATE` with the nickname the row has affects
no row, which the store reports as not found.

### Configuration and container

`Configuration` holds the functions of `internal/config` for the fields that decide
where a process connects, whether it starts and what it lets through; the others
are set in the same way. `DesiredConfigData` is the ConfigMap as the operator
renders it, `Exported` what the entrypoint adds. The setters skip an empty variable,
so a CR without a target leaves the choice to the image's file.

In `Container` the entrypoint takes the environment from the ConfigMap, runs
the migration if told to, starts tcpd and httpd in the background and stays with
nginx. tcpd loads, pings MySQL, pings Redis and creates service and server, and
exits where the code does. A probe goes through nginx to httpd and no further;
three failures in a row end the container. Faults are edits of the ConfigMap,
processes that die and outages of MySQL and Redis.

## Runs

| Run | Checks | Result |
|---|---|---|
| `operator_lifecycle` | `TypeOK`, `EnvMatchesHash`, `ChildrenOwned`, `CurrentPodsKept`, `CreatesForLiveEntry` | hold |
| `operator_recovers` | `ImplementsManagedEntry`, `Settles` | hold |
| `operator_revert` | `EnvSettles` | violated |
| `operator_stale_cleanup` | `NoPodLeftBehind` | violated |
| `polling_rollout` | `RolloutTypeOK`, `AloneChildrenOwned`, `AloneEnvMatchesHash`, `AloneLeavesNoPod`, `AloneNoSurplus`, `AloneManages`, `Settles` | hold |
| `tcp_calls` | `TypeOK`, `PanicOnlyAtShutdown`, `WaitersHaveJobs`, `ImplementsRemoteCall`, `QueuedRuns`, `HandlersEnd`, `Stops` | hold |
| `pictures_requests` | `TypeOK`, `ServesRow`, `AckedKept`, `AgreesUncrossed` | hold |
| `pictures_concurrent` | `CacheAgrees` | violated |
| `sessions_lifecycle` | `TypeOK`, `BackedUntilExpiry`, `RefusedForCause`, `LogoutHolds` | hold |
| `sessions_outage` | `RedisOptional` | violated |
| `accounts_updates` | `TypeOK`, `SeedComplete`, `LatestUpdateWins`, `RefusedNeverStored`, `SeedEnds` | hold |
| `container_starts` | `TypeOK`, `LoadsByPrecedence`, `OperatorDecides`, `ServesMigrated`, `Heals` | hold |

The four violated properties state sentences of the repository's README; the
findings in `PROJECT.json` quote them. For each, a theorem says what it takes for it
to fail.

- `EnvSettles`: the spec goes from A to B and back while the operator restarts
  after writing B's ConfigMap. A Pod labelled with A's hash starts in between and
  keeps B's environment, because only labels are compared. When edits never return
  to an earlier configuration, hash and environment agree (`EnvAlwaysMatchesHash`).
- `NoPodLeftBehind`: the cleanup lists Pods from a cache that has not seen the
  last `Create`. The Pod is left to the garbage collector. The stale List is the only
  cause (`CleanupMissesOnlyUnlisted`). The first controller, which lists from the API
  server, has the property while it runs alone (`AloneLeavesNoPod`), and for the same
  reason it never creates more Pods than the spec asks for (`AloneNoSurplus`).
- `CacheAgrees`: of two concurrent uploads the first reads the version of the
  second and caches its own picture under it, for good. Unless an `UPDATE` comes
  between the two statements of another upload like this, Redis has no other picture
  under the current version (`AgreesUncrossed`) and reads serve what their row names
  (`ServesRow`).
- `RedisOptional`: the fallback to running without Redis exists only at start. Until
  the first fault nobody misses it: a Pod that started without Redis never asks it
  (`RefusedForCause`).

What the passing runs say beyond their names: with two instances of the first
controller at once an object may outlive its CR and a Pod may run with an outdated
ConfigMap, so the `Alone...` properties stop at the rollout; `Settles` does not.
`LatestUpdateWins` counts 404 as success: that is the answer to an update that
found the row as it asked. An update counts as answered only when nothing of it is
still to be carried out; one that was given up on may overwrite a later one.
`AckedKept` is about acknowledged uploads: the row may name a file that is missing,
when the upload was answered with an error and its `UPDATE` was carried out all the
same, or when the file was on a disk that is gone. `OperatorDecides` says which source
decides when the CR names no target; then the image's file can lead a Pod to a
database that is not in the ConfigMap, although the repository's README has Pods use
"the values the controller placed into the ConfigMap". `Heals` leaves tcpd out: one that exited stays away until
nginx or httpd fails, because the probe does not reach it.

### Bounds

Operator: one or two incarnations of the CR, one or two Pod names, at most one
fault per behaviour (of any of the kinds the configuration lists), one or two
undelivered changes per kind, timestamps 0 or 0 and 1. `operator_lifecycle` has the
two incarnations that re-creation needs and lag two, so that a pass can work on
an incarnation that has been replaced; elsewhere lag one lets every cache be stale
at any point of a pass. With two Pod names there is one Pod too many for a spec of
one replica, and none for a spec of two. With one timestamp all Pods are equally
old and any may be deleted first, so `operator_recovers` loses no order of deletion
by it. Two faults in one behaviour, and in `operator_lifecycle` anything but failing
calls and container restarts, are not explored; the theorems cover any number of
faults of all kinds for its properties. The bounds on edits (`MaxRv`) and faults only restrict the
environment.

First controller: one incarnation, two Pod names, and one fault or one rollout in
which the old instance finishes its poll and starts another. There are two specs
that differ in configuration and replicas and one that is refused. The
configuration never returns to an earlier value. `AloneEnvMatchesHash` needs that,
as `EnvMatchesHash` does, for the reason that `operator_revert` shows. The theorems
cover any number of incarnations for the `Alone...` properties.

TCP server: two calls, two workers and a queue of one. A call can be queued while
the other is executing or turned away, both can be executing, and one worker can
leave at shutdown while the other is at work. The proofs cover the safety properties
for any number of calls, workers and places.

Pictures: two uploaders and a reader on two Pods, two uploads, three faults. Two
uploads can cross, or the first can fail and be carried out after the second, with
a late command and a restart besides. More uploads are left to the proofs.
Sessions: two Pods, two tokens,
a life of two seconds in ticks of half a second, time for a token to expire,
two faults: a Pod can restart during an outage of Redis.

Accounts: five users in three batches, so that the last is smaller, a channel
that the sender fills, one worker (as for the TCP server, several are left to
the proofs), two runs of the command with one failed batch, two nickname updates
with one failed statement. The user whose nickname changes is in the last batch.

Container: four images (an unreadable file, an empty one, one with an address of
MySQL, a target for Redis and a weak secret, one with both an address and a target of
MySQL and a negative queue size), six ConfigMaps (three as the operator renders them,
for a CR with both targets and with either one missing, an empty one, one that hides
httpd from nginx, one with a malformed number), two faults.

`CHECK_DEADLOCK FALSE` in all but `container_starts`: a deleted CR, a server that
has stopped and requests that are used up end a behaviour. A container never rests,
as it is probed or started again.

### Fairness

Operator: the worker, the ticker, each watch, and the kubelet and garbage
collector per Pod are weakly fair: goroutines and cluster components that keep
running. Users and faults have no fairness. `Settles` also assumes
`PromptWatch`: from some point on passes start with caches that have caught up. Passes are
five seconds apart once nothing changes, watches deliver in milliseconds. Without
it `Settles` is false in `operator_recovers`: TLC finds a cycle in which a pass creates a
Pod too many because its cache misses the one just created, and later passes delete
too many because their cache still shows a Pod already deleted.

First controller: each instance while it is there, the end of the old one in a
rollout, the kubelet and the garbage collector are weakly fair. `Settles` needs no
further assumption, as there is no cache.

TCP server: workers, connection handlers and the shutdown sequence are weakly fair,
which includes that read deadlines pass and that `service.Handle` returns. Redis calls have an I/O timeout. MySQL calls have no
deadline of their own, only the server's context: a MySQL that never answers would
hold a worker until the signal to stop, and `QueuedRuns` and `HandlersEnd` assume that
it answers.
Callers and the network have no fairness.

Accounts: the goroutines of a seed command that was started (`SeedStep`), which
includes that an `INSERT` returns. Container: the kubelet starts and probes, and
each process gets on with its start; probes are seconds apart, so httpd is taken
not to be found loading three times in a row.

## Proofs

The theorems hold for every value of the constants that satisfies the named
assumptions of the modules: bounds are numbers, special values differ from ordinary
ones, pools are finite and not empty. TLC evaluates the assumptions in every run.
Each module proves an inductive invariant `IInv` (`Invariance`) and its theorems
from it.

**`EntryOperatorProofs`**: `TypeCorrect`, `ChildrenAlwaysOwned`,
`CurrentPodsAlwaysKept`, `CreatesOnlyForLiveEntry`,
`OperatorImplementsManagedEntry`, `CleanupMissesOnlyUnlisted`, `EnvAlwaysMatchesHash`.
`ChildrenOwned` is not inductive. `ensureConfigMap` writes the uid of a CR read
from a cache, so one must know that this CR still exists. `IInv` says that a version
of the CR with finalizer and without deletion mark, held anywhere in the operator
(`Seen`: pass, cache, watch), is of the incarnation that exists and is under its
finalizer (`SeenLiveExists`); that versions are held in the order they were stored,
so that a deletion mark once read is never followed by an unmarked version of that
incarnation (`InOrder`); that the branch of a pass fits the version it read
(`PassBranch`); that no uid is ahead of the counter (`SeenIssued`); and that the
secret in a Pod's hash names its owner (`HashNamesOwner`). Most actions change none
of this beyond `Frame`; the lemmas about them establish `Frame` and `FrameKeepsIInv`
does the rest. The refinement follows step by step: what users, kubelet and garbage
collector do is a step of `ManagedEntry` by itself, what the operator makes is an
`Adopt` or `AdoptPod` because of `SeenLiveExists`, and the last `Update` of a cleanup
is a `Vanish` because `IInv` knows what the pass has deleted by then.
`CleanupMissesOnlyUnlisted` derives `NoPodLeftBehind` from the hypothesis
`CleanupListsAll`: no cleanup starts while the cache misses a Pod of the CR. Then a
Pod of that incarnation is on its way out or still to be deleted (`LeftToCleanup`)
throughout the cleanup, although CR, ConfigMap and Service are read as stale as ever
and any call may fail. `EnvAlwaysMatchesHash` has a hypothesis, `Onward`: configurations can
be ranked so that edits only go up, which excludes the sequence of `operator_revert`.
Then everything that names a configuration of one incarnation is ordered (a Pod's
hash, the ConfigMap it starts with, the versions of the CR a pass may still read,
the stored one), and `OrderInv` says so.

**`PollingRolloutProofs`**: `RolloutTypeCorrect`, `AloneChildrenAreOwned`,
`AloneNoPodLeft`, `AloneCreatesNoSurplus`, `AloneManagesEntry` and, under `Onward`,
`AloneEnvAlwaysMatches`.
The types are those of both instances, in every stage of a rollout. Before a rollout only the instance takes a
finalizer away, at the end of a cleanup, so the CR it listed is there under its
finalizer in every later call of the pass. For `AloneCreatesNoSurplus`, every Pod
that is not on its way out is counted or still to be deleted while `reconcilePods` is
at work (`CountInv`), so a `Create` leaves no more of them than it has counted.

**`TcpServerProofs`**: `TypeCorrect`, `PanicsOnlyAtShutdown`, `WaitersAlwaysHaveJobs`,
 `ServerImplementsRemoteCall`, for any calls, any finite pool
and any queue of at least one place. The invariant says where a call can be
(`CallInv`): `runs` is zero until a worker takes the call, a queued call is not yet
executed, and a refused call is neither queued nor about to be; that no call is
queued twice (`QueueInv`); that a worker has a job exactly between taking it and
replying, and that job was executed once (`WorkerInv`); and that leaving the accept
loop takes the signal (`ShutdownInv`).

**`ProfilePicturesProofs`**: `TypeCorrect`, `ReadsServeTheirRow`,
`AcknowledgedPicturesStay`, `CacheFailsOnlyCrossed`. `Known` are the pairs of picture
and version held anywhere: in the row, in what requests have selected and in commands
still on their way; `Said` adds what requests are about to tell Redis. A step either
leaves the row alone and draws on `Said` (`Quiet`) or is an `UPDATE`, in time or late, that makes a new
version (`Advance`). Versions only grow, so nothing names the version that the next
`UPDATE` makes (`VersionInv`), and all that is said of one version agrees as long as no
`UPDATE` crossed (`AgreeInv`). Paths are given out once, also those whose `UPDATE` is
late, so a failed upload removes nobody else's file (`PathInv`).

**`SessionsProofs`**: `TypeCorrect`, `SessionsLast`, `RefusalsHaveCause`, `LogoutsHold`.
A `SET` carries what was left of the token's life when it was sent, in whole seconds,
so the key ends within the token's last second or later (`SetInv`, `StoredInv`);
`SessionsLast` rests on the arithmetic of that truncation. No `SET` of a token is on
its way once its login is done, so none can undo a logout (`UseInv`). Until the first
fault a Pod with sessions has Redis (`Reachable`).

**`AccountsProofs`**: `TypeCorrect`, `SeedsCompletely`, `LatestUpdatesWin`,
`RefusedUpdatesNotStored`. The count that the seed command compares stands for as
many different rows, because batches that are queued or held start `BatchSize` apart
and do not overlap. For nicknames, the sets of requests that were over when an update
began form a chain, from which one update can be found that stands behind the row
for all that were answered. An update whose statement is late is never over, so it
may be the one behind the row; it was asked for and answered with an internal error
(`LateInv`).

**`ContainerProofs`**: `TypeCorrect`, `LoadedByPrecedence`, `OperatorAlwaysDecides`,
`AlwaysServesMigrated`. What a process has loaded is what
it would load again (`LoadedInv`), and tcpd starts only after the migration of the
database that both read from the same environment (`MigratedInv`). The assumptions
are those on `Files` and `Envs`.

Every invariant and action property of the passing runs is the subject of a theorem.
Only model-checked is liveness (`Settles`, `QueuedRuns`, `HandlersEnd`, `Stops`, `SeedEnds`,
`Heals`),
which rests on fairness and `ENABLED`, out of the prover's reach, and with it that the
cluster settles after a rollout of the first controller.

## Not modelled

- `GET /api/me` and the final count of the seed command read one value and change
  nothing.
- Of the gateway, the cookie's attributes, response headers and JSON decoding; of
  login, the comparison of passwords. These are data without a state that others
  share.
- The limits on the size of bodies and frames: a size is no state, and a frame that
  is too large is one of the ways in which a response is lost.
- Password hashing is a cryptographic computation; that hashes, signatures and
  nonces do not collide is assumed.
- Leader election, TLS and metrics of the operator's manager belong to its library.
- The frontend sends one request per user action; deployment scripts are linear
  sequences of external commands.
- Growth of disks and of Redis with every upload is no property of a bounded
  instance.
