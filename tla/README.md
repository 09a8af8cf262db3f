# A verification project for varlock

varlock loads `.env` files with a schema, resolves the values they describe
(calls to secret managers, commands, prompts), keeps what was expensive in an
encrypted cache, and can run a command behind a proxy that keeps secrets away
from it. This directory holds TLA+ models of the parts whose correctness depends
on the order of events, the TLC runs that check them on small instances, and
proofs checked by TLAPS that hold for every value of the constants.

Paths are relative to `src/packages/varlock/src/` unless they begin with `src/`.

## 1. Inventory

| component | state it keeps | operations | what is hard |
|---|---|---|---|
| **Directory locks** `lib/cache/cache-store.ts` (`withDirLock`) | lock directory and `owner.json` on disk, `heldLocks` and `lockContext` in the process | acquire, judge and steal an abandoned lock, refresh, release, release on a signal, clear | several processes, each file system call a step; crashes, recycled pids, suspended processes, a deadline |
| **Encrypted cache file** `lib/cache/cache-store.ts` (`CacheStore`) | one JSON file, a lock for the file and one per key | get, getOrSet, set, delete, clearAll, clearByPrefix | load and rename are separate, awaits between a judgement and its consequence, expiry |
| **In-memory cache** `lib/cache/in-memory-cache-store.ts` | map, map of calls in flight | the same | awaits between the look and the entry in the in-flight map |
| **Graph algorithms** `env-graph/lib/graph-utils.ts` | local | findGraphCycles, getTransitiveDeps | cyclic graphs, several cycles that share nodes |
| **Environment graph** `env-graph/lib/env-graph.ts`, `config-item.ts` | items with errors, metadata, values | finishLoad, earlyResolve, resolveEnvValues, filtered resolution | items resolve in parallel; several calls one after the other over overlapping sets of items; cycles |
| **Sources, imports, plugins** `env-graph/lib/data-source.ts`, `plugins.ts` | the list of sources | load files, decide which are enabled | need the values of items before the schema is complete |
| **Resolver functions, data types** `env-graph/lib/resolver.ts`, `data-types.ts` | none | evaluate | `forEnv()` resolves another item on its own |
| **Proxy sessions** `proxy/session-registry.ts`, `cli/commands/proxy.command.ts` | one `session.json` per session | create, attach, detach, count, reload, mark ended, stop, prune | read-modify-write from several processes without a lock |
| **Reload channel** `proxy/reload-channel.ts` | one request and one result file | request, poll, answer | a slot of one; deadlines on one side only |
| **Approvals, policy** `proxy/approval.ts`, `approval-grants.ts`, `policy.ts` | rules, standing grants with a lifetime in `grants.jsonl` | match, look up, ask, store, reconfigure | prompts share one terminal; a grant is looked up, given and stored on different sides of awaits; the policy may be replaced meanwhile |
| **Proxy data path** `proxy/runtime-proxy.ts`, `request-transform.ts`, `tunnel.ts` | each request's snapshot of the policy; streams | guard, substitute, scrub, tunnel | rules that overlap on a key or a place; secrets split over chunks |
| **Audit log** `proxy/audit.ts` | a chain of appends | append | failure of one append |
| **Local encryption client** `lib/local-encrypt/daemon-client.ts` | socket, queue of requests | connect, send, time out, retry once, restart the daemon | shared connection, recovery of one call while others wait |
| **Encryption daemons** `src/packages/encryption-binary-rust`, `-swift` | lock file, socket, PID file, idle timer | elect one, listen, announce, serve, leave | several are spawned at once; files of one that died or leaves; a client kills the recorded pid |
| **Child processes** `lib/child-signals.ts`, `lib/exec.ts` | the child, claimed signals | spawn, forward, exit | signals before the child exists or while it exits |
| **Runtime** `runtime/` | secrets to redact | patch console and responses | chunks |
| **Command line, parser, plugins, integrations, editor, docs** | | | adapters around the above |

How they meet: a command line builds an environment graph from sources; its
items run resolvers, which use the cache store (and that the directory locks and
the encryption client); `proxy run` starts or attaches to a session whose daemon
loads the graph again when a reload is requested and gates requests by policy
and approval. Different varlock processes meet in three places: the cache file
and its locks, the session files of the proxy, and the encryption daemon.

What makes each correct:

- locks: two processes never run their critical sections together unless one of
  the events the design accepts has happened; no lock is leaked; orphans are
  reclaimed.
- cache: no update is lost; nobody computes a value that a lock holder has just
  stored; an older value never replaces a newer one.
- graph: a value is computed only from valid values; no resolver runs twice
  without need; errors reach what depends on them; resolution ends.
- sessions: what is served is neither marked ended nor deleted; the record is
  true as long as no write crosses another; what is gone is ended for good.
- reload: every request gets its own answer, and what was answered is in force.
- approvals: a secret leaves only where a rule of the request's own policy puts
  it, after the approval that rule asks for, and no grant outlives its ceiling.
- encryption client: every call settles, and is tried again after a failure that
  can be recovered from.
- encryption daemons: one is elected, its socket stays, and clients do not kill
  it while it serves their build.

`PROJECT.json` lists the components with their status, and under `hazards` every
place in the code where one of these could go wrong in an order a test would
hardly produce.

## 2. Modules

| module | models | of |
|---|---|---|
| `DirLock` | `withDirLock` between processes | `lib/cache/cache-store.ts` 12-256, 596-604 |
| `DirLockProofs` | proofs about it | |
| `CacheMap` | what a cache file promises: an abstract map | |
| `CacheStore` | the operations of the store, step by step | `lib/cache/cache-store.ts` 262-538, 606-656 |
| `CacheStoreProofs` | proofs, and that `CacheStore` implements `CacheMap` | |
| `DepGraph` | closure, cycles, what a cycle check owes | definitions only |
| `GraphUtils` | the two algorithms, step by step | `env-graph/lib/graph-utils.ts` |
| `EnvResolve` | one load of a graph and its resolution | `env-graph/lib/env-graph.ts` 570-1035, `config-item.ts`, `data-source.ts`, `item-filter.ts` |
| `GraphUtilsProofs`, `EnvResolveProofs` | proofs about them | |
| `OneServer` | what the start-up lock promises: at most one server | |
| `DaemonStartup` | daemons between spawn and exit, one system call a step | `src/packages/encryption-binary-rust/src/daemon.rs`, `ipc.rs` |
| `DaemonLifecycle` | client processes that find, replace, spawn, use and kill those daemons | `lib/local-encrypt/daemon-client.ts` |
| `DaemonCalls` | one `DaemonClient` used by several calls at once | `lib/local-encrypt/daemon-client.ts` |
| `DaemonLifecycleProofs` | proofs about both, and that they implement `OneServer` | |
| `DaemonCallsProofs` | proofs about it | |
| `ProxyPolicy` | what the rules say of one request | `proxy/policy.ts`, gates of `proxy/runtime-proxy.ts` |
| `ProxyGate` | requests on their way through the proxy | `proxy/runtime-proxy.ts`, `approval.ts`, `approval-grants.ts` |
| `ProxySession` | the record of a session and the tasks that write it | `proxy/session-registry.ts`, `cli/commands/proxy.command.ts` |
| `ProxySessionProofs` | proofs about it | |
| `ProxyReload` | the reload channel, its servicer and its callers | `proxy/reload-channel.ts`, `cli/commands/proxy.command.ts` |
| `ProxyProofs` | proofs about `ProxyGate` and `ProxyReload` | |
| `MC*` | instances for TLC | |

Composition: `DaemonLifecycle` extends `DaemonStartup` and runs its daemons
beside clients; both implement `OneServer`. `DaemonCalls` looks into one client
of `DaemonLifecycle`, and into its connection attempt as far as other calls can tell.
`ProxyGate` extends `ProxyPolicy`; its `Reconfigure` is what `ProxyReload` calls
`Install`, and the fingerprint `ProxyReload` records in one step (`Record`, or
`RecordFails`) is written by `ProxySession`'s read and rename.
`EnvResolve` and `GraphUtils` both extend `DepGraph`. `EnvResolve`
uses `Closure` and `BreaksCycles` for the two algorithms, and `GraphUtils` shows
that the algorithms have those results. `CacheStore` uses ideal locks; `DirLock`
shows when `withDirLock` is one, and where it is not. A mutant is a definition
whose comment begins with "Mutant": the definition after it with a plausible
mistake, which one of the runs then catches. Nothing else uses it.

### DirLock

One process is one caller of `withDirLock` on one path. `pc` is the next file
system call of the process, and an action is that call and what follows it up to
the next one:

| `pc` | call |
|---|---|
| `wait` | `mkdirSync` (`Mkdir`, `MkdirExists`) |
| `read` | `readLockOwner` |
| `judge` | `statSync`, `isLockOwnerAlive`, the deadline (`JudgeAbandoned`, `JudgeHeld`) |
| `steal` | the rename of `stealLock` (`StealLock`, `StealLost`) |
| `write` | `writeFileSync` of `owner.json` (`WriteOwner`, `WriteOwnerFails`) |
| `cs` | `fn` runs; the timer may touch the directory, a signal may come |
| `rel`, `relmv` | the two calls of `releaseLock`; `sig`, `sigmv` the same from the signal handler |
| `open` | `fn` runs without the lock, after the deadline |

The directory has an owner (none until `owner.json` is written, or for good when
that write fails), an age in three
steps (`Fresh` up to `OWNER_GRACE_MS`, `Old` up to `staleMs`, `Stale`), and a
ghost, its maker. The environment may crash a process at any step, hand out its
pid again, deliver a signal after which the process ends or goes on (as under
`varlock run`, which installs its own handlers), remove the directory with
`clearLocks`, fail the write of `owner.json` while the directory is there (the
`catch` of lines 225-236: `fn` then runs under a lock without a name, which line
194 judges by age alone), and let time pass. `robbed` and `disturbed` are ghosts.

Abstracted: `owner.json` is written in one step, and the recursive removal of
`clearLocks` is one step; an owner on another host is one whose pid reads as
alive; re-entry from the same call stack only runs `fn` and is left out; a
process has one call at a time, so `heldLocks` is a set of processes.

### CacheStore

A process runs one call at a time. An action ends where the code awaits (the
decryption, the encryption, a lock, the producer) or at the rename of
`saveFile`, the only step another process can see. `Load` and `Save` are apart,
and a process may die between them. The key lock fails open (`KeyLockTimeout`),
the file lock throws (`FileLockTimeout`), and what throws is swallowed by `set`
and by the housekeeping of `get` and reported by `delete` and `clearAll`.
Decryption may fail or turn up an entry for another key; encryption, the
producer and `saveFile` may fail. So may every load: `loadFile` returns `{}` on an
error (615-617). A `get` then misses (`LoadFails`); a `set` that loads under the
lock saves its own entry over all others (`TakeFileLockBlind`, `blind`), while
`delete` and `clearAll` find nothing to remove and save nothing. `CacheMap` says
so of the map: `Misread` begins such an update, and `EndMisread` puts one entry
alone or changes nothing.

A value is the number of its production, so that properties can say older and
newer. One time to live stands for all; a time to live of zero or less is
`ProduceNothing`. `delete` and `clearAll` save the contents they loaded even
when they change nothing, where the code skips the save: the file is the same.
`clearByPrefix` removes several keys under the same lock as `clearAll` does.

### GraphUtils

`path` is the recursion of `findGraphCycles` with the neighbors each call has
yet to visit; `visited` and the worklist of `getTransitiveDeps` are as in the
code. The order of the edges and of the roots is arbitrary. `marked` is the
union of the cycles found, which is all `finishLoad` uses of them.

### EnvResolve

`deps` is `dependencyKeys`, fixed during a load; `err` says whether an item has
errors of its schema or of its value; `resolved` is `isResolved`. `stage`
follows the load:

- `load`: the sources may call `earlyResolve`, whose recursion is `early`.
  `LoadFails` ends the load for errors of sources, plugins and decorators.
- `ItemErrorsFound` (the early return of `finishLoad`) or `CheckCycles`.
- `decorators`: root decorators, each with a call of `resolveEnvValues`.
- `caller`: the command resolves all, one item, or a filter's selection, the
  last in up to two calls (`PreEvaluate`, `ResolveMatched`).

A call of `resolveEnvValues` is `keys` (what it was given), `waiting` and
`inProgress` (`itemsToResolveStatus` false and true), and `started`, the calls of
`startResolveItem` the running code has yet to make. Such a call is one action,
split by its outcome (`StartIgnored`, `StartBad`, `StartInvalid`,
`StartTooEarly`, `Start`); `Resolve` is the end of `item.resolve()` with
`markItemCompleted`. Calls of `startResolveItem` run in any order, which includes
the code's; a resolver settles only when none is pending, as the code does not
await between them. An item refers to its dependencies in any order, so an item
with an invalid and a pending dependency may do either.

Abstracted: dependencies on items that do not exist are schema errors; all
resolvers, types and validations are a settling with a value, without one, or
with an invalid one; the decorators of undecided items refer to any of the
items' dependencies. Once `item.resolve()` throws the load has failed and
resolvers still in flight are not followed. Items that use `forEnv()`, and the
warnings about sensitive values, are left out.

### DaemonStartup

A process is a daemon on one socket path. `pc` is its next system call on a
shared file: `open` and `flock` of the lock file and the `stat` that compares
the locked file with the one at the path (`acquire_lock`), the removal of a
stale socket and the bind, the announcement (`running`, the PID file, the ready
line), the accept loop, and on the way out the socket, the lock file, the lock,
and the read and removal of the PID file. Lock files are inodes, so that a
process may lock a file that has been deleted and made anew. A daemon may be
told to stop, hang, or die at any step; files stay, locks go. A new process
gets a pid that no file and no process names.

`owns_files` is the position of a process: it is set after the bind, and only
the way from there through the accept loop deletes anything. The Windows pipe
and the Swift daemon are left out.

### DaemonLifecycle

Each client makes one call of `withRetry`. Its position: `connect` (the socket),
`ping` (which build answers), `verify` (is the recorded process responsive),
`spawn`, `fork`, `await` and `attach` (`spawnAndConnect`, up to two attempts),
`term` and `grace` (`killDaemonProcess`, which returns to `after`), `use`, and
after a failure `probe`, `probeping`, `findpid` (`forceCleanup`). Builds are the hashes of
the binary; the client's is in `wants`. `faults` bounds daemons that hang, die
or idle out, and time outs. A connection may fail
although a daemon listens (`ConnectFails`): the five seconds of `connectToSocket`, a full
backlog; `missed` is a ghost that names the clients whose last try to verify the
recorded daemon failed that way. Left out: a
daemon too old to name its pid, a client that cannot hash its binary, recycled
pids, a process even SIGKILL does not end (where
the comment at line 66 and `forceCleanup`, which leaves the state
files, go different ways), WSL.

### DaemonCalls

A step is one event of the event loop with all the promise callbacks it leads
to. `queue` maps each message without an answer to the socket it was written
to; `socket`, `isConnected` and `connecting` are the fields of the object;
`socks` and `lost` are the sockets with their `close` events to come. A call is
`waiting` for the connection attempt, `sent`, or `probing` in `forceCleanup`.
`connecting` goes through the stages of `doConnect`: `connect`, then `ping`, which
ends with a connection (`PingOver`) or with the replacement of the daemon
(`PongReplaces`, whose `cleanup()` rejects the calls that have written to that
connection: the ghost `cutOff`); or `spawn` and `attach` of `spawnAndConnect`,
which may find a recorded daemon after all (`FoundRecorded`). Its second attempt
differs from the first in nothing a call can tell and is left out.

### ProxyPolicy and ProxyGate

A request is its host, end point, body and marks: places (a header, a query
parameter, a field of the body, the path) where the placeholder of a key
stands. `ProxyPolicy` is `evaluateProxyPolicy`, the keys and targets in scope,
the guards, and the substitution, which rewrites whole surfaces where the
guards count marks one by one.

`ProxyGate` takes each request through `Arrive` (the snapshot of the policy,
and what refuses it at once), the body, the lookup of a standing grant, the
prompt, the storing of a grant, the verification of the upstream, and
`Forward`. `Answer` is a line on the terminal: every open prompt reads it. The
approval must be in time for the request (`Decided`), a grant only in time for
its lookup (`Live`). `Reconfigure` replaces the policy at any moment. `Tick` is
the clock; sixty seconds are `Ttl` units. What a person answers and where a
grant can be read or stored is free.

Left out: the search for placeholders in text (overlaps, percent-decoding), the
parsing of bodies, CONNECT and the tunnel, the cryptography of the transforms,
responses, and self-owned `proxy run` sessions, which deny what asks.

### ProxySession

`rec` is `session.json` reduced to `endedAt`, `attachedPids` and
`schemaFingerprint`. A task reads (`held`) in one step and renames in another,
as `updateProxySessionRecord` and `markProxySessionEnded` do; attaching and
detaching read twice. Tasks: the owner's statistics, its reload, its clean up
(`closing` to `exiting`), each attached run, and one `stop`, clean up or `prune`
command at a time. The owner and the runs may die at any step. `crossed` is a
ghost: some task has written back a record that had changed since it was read.
Every read may find nothing (`FindsNone`) and every write may fail (`WriteFails`,
`AttachmentFails`); `reload` is `unrecorded` after a reload whose policy is applied
and whose update of the record was not made. `Judge` is `isProxySessionAlive`: what it takes for
alive listens, but it may take a listening proxy for dead, by a time out, an error, or
because the proxy is exposed on another address than 127.0.0.1 only; `misjudged` is the
ghost of that. Left out: the rest of the record, recycled pids.

### ProxyReload

The two files hold one request and one result. Ticks of the servicer may
overlap, since `busy` is looked at before the request file is read
(`ServicerTick`) and set after (`Polled`); the keypress does not look at it (`KeyReload`). A reload
loads the schema of the moment, installs its policy and writes the record's
fingerprint in separate steps (`Load`, `Install`, `Record`). A command writes its
request and polls until the result is its own, the owner is gone, or it stops
waiting. The update of the record may fail after the policy is installed
(`RecordFails`: status `error`, or `done` when the record was not found), and so may the write
of a result, which nobody tries again (`ReplyFails`). `upsets` is a ghost: `doubled` says that two reloads
overlapped, `unrecorded` that the last one left an older fingerprint, `unanswered`
that the result of the request in the file was not written. A poll that cannot
read a file is one that comes later and is left out, as is a request that cannot
be written, which its command reports. The specification is called
`ReloadSpec`, and `Commands` are the commands that ask, since `ProxyProofs` extends this
module beside `ProxyGate`, whose `Spec` and `Requests` are others.

## 3. Runs

| run | constants | what it shows |
|---|---|---|
| `lock` | 3 processes, fail open, 1 fault | types; `ExclusionUnlessRobbed`: two holders at once only if one was robbed of its directory; `UndisturbedExclusion`: with crashes and recycled pids alone the lock excludes; `NoLeakedLock`; `OrphanReclaimed` |
| `cache` | 2 processes, 2 keys, clock to 2, 2 productions, 1 crash | types; `AtomicUpdates` (the refinement of `CacheMap`); `ProducesOnlyOnMiss`; `LatestProductionWins` |
| `graph_utils` | all 512 graphs of 3 nodes, all orders | types, `CyclesBroken`, `DepsComplete`, `Terminates` |
| `graph_doc` | the same | violated: a node on a cycle is among its own dependencies |
| `env` | all graphs of 3 items, schema errors, 1 early call, 1 decorator | types, `ReadsOnlyValid`, `RunsOnce`, `ErrorsPropagate`, `NeverStuck` |
| `env_hang` | 2 items | violated: no cycle check after an item error |
| `daemon` | 3 daemon processes, 3 lock files, 2 lock attempts, 2 clients, 2 builds, 1 fault | types; `ElectsOne` (the refinement of `OneServer`); `ServerKeepsSocket`; `RecordedOrMissing`; `StartKillsOnlyLeavers`: a start kills only what has left its socket, or did not accept in time; `ColdStartKillsNone` |
| `daemon_calls` | 3 calls, 3 sockets, 2 faults | types; `OneAttempt`; `NobodyStranded`: no message waits on a closed socket; `LoneCallRetried`: only another call's recovery, or the replacement of a daemon, takes a call its second try; `CallsSettle` |
| `daemon_retry` | 2 calls, 2 sockets, 1 fault | violated: a call that another call's recovery cuts off is not retried |
| `proxy_gate` | 2 requests of 5 shapes, 4 policies of up to 3 rules, 1 reload, clock to 3 | types; `LeaveBeforeSecrets`; `SecretsOnTarget`; `CeilingHolds` |
| `proxy_session` | 1 run, 2 reloads | types; `LiveKept`; `RecordTruth`; `DeadIsEnded` |
| `proxy_reload` | 2 commands, one from the proxied child, 2 ticks, 1 edit, 1 keypress | types; `ReloadTakesHold`; `LatestRequestAnswered` |

**Bounds.** `lock`: a steal needs a dead owner, a waiter that judged it and a
faster one, so three processes and one fault. `MaxFaults` counts crashes, signals,
`clearLocks` and failed writes of `owner.json`; time outs, time passing and recycled pids are not bounded. `cache`: two
processes suffice for every race between a load and a rename or between the two
gets of `getOrSet`, two keys to see another key survive; with a time to live of
1 and a clock to 2 entries expire and are produced again (2 productions). `graph_utils`: three nodes allow two
cycles that share a node and a cycle reached from outside. `env`: three items
allow an item that waits for two others, a chain of length two for the closure, and cycles of length one
to three; one early call may resolve, or fail to resolve, several items before
the cycle check, and `decs` and the filter give up to three calls of
`resolveEnvValues` in a row. `MaxEarly` and `MaxDecs` bound calls, not orders.
`daemon`: a dead daemon's files, one that leaves and
one that starts need three processes; a deleted, a current and a new lock file
three inodes. `LockTries` is 2 where the code has 5: one retry is enough to lock
a file that was replaced and to run out of attempts, and the proofs hold for any
number. Two clients of two builds replace each other's daemon; each may spawn
twice, but a third spawn needs a dead process, so the pool of pids is reused.
`daemon_calls`: three calls let one recover, one be cut off and one come anew;
with two faults the recovery itself meets a failure. `proxy_gate`: with
`Ttl` 1 and the clock to 3 a grant is given, used, and expires (ceilings of 0, 1, 2
and the session; `DefaultGrant` 2) and an approval comes too late; two requests
suffice for a grant of one that the other uses and for a shared prompt. The
policies have a broad rule with approval beside an exempted end point, a rule
with a named field, a transform, a block, both egress modes; requests carry keys on
target, off target, twice and in a header the bare target leaves out.
`proxy_session`: one run, the owner's statistics, its reload and a command cross
each other's writes in every order; the second reload makes up for a record the first
could not write. That two runs lose each other's attachment is the same race as a
run and the statistics, and the theorems hold for any number of runs. `proxy_reload`: two requests overwrite each other, one edit makes an
older and a newer schema, two ticks and the key make three reloads at once; writes
fail without bound.
Symmetry is over processes, items, daemons with inodes, or requests, which no definition tells apart; it is not
used with liveness.

**Deadlock** is checked in the lock and cache runs, and in `daemon_calls` and
`daemon_retry`, where only a client whose calls have all settled rests (`Done`).
The others say `CHECK_DEADLOCK FALSE`. A load and a graph algorithm end; that
resolution does not stop early is `NeverStuck`, and that the algorithms return is
`Terminates`. In `daemon` the clients end, and pids and faults run out. In `proxy_gate`
the requests end; in `proxy_session` and `proxy_reload` the owner is gone and everybody has
had an answer.

**Fairness.** `lock`: weak fairness of each live process's own steps of
`withDirLock`, since the event loop runs its timers; not of calls, of the clock,
or of the environment. Waiters therefore may never reach their deadline, and
reclaiming rests on the check of the owner's pid alone. The property gives way
when the waiter gives up. `graph_utils`: weak fairness of `Next`, a running
loop. `env_hang`: weak fairness of what the event loop does by itself, pending
calls and the settling of every resolver: the violation is no resolver that
never answers. `daemon_calls`: weak fairness of timers, of the events of sockets, and of a
living daemon's answers; not of failures. `proxy_reload`: the owner's timer fires
and its resolvers answer or throw, an owner that closes exits (the clean up has a
limit of four seconds), a command polls; nobody need press a key, edit, or ask, and
fairness of a tick as a whole (`Serve`) promises neither that a load succeeds nor that a
write does.
`proxy_session`: a command or an attaching run that has begun goes on, and
somebody runs a command that cleans up (`status`, `stop`, `prune` and an attaching `run` begin with that)
while there is something to clean up. Strong fairness of finding, reading and
marking says that a command repeated for ever is not kept from the file for ever;
each single try may fail. The owner's own steps have no
fairness: it may stop anywhere, and `DeadIsEnded` begins when it is gone.

## 4. What the violated runs show, and observations

- `env_hang`. Item errors end `finishLoad` before the cycle check
  (`env-graph/lib/env-graph.ts` 715), and callers resolve nonetheless. Items that
  form a cycle wait for each other, and the promise stays pending.
- `graph_doc`. `getTransitiveDeps` documents its result as "not including the node
  itself" (`env-graph/lib/graph-utils.ts` 4). A node on a cycle reaches itself and is
  included: only visited nodes are skipped (11). Its callers add the node anyway, so
  nothing depends on it; `DepsComplete` speaks of the other nodes.
- `daemon_retry`. Two calls wait on the shared connection. One times out, and its
  recovery begins with `cleanup()`, which rejects the other with "Connection closed"
  (`lib/local-encrypt/daemon-client.ts` 444). `withRetry` looks for "connection closed"
  (465), so that call fails in its first try, without the retry the comment at 456
  promises. A connection the daemon closes says "Daemon connection closed" and is
  retried.

The models also have behaviors below, which no property excludes and nothing in
the repository promises to exclude, or which a property names as its exception:

- Locks: two waiters judge the same dead owner; one renames the directory, makes
  its own and enters `fn`; the other's rename then takes the new directory
  (`lib/cache/cache-store.ts` 84-87). `UndisturbedExclusion` and
  `ExclusionUnlessRobbed` show that this is the only way beside the disturbances
  they name. One of those is a failed write of `owner.json`: "without owner metadata the
  lock still works" (235), but a waiter that finds the directory older than
  `OWNER_GRACE_MS` without a name takes it from its live holder.
- Cache: a file that cannot be read for a moment counts as empty (615), and a `set`
  then saves its one entry over all others.
- Cache: `get` finds an expired entry and waits for the file lock; another process
  stores a fresh value; the delete (644) removes it. A cached value is lost, not a
  wrong one returned.
- Early resolution: `earlyResolve` (`env-graph/lib/config-item.ts` 491) calls itself
  around a cycle, which is looked for only later. The runs of `EnvResolve` set `EarlyCycles`
  to `FALSE`: sources ask early only for what is on no cycle. It also runs a
  resolver whose dependencies have failed: `ReadsOnlyValid` is about
  `resolveEnvValues` alone.
- Daemons: the loser of the election says `alreadyRunning` before the winner
  listens, so both attempts of `spawnAndConnect` may fail. A daemon
  that leaves may remove the PID file its successor has just written, hence
  `RecordedOrMissing`. The `close` event of a connection that one call's recovery
  ended comes late, and rejects what the next connection has in its queue. A
  recorded daemon whose socket does not accept within five seconds is killed, although it
  may serve others (`lib/local-encrypt/daemon-client.ts` 652). When a connection turns out to lead to a daemon of
  another build, `cleanup()` (245) rejects what other calls have written to it, and
  these calls are not retried (the spelling of `daemon_retry` again).
- Approvals: an answer after `expiresAt` but before the prompt's own timer is
  refused and leaves its grant all the same. Two open prompts take one line as the
  answer of both. A reload that lowers a ceiling does not shorten grants given
  before (`CeilingHolds` compares with the ceiling at the time of the yes).
- Sessions: a late statistics or attachment write brings back an `attachedPids`
  or takes away an `endedAt` another task has written (`RecordTruth` holds up to
  `crossed`), and makes a pruned directory again; the clean up of a later command
  repairs it (`DeadIsEnded`). The probe of liveness connects to 127.0.0.1 only
  (`proxy/session-registry.ts` 231): a proxy exposed on one other address is
  marked ended by the next command that cleans up, while it serves.
- Reload: a request written between the start of the session and the servicer's
  first read is taken for an old one (`cli/commands/proxy.command.ts` 1260), and its
  caller waits for fifteen minutes. The keypress does not look at `busy`, and overlapping
  ticks can take the same request twice, so an older policy may be
  installed after a newer one was answered with "done" (`doubled`). When
  the record cannot be updated after the policy was installed, the command is told
  "error" and the policy is in force, with the old fingerprint (1072-1082); when
  the record is not found it is told "done". A result that cannot be written is
  dropped (1248), and the command waits for its deadline.

## 5. Proofs

All theorems are about the modules as checked, from the named assumptions on their
constants: `ConstantsAssumption`, `NoDirAssumption`, `NoEntryAssumption`,
`StartupAssumption`, `LifecycleAssumption`, `PolicyAssumption`, `GateAssumption`,
`SessionAssumption`, `CallsAssumption`, `ReloadAssumption` (null values are not in the sets they stand out from; bounds
are numbers; traffic and schemas have their types; a transform names keys and has a scheme; names are finitely many).
`GraphUtils` and `DepGraph` assume nothing, not even that graphs are finite.

- `DirLockProofs`. `TypeCorrect` is inductive as it stands, `NoLeak` with `LeakInv`: a
  call puts its name to a directory after it acquired it, or, when the write fails,
  not at all, and then it removes the directory without a look at the name.
  `ExclusionTheorem` needs `UnrobbedHolds`: a holder that was not robbed is the
  maker of what is at the path, and a path has one maker. `UndisturbedTheorem`
  needs that nobody is robbed, `Quiet`: a directory names its maker or nobody,
  an aged directory is the one every judging waiter has read, whoever is about to
  steal has read a dead process's directory. A directory without a name has its
  maker still at the write, or dead: that is what a failed write ends. `Quiet` is only kept by steps that
  disturb nothing, so the invariant is `disturbed = {} => Quiet`.
- `CacheStoreProofs`. `RefinesMap`: every step is one of `CacheMap` or leaves
  the file alone. It rests on `LockedSection` (the file lock is held exactly
  between load and save) and `SnapCurrent` (what was loaded is what the file
  still holds, up to expired entries, or nothing when the load failed, and an expired
  entry stays expired). The map is in its `misread` state exactly while the holder
  of the file lock is blind (`MisreadHolder`).
- `CacheStoreProofs`, the key lock. `ProducesOnlyOnMissThm` and `LatestProductionWinsThm` need
  both locks. `CallFresh` says what a call that holds its key knows of the file, although the
  file lock is free between its look and its save: before it produces, the entry is
  still missing, expired or one it cannot use, unless it was blind when it looked; before it saves a value, no later production
  under the lock is in the file. Others may write the key in between: calls that
  timed out on the key lock, plain `set`s and deletes. They store nothing that was
  produced under the lock, because the lock is held by one call (`KeySection`), and a
  value knows whether it was (`CallShape`). `OldIds` says productions are numbered in
  their order. `SaveOthers` is the heart: a save by one process leaves the knowledge of
  the lock holder true.
- `GraphUtilsProofs`. The closure of a set contains it, is closed, least and transitive.
  `DepsCompleteTheorem` from: visited nodes can be reached,
  and their edges lead to visited nodes or the worklist. `CyclesBrokenTheorem`
  from `SearchInv`: the path is a path; an edge that was followed leads to a
  finished node, to the next node of the path, or back up the path and then all
  nodes from there on are marked; finished unmarked nodes lead only to finished nodes and are
  acyclic.
- `EnvResolveProofs`. `CallInv`, `ValueInv` and `WaitInv` say what is true of
  the items that are waiting, in progress and completed; in particular a waiting
  item that is not about to be started has a dependency that is waiting or in
  progress. `AcyclicInv` says the valid items have no cycle once the check has
  run. `NeverStuckTheorem` is their consequence: were nothing in progress, the
  waiting items would each wait for another, which no acyclic graph allows.
  `RunsInv` gives `RunsOnceTheorem`.
- `DaemonLifecycleProofs`, the daemons by themselves. `LockInv`: whoever is between `open` and the end of
  `start()` has a lock file open (`OpenFile`), two that hold a lock hold it on two files
  (`OneHolderPerFile`), and from the confirmation until the deletion of the lock file
  the path names the file that is locked (`PathIsLocked`). So two confirmed
  processes would hold one file. `ElectionTheorem` is the refinement of
  `OneServer`; `SocketTheorem` and `PidFileTheorem` follow, since only the elected
  touches the socket or writes its pid.
- `DaemonLifecycleProofs`, with clients. Every step of clients and daemons is a step of
  `DaemonStartup` or leaves it alone (`StepOfDaemons`), so `Composition` carries the
  daemons' theorems over. `StartKillsTheorem` needs `LeaverInv`: a recorded daemon
  has announced itself, and what is about to be killed for a start has been found
  off its socket, which `ServerKeepsSocket` allows only of one that has left, by all
  clients but those that `missed` a daemon that listens.
  `ColdStartTheorem` from `ColdInv`: with one build and no fault no daemon leaves,
  the recorded one serves, and no client comes to a kill.
- `DaemonCallsProofs`. `QueueOK` ties the queue to the sockets: a call is in it exactly while
  it waits for an answer, on a socket whose close event is still to come.
  `ConnOK` and `AttemptOK` tie the shared promise `connecting` to the socket that is
  connecting or whose ping is out; a call that waits does so for a pending promise.
  `SendsOK` bounds the writes of a call by its tries. `LoneCallRetried` is inductive with
  them: whoever is rejected for good is rejected together with, or by, a call in its
  first try, which goes on to its recovery (`RejectKeeps`), or by the replacement of the
  daemon, which another call waits for (`PongReplacesKeeps`). `EventToComeThm` is the
  safety that `CallsSettle` rests on: whoever waits has an answer, a close event, an
  attempt or a ping to come.
- `ProxyProofs`, the gate. `Gate` says what is known of a request at each stage under its
  own snapshot, `Found` that the grant it used was live at its lookup and of its
  key, `LineInv` that every line of the file is within its ceiling. `TargetTheorem`
  adds that marks on target are no more than targets: `GuardsPass` makes
  the map from a key's marks to their targets injective.
- `ProxyProofs`, the reload. `NotYetAsked`: a command that has not asked is in neither file
  and in no reload. `Carried` follows a request through its reload: the schema
  loaded is at least the one on disk when it was asked, and a reply of "done"
  comes after its installation. `Answered` says the same of the result file and of
  who has polled it. `Alone` is the part that needs that no reloads have `doubled`: one reload at a time,
  what it loaded is no older than what is applied, the record is never newer than
  the policy, and differs from it only between `Install` and `Record`, or while it is
  `unrecorded`. `ReloadTheorem` follows;
  `NeverOlderTheorem` and `RequestNotLostTheorem` are about steps. The second is the safety
  half of `LatestRequestAnswered`: the request in the file is new to the servicer, worked on
  or answered, unless its result was `unanswered`. It needs `LastTaken`: unless reloads overlap, the servicer answers the
  request it took last, so an answer for another request replaces one only while
  that request is still to be taken.
- `ProxySessionProofs`. `OpenInv`: while the port is open and no probe has `misjudged`
  it, nobody holds an ended record or is about to write one. `AttachInv`: a run that attaches writes itself.
  `RecordTruth` is inductive with it.

Every safety invariant and action property of the runs is stated by a theorem;
`EventToCome`, `NeverOlder` and `RequestNotLost` are stated by theorems alone. Only
model-checked are the liveness properties `OrphanReclaimed`, `Terminates`, `CallsSettle`,
`DeadIsEnded` and `LatestRequestAnswered` (liveness is out of the prover's reach), and
with them that no run deadlocks where its configuration checks that. The three `violation`
runs are counterexamples of TLC.

## 6. Plan

Done: locks, cache, graph algorithms, resolution, encryption daemons and their
clients, approvals and policy, proxy sessions, reload. In this order next:

1. Proofs: the safety halves of `OrphanReclaimed` and `DeadIsEnded`; that `DirLock` implements
   the ideal locks of `CacheStore` for processes that disturb nothing.
2. `EnvFlag`: `forEnv()` inside `EnvResolve`'s resolution, with the steps of
   `ConfigItem.resolve` apart.
3. `StreamScrub`: the held-back prefix of a scrubbed stream over short alphabets.
4. `ChildSignals`, the in-memory cache with nested calls, the audit chain.

## 7. Not modelled

Parsing, formatting, cryptography, generated types, sandbox profiles, external
services, editor and framework integrations: they keep no state between steps
whose order matters, or their state belongs to programs outside this repository.
They are most of the repository's lines. The modules of the plan above stand for components
that are listed as `not_modelled`, or `partly` where some module exists. What a
modelled component leaves out is said in section 2.

## Running

    tlc -workers 2 -config MCDirLock.cfg MCDirLock
    tlapm DirLockProofs.tla

and likewise for the other configurations and proof modules.
