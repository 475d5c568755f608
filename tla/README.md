# A TLA+ verification of zlux-server-framework

The Zowe application server is a Node.js program: a master process forks
workers, each worker runs an express web server with plugins, and what the
workers must agree on (sessions, plugin storage, dynamically added plugins)
lives in the master or in the API ML caching service. This directory holds TLA+
models of its parts, TLC configurations that check them on small instances, and
TLAPS proofs of the properties that matter most for every instance.

`PROJECT.json` lists, for every definition, the lines of the source it
translates; for every run its module, configuration and properties; for every
property a plausible bug ("mutant") that breaks it; the hazards of the code
that the properties are for; and the theorems.

## 1. Inventory

| Part | Source | State | Operations | Talks to |
|---|---|---|---|---|
| Cluster manager, master | `lib/clusterManager.js` 100-467 | `workersNum`, `workers[]`, `workerResourceRequests`, `nodeStates`, `stoppingProcess` | fork, exit listener, resize, reload, notify, remember/restore, local calls | workers over IPC |
| Cluster manager, worker | `lib/clusterManager.js` 468-741 | message index, pending listeners | boot, report CPU and readiness, remote calls, notifications | master over IPC |
| Session store | `lib/sessionStore.js` | `sessions` Map, `sessionsQueue` | get, set, touch, destroy, clear, cleaner | express-session in each worker; the master by remote call |
| Plugin storage | `lib/pluginStorage.ts`, `utils/mergeUtils.js` | per-plugin dictionaries, in the worker and in the master | get, set, delete, getAll, setAll, deleteAll, merge at start | master by remote call |
| API ML storage | `lib/apimlStorage.ts` | key/value pairs in the caching service | the same, over HTTP | caching service |
| Plugin loader | `lib/plugin-loader.js` | `plugins`, `pluginMap`, scanner | read definitions, check requirements, install, add dynamically | dependency graph, language managers, server |
| Dependency graph | `lib/depgraph.js` | import graph | add, reject broken, sort | plugin loader |
| Server | `lib/index.js` | loading counters, loader, web app | start, load plugins, submit a plugin | all of the above |
| Authentication | `lib/webauth.js`, `lib/auth-manager.js`, `plugins/sso-auth`, `plugins/internal-auth`, `plugins/trivial-auth` | `req.session` (per-plugin state, expiration) | login, refresh, logout, status, password reset, the middleware | session store, agent (ZSS), API ML |
| Web application | `lib/webapp.js`, `lib/webserver.js`, `lib/proxy.js` | routers, proxies | routing, proxying, websockets, TLS | everything |
| Configuration service | `plugins/config/lib/configService.js`, `jsonStreamer.js` | files in the product/site/instance/group/user scopes | GET, PUT, DELETE of resources, override aggregation | file system |
| Terminal proxy | `plugins/terminal-proxy/lib/terminalProxy.js`, `ssh.js` | websocket, host socket, buffers, counters | connect, relay, close, handshake | 3270/5250/VT hosts |
| Language managers | `lib/javaManager.ts`, `tomcatManager.ts`, `jarManager.ts` | ports, servers, child processes | register, start, stop | processes |
| Process manager | `lib/process.js` | children, cleanup functions | end the server on signals and uncaught exceptions | language managers |
| API ML registration | `lib/apiml.js` | connection, retries | agent check, register, heartbeat | Eureka, agent |
| Utilities, command line | `lib/util.js`, `utils/*` and others | none that lasts | parsing, formatting, reading | - |

What is hard, and so worth a model:

* *Concurrency without threads.* Every process runs one event loop, so a handler
  is atomic, but exits, messages, timers and remote calls interleave freely
  between handlers, and handlers read shared tables (`workers[]`,
  `workersNum`, the session Map, `pluginMap`) that changed since the event
  they answer happened.
* *Failure.* A worker may die at any point with messages in its pipes in both
  directions; it restarts with nothing but what the master replays.
* *Time-outs.* A remote call is given up after one second while the master may
  still carry it out.
* *Bounded resources.* The pool limits, the vote window and the session limit
  are enforced by queues with overridden `push` functions.

What makes each part correct: the pool keeps its limits and its slots; failed
workers are replaced; nothing a restarted worker needs is lost; the store is
bounded and consistent with its queue; no request loses an answered write;
every request ends; plugin storage is an atomic map for those who call it;
plugins are installed once, after what they import; a session is authenticated
only between login and logout or expiry; a file of the configuration holds what
was written last, and a read sees the chain of scopes; a terminal relays bytes
in order and both its ends are closed. For the parts still to come: a port is
given to one server.

## 2. Modules

| Module | Contents |
|---|---|
| `ClusterManager` | the master and the life of its workers |
| `MCClusterManager` | its TLC instance: `MCClusterPool.cfg`, `MCClusterRestart.cfg`, `MCClusterClosed.cfg` |
| `ClusterManagerProofs` | type correctness, the inductive invariant, eight theorems |
| `SessionStore` | the session store, the remote calls that reach it, and the requests that use it |
| `MCSessionStore` | its TLC instance: `MCSessionStore.cfg`, `MCSessionLiveness.cfg`, `MCSessionCallback.cfg` |
| `SessionStoreProofs` | type correctness, the store's invariant, the way of a session's contents; four theorems |
| `StorageService` | abstract specification: maps, and operations carried out one request at a time |
| `PluginStorage` | a plugin's storage in the worker, the master and the caching service; implements `StorageService` |
| `MCPluginStorage` | its TLC instance: `MCPluginStorage.cfg`, `MCStorageDelete.cfg` |
| `PluginStorageProofs` | type correctness, the invariants of calls and of `setAll`, the refinement; three theorems |
| `SshSession` | the client side of an SSH connection, as operators on the session (`ssh.js`) |
| `TerminalProxy` | a websocket, the host's sockets and the SSH server around it; extends `SshSession` |
| `MCTerminal` | its TLC instance: `MCTerminal.cfg` |
| `TerminalProxyProofs` | the connections, type correctness, the order of packets, the way to the shell; six theorems |
| `TerminalDataProofs` | the user's and the host's data; two theorems |
| `ConfigService` | REST requests on one configuration resource, one file system call a step |
| `MCConfigService` | its TLC instance: `MCConfigService.cfg` |
| `ConfigServiceProofs` | names and files: `percentEncode` is injective, type correctness, what the files hold; three theorems |
| `ConfigRequestProofs` | requests that are left alone, conditional PUTs and deletions, what reads answer, how often requests are answered; three theorems |
| `WebAuth` | login, refresh, status, logout and service requests of one browser |
| `MCWebAuth` | its TLC instance: `MCWebAuth.cfg` |
| `WebAuthProofs` | what requests and sessions are, type correctness, expired sessions, what the user may rely on; five theorems |
| `DepGraph` | the dependency graph as operators, with a reference definition |
| `PluginLoader` | reading, installing and serving plugins in one worker; extends `DepGraph` |
| `MCPluginLoader` | its TLC instance: `MCPluginLoader.cfg` |

### ClusterManager

State. `workersNum`, `workers` and `workerResourceRequests` are the master's
variables of these names; `pluginDefsMap` is the state it remembers for
`addDynamicPlugin`; `stoppingProcess` and `masterExited` say that SIGINT was
seen and that `process.exit` was reached. `proc` is the sequence of all
processes ever forked: status, exit code class, the flag
`__workerInitialized` the master keeps on the worker object, the dynamic
plugins of its loader, and its two pipes. `workers[w]` names a process by its
place in `proc`, as the code's array holds a reference to the worker object
that was forked last into the slot.

Actions. One per handler: in the worker `Boot` (`createProxyServerWorker`),
`ReportCpuUsage` (the ten-second timer), `NewPluginSubmitted`,
`RequestReload`, `HandleNotification`, `End` (`endServer`), `Fail`; in the
master `HandleExit` (the listener of `startWorker`), `HandleReportInitialized`,
`HandleAddDynamicPlugin`, `HandleReloadAllWorkers`, `HandleReportCpuUsage` (with
the overridden `push`, `moreWorker` and `lessWorker` inside it), `SigInt`.

The CPU percentage is abstracted to the vote it leads to (1, 0, -1). What a
plugin definition contains is abstracted to its identifier.

History variables: `regrown` (slots reopened before the master was done with
the process closed in them) and the field `closed`. The first delimits the one
known way in which a worker can be forgotten, see the finding below; the second
only serves the run that shows it.

Assumptions. A message to a process that is gone is lost; a pipe is FIFO; what
a reaped process still had in its pipe is read before a process forked later
has started (`Drained`); `endServer` completes (the language managers' promises
are not modelled yet).

### SessionStore

State. `sessions` and `sessionsQueue` are the fields of the master's store;
`toMaster` holds each worker's remote calls in order, `replies` the answers that
a listener waits for; `req` is the state of each HTTP request: its worker, its
session id, the copy of the session it works on and the call it waits for. A
session's contents are abstracted to the number of the write that produced
them, and `lastTouch` is kept because the cleaner reads it.

Actions. `HandleCall` is one remote call in the master (the store's methods
are synchronous there); `Clean` is the cleaner's timer; `Arrive`, `Loaded`,
`End`, `EndUnsaved` and `Respond` are express-session as `lib/webapp.js`
configures it (`resave: true`, `saveUninitialized: false`) with
`createSession` of the store; `Regenerate` and the destroying variant of
`End` are `lib/webauth.js`; `Timeout` is the one-second limit of a remote call
and `Crash` the end of a worker. express-session is not part of the repository:
the definitions that only it justifies are marked external.

In the master the session's cookie came over the IPC channel as plain data
without `maxAge`, so only the cleaner's second test (a week without a touch) can
hold, and a session that was never touched has no `lastTouch`, with which every
comparison is false.

### PluginStorage and StorageService

State. `local` and `cluster` are the dictionaries of the workers and of the
master, `ha` the plugin's keys in the API ML caching service. `op` is what each
caller does: one operation of the plugin in each worker, and beside it the
start of the worker's `PluginStorageFactory`, which gets the master's
dictionary and then merges its own into it. An operation is the sequence of
requests it comes down to (`setAll` at the caching service is a `clear` and a
`put` for each key). `toMaster` and `replies` are the IPC messages,
`messageIndex` the counter that pairs them, `orphans` the HTTP requests whose
sender gave up or ended. `alone` and the field `writes` are history variables
for `SetAllNeverMixes`.

Actions. `Start`, `Operate`, `TakeReply` in the worker; `HandleCall` in the
master; `GiveUp` is the time-out of a remote call, which resolves the promise
with nothing, or ends the server for `getStorageAll`; `HandleHttp` is the
service (the request or its answer may be lost), `TakeHttp` what follows the
`await`, `HandleOrphan` a late request; `Crash` the end of a worker.

Abstraction. `StorageService` knows callers, maps and requests, but neither
messages nor processes: a request of an open operation is carried out once at
some instant, in order; an operation resolves after all its requests were
carried out and returns what the map held then; only operations that were
given up, rejected or ended may be carried out late or in part. The mapping
takes as not yet carried out what is still in a pipe or not yet handled by the
service, and as an operation's answer the one on its way to it.

Assumptions. As in ClusterManager, what a former process of the slot sent is
read before its successor starts: the answers go to `workers[wi]`, and the new
process counts message indexes from 0 again. The values of `deepAssign` are
not nested. A plugin uses one shared
location, which loses nothing because the two have no state in common.

A fact a reader may not expect: `get` and `delete` of the dictionaries test the
value and not whether the key is there (`pluginStorage.ts` 212, 267), so a key that
holds `false`, `0` or `""` is not found and not removed. The model has this (`Falsy`);
the run and the refinement are about values that are not falsy, since with others
the storage does not implement the map.

### SshSession and TerminalProxy

State. `ws`, `kind`, `conn`, `cur`, `awaiting`, `buffered`, `open` and `ssh` are
the proxy's `readyState`, `usingSSH`/`usingTLS`, `hostConnected`, `hostSocket`,
`awaitingCertificateVerification`, `bufferedHostMessages`,
`openTerminalConnections` and `sshSessionData`; `socks` and `listeners` are the
sockets it made and how often `connectHandler` added its listeners to each.
`net` and `stream` are what is under way to and from the host, `srv` is the SSH
server. `seen` is history: what was typed, shown, and which of the exceptions
named in the properties has happened.

Actions. One per callback: the websocket's messages and its end, the sockets'
`connect`, `data`, `error` and `close`, and those of the user and the host. In
`SshSession` a packet's handler is an operator from a session to a session with
the packets it sends and the messages for the user; `TerminalProxy` applies them
to each packet a chunk completes.

Abstraction. A packet is a number of units, and TCP cuts the stream between
any two; packets are told apart by their message number and one field; MACs and
ciphers are abstracted to the sequence numbers and keys both sides must agree
on. The server is external and honest: it follows RFC 4253/4254 in what it
sends, its channel has number 0, and it ignores a second user authentication.
A proxy makes at most one SSH connection, and a second CONFIG asks the same kind
of host. No certificate's fingerprint is ever recorded
(`outstandingCertFingerprint` is not assigned), so only an answer without a
fingerprint is taken. Left out: cryptography, Base64, additional handlers
(`scanAndImportHandlers`) and counters per terminal type. A cut within a unit is
not modelled: `readSSHv2PDUData` compares the length of a clear packet without the
4 bytes of the length itself (1349), and `readUInt32BE` throws on fewer than 4
bytes at a packet's start (1346).

What the properties leave out is what the code does: the window adjustment that
`processEncryptedData` writes for a chunk (370-381) goes out within a key exchange
too, since unlike `sendSSHData` (322) it does not look at `isKeyExchanging`. RFC
4253, 7.1, forbids that; the modelled server reads it all the same (`serverReads`),
and `ProtocolKept` exempts it: the property is about all other packets. Data held back for the
certificate prompt is handled last chunk first (`pop()`); a keystroke before the
host's SSH version goes out unencrypted; from the second CHANNEL_SUCCESS on the
primary channel is `highestChannel`, which may not exist; a key exchange between
login and channel makes the confirmation unexpected; a chunk of clear text that
ends within its second packet is put together wrongly.

### ConfigService

State. `inode` and `link` are the file system (files, and what the paths name),
`dir` the directories with the times they were modified at; `req` holds each
request with the place it has reached. `store` says what was written last
under each scope and name: the specification the files are compared with.
`torn` is history: files two writers had open at once, or whose write failed.

Actions. Each call of `fs` in a handler is an action, so that requests interleave
at every one: `open`, `read`, `write`, `unlink`, `readdir` and so on (open with
fstat, and a read with close, are merged; so is `determineResource` and
the making of folders). GET of an element and of a folder, PUT, DELETE of an
element, of a folder's files and of a whole folder are followed to the answer.

Abstraction. One leaf resource of one plugin; a scope's place in the chain is a
number; a body is an object of two properties, one of them a list. The policies
are `none`, `override` and `binary`; `merge` is not reachable over REST. File
names are percent-encoded as the code does it. Groups are not used by the code.

Facts a reader may not expect: the code throws `ZWED0057E - Timestamp mismatch`
and compares with `Timestamp mismatch`, so a stale `lastmod` is answered with 500,
not 400; the comment at 1750-1753 takes a folder's modification time for that
of its files, which rewriting does not change; a GET of all items under `override`
answers the narrowest file of each whole, since the visitors override the objects
`{data, maccess}` and not what is in them (finding `config_collection`), and
`ReadsRight` takes that for right; `webapp.js` 361 asks for the allowed plugins with
`plugins.location`, which is undefined, so their file in the plugin's defaults is
never read (the model's `getAllowedPlugins` is for a caller that gives the
location). A recursive deletion makes the leaf directory in the model, not
in the code, where it deletes nothing more. Left out: errors other than a
write that fails, directories in the place of files, a failing `open` other than
ENOENT, `getServiceConfiguration` and `getPluginConfiguration`, dead code.

### WebAuth

State. `sessions` is the session store (with the zlux expiration time and the
authenticator's state), `browser` the cookies of the browser, `req` the requests,
each with the copy of the session express-session gave it. `conf` says whether
ZSS, the API ML gateway or both are there, and whether HA mode is on. `expect`,
`refused` and fields of `req` are history. A request is `mixed` when a login,
refresh or logout was among the requests it overlapped, or one that was mixed itself:
then the copies of the session that are under way may differ. Without the last
part `ExpiredForGood` is not true: in six requests of which two overlap, a service
request takes its copy after a refresh and saves it after the refusal of an older
copy. `refused` ends with a renewal, and with the restoration from the token.

Actions. `Send` and `receive` are the browser; `authBegin`/`authEnd` are
`_authenticateOrRefresh` before and after the authenticator's promise, and
`logoutBegin`/`logoutEnd` the same of `_doLogoutInner`; `middleware`, `restore`
and `authorize` are a service request with the restoration of a session by token;
`Finish` is express-session's save. ZSS and the gateway may accept, refuse or
fail. `Tick` is time: tokens end, sessions expire.

Abstraction. One authenticator, that of single sign-on, in one category; no
passwords or user names; times are small numbers. express-session is external:
with `resave` every request saves its copy, and `req.session.id = null` is
ignored, so a session logged out is saved again without contents.
Left out: several authenticators, password reset, `semiAuthenticated`, names of
RBAC profiles, headers for proxies.

Facts a reader may not expect: a login or refresh that fails renews
`zlux.expirationTime` all the same (`webauth.js` 390), so that with ZSS alone an
expired session is served again; the restoration adds the current time to what is a date already;
ZSS's timeout header `-1` is text, `now + "-1"` is no number, and such a session
never expires; the restoration destroys a session that a login has just
saved under the token's name.

### DepGraph and PluginLoader

State. `plugins` is `this.plugins` in the order of registration, `skipped` the
plugins registered as an empty entry (authenticators nobody requested), `dynamic`
those added by POST or by another worker; `envComps` whether the agent's
capabilities are known. `batch` holds the start, scans and refreshes with
what each has read; `queue` the events `pluginFound` not handled, `pluginCount`
and `messageIssued` the handler's variables; `routers` and `listed` are the web
application's. `def`, `dir` and `agent` describe the disk and the deployment.

Actions. `loadPlugins` (the start), `readNewPluginDefs` and `readDone` (a scan or
refresh reads), `installPlugins` (after the wait for the agent, if its
capabilities are not known yet), `addDynamicPlugin`, `pluginFound` (with
the installation in the web application and `handleIfComplete`), and
`Repair`, an administrator who adds a plugin's files or mends its definition.
What can be wrong with a plugin is its `fate`.

`DepGraph` holds `processImports`: links that are validated until nothing
changes, the depth-first search that rejects importers of broken links, and the one
that sorts. Versions are abstracted to "found", and to whether an import has been given
its version: assigning it in a plugin that is frozen already is an exception. The
reference is `Installable`, the largest set of plugins in which every import
names a service of a member, and `Circular`. The search is a RECURSIVE operator,
so nothing is proved in these two modules.

What happens, and the properties allow: a plugin a scan registers before the server
listens to `pluginFound` is never served; a plugin added dynamically is
registered and not served (`pluginAdded` has no listener), and if it has an
import, every later batch throws; a plugin whose import fails in the web
application stays registered and is not tried again; a refresh is never answered when an
environment variable of a definition is not set, when its batch throws, finds
nothing left to install, or is the first to be complete; and it may be answered
by the end of another batch. Left out: parse errors at the start (such a
definition is dropped without an event), an unreadable plugins directory, router factories
that never settle.

## 3. Runs

| Run | Bounds | Shows |
|---|---|---|
| `cluster_pool` | 1 to 2 workers, delay 1, 5 reports, 1 reload, no failures, no plugins | `TypeOK`, `PoolWithinLimits`, `ClosedSlotHasNoWorker`, `OneWorkerPerSlot`, `ResizeNeedsUnanimousWindow`, `NoRestartWhileStopping` |
| `cluster_restart` | 2 workers, 2 failures with any exit code, 1 plugin submitted | `RememberedPluginsReachWorkers`; liveness `FailedWorkerReplaced`, `PluginsInstalledEverywhere` |
| `cluster_closed` | as `cluster_pool`, smaller | the counterexample to the comment "closed legally" |
| `session_store` | 3 sids, 2 workers, 3 requests, limit 2, one tick, one time-out, one crash | `TypeOK`, `StoreBounded`, `NoStaleEntries`, `AnsweredWritesKept` |
| `session_liveness` | 2 requests, limit 1 | `EveryRequestEnds` |
| `session_callback` | as above | the counterexample to "Required, callback" at `get` |
| `plugin_storage` | 2 workers, 2 keys, 2 values, 2 operations, 1 fault | `TypeOK`, `SetAllNeverMixes`; refinement `ImplementsService` |
| `terminal_proxy` | telnet, TLS, prompt, SSH; 2 connections (1 over SSH), 2 keystrokes, 2 pieces of data, 1 new key exchange, 1 channel request, 1 failed login, window 14, packets of 3 units at most | `TypeOK`, `ConnectionsCounted`, `NoSocketLeft`, `HostDataExactlyOnce`, `InputsExactlyOnce`, `ProtocolKept`, `SessionSurvives`, `ShellChannelKept` |
| `config_service` | 2 requests, 2 names, 2 bodies, 3 policies, 12 initial stores, 1 failing write | `TypeOK`, `FileWhole`, `ReadsRight`, `NoLostUpdate`, `AnsweredOnce` |
| `config_collection` | 1 request under `override` | the counterexample to "aggregated with broader scopes" at `configFileOverrideVisitor` |
| `web_auth` | 4 requests, 1 of them overlapping, 3 ticks, tokens that end or not, 3 deployments | `TypeOK`, `SessionKept`, `SuccessIsAuthenticated`, `ExpiredForGood` |
| `plugin_loader` | all 9720 graphs of 3 plugins with up to 2 imports each at the start; 4 graphs with one plugin that is not fine, and a refresh with a scan or a second refresh, 1 repair, 1 dynamic plugin | `TypeOK`, `ResolvedRight`, `ProvidersFirst`, `InstalledOnce`, `RegisteredIsListed`, `RefreshAnswered` |

Why the bounds are enough to be interesting. In the pool, one to two workers is
the smallest pool that is resized both ways; five votes allow it to grow,
shrink and grow again, so that a slot is reopened while its closed worker is
still ending, has exited or has messages left. In the restart run two failures
let a successor die as well, before or after it is known to be initialised. In
the session run three requests let two work on one session while a third pushes
it out of a store that holds two; one tick is enough for the cleaner because
the age limit is 0; one time-out and one crash may hit any call.
In the storage run two operations of two workers, or of one after a fault of the
first, meet at one location while both workers may be starting; two keys make
`setAll` write twice. One fault is enough for a call to be given up and
answered late, or for a request to outlive its process.
In the terminal run two connections let a CONFIG replace one that is being made;
two keystrokes and two pieces of data can be swapped, lost or doubled around one
key exchange; the window lets the server stop and go on. In the configuration run
two requests of any kind interleave at every file system call, and names that
differ in an escaped character could meet in one file. In the
authentication run four requests make login, expiry, refresh and service, or two
logins and a logout, of which two overlap. In the loader run three plugins give
every shape of dependency up to an import of an import and a circle; the start
and two batches overlap at every wait.

Deadlock is not checked: the bounds stop the model, and a server that has no
requests or was told to stop rests in the program too.

Symmetry is used in `session_store` (session ids, workers and requests),
`plugin_storage` (workers), `config_service` and `web_auth` (requests), where no
liveness property is checked.

Fairness. `FairSpec` states weak fairness of the event loops: a process with a
message or an event to handle handles one. It says nothing about the
environment (requests, failures, signals, timers of CPU reports), which need
not act. In ClusterManager all of the master's handlers are one event loop, so
fairness is stated of their disjunction; since every bounded behaviour has
finitely many steps this gives each event its turn. In SessionStore it is per
pipe and per request.

## 4. Findings

* `cluster_closed`: the exit listener returns early for a slot beyond
  `workersNum`, with the comment "do not restart worker ... closed legally".
  The test uses the pool size of the moment the exit is handled. If the pool
  grew again meanwhile, the closed worker's exit is taken for a failure, and,
  as the slot's new occupant may already be initialised, a third process is
  forked into the slot; the second keeps running and voting, named by nobody.
  `OneWorkerPerSlot`, proved for all bounds, says that this is the only way in
  which a process nobody told to end is forgotten.
* `session_callback`: the store's `get` has the comment "Required,
  callback(error, session)"; when the remote call is given up, the callback is
  not called at all, and the request is never continued.
* `config_collection`: `doc/swagger/data.yaml` (35, and 83, 131, 274, 417) says that
  a read returns a resource "or a collection of JSON subresources. JSON resources
  are aggregated with broader scopes according to plugin definition". Under
  `override` a read of one item is aggregated property by property; a read of all
  items is not: `configFileOverrideVisitor` (and `configFileOverrideInternalVisitor`)
  override the wrappers `{data, maccess}` that `getJSONFromFile` returns, and as
  the narrower `data` is there it wins whole. A property only the plugin's
  defaults have is in the answer to `?name=...` and missing from the collection.

## 5. Proofs

The proof modules follow one pattern: type correctness (of all variables, or of
what the argument looks at), then the inductive invariant `IInv` with the three facts `Init => IInv`, `IInv /\ [Next]_vars =>
IInv'` and `IInv => ` property, one lemma per action, and a last temporal step.
They assume only the constants' assumptions (`ClusterAssumption`,
`SessionStoreAssumption`, `TerminalAssumption`, `SshAssumption`, `ConfigAssumption` and
`NoFileAssumption`: names are finite sequences of characters, all JSON objects
have the same keys, and what stands for no file, no data or a torn text is no object; `PluginStorageAssumption`, of which
the proofs use that a plugin has finitely many keys; `WebAuthAssumption`, which
`SuccessAuthenticates` does not need).
One theorem has a hypothesis of its own, `Falsy = {}`: the storage implements its
abstraction when no value is taken for an absent one, as in the run
`plugin_storage`; without it `delete` of a falsy value, which stays, refutes it.

*ClusterManager.* `IInv` is `TypeOK /\ SlotInv /\ RememberedPluginsReachWorkers`.
`SlotInv` adds what `ClosedSlotHasNoWorker` and `OneWorkerPerSlot` do not say
themselves: a slot names a process forked in it, the pipe of a process ends with
what its status allows, slots of the pool have an occupant, and a slot that was
closed and whose process is not reaped is either still closed or in `regrown`.
`RememberedPluginsReachWorkers` needs `SlotInv` because the master marks and
greets the slot's occupant, not the sender. Proved: `TypeOK`,
`PoolWithinLimits`, `ClosedSlotHasNoWorker`, `OneWorkerPerSlot`,
`RememberedPluginsReachWorkers`, and the action properties
`ResizeNeedsUnanimousWindow` and `NoRestartWhileStopping`.

*SessionStore.* `IInv` is `TypeOK /\ StoreType /\ StoreBounded /\ NoStaleEntries`.
The two store properties are inductive together: `splice(indexOf(sid), 1)` cuts
out an entry of the removed session only because every stored session has one
(with none, `indexOf` is -1 and `splice` would cut out the last entry of
another session), and it leaves none behind only because there was just one.
The lemmas `FirstIndex`, `RemoveAtFacts`, `SpliceFacts` and `PushFacts` say what
the queue's operations do to a sequence of any length.
`AnsweredWritesKept` has an invariant of its own beside `TypeOK`, `KeptInv`. The
contents of a write are, one after the other, in a request, in a call on its way to
the master, in the store, in an answer on its way back and in the next request's
copy: `Copies` says of each of these places that what is there of a session no two
requests worked on is at least as young as the last answered write. It needs that
only one request has to do with such a session, from its arrival until its last
late call was handled (`OneUser`), that identifiers in use were handed out, so
that a fresh one meets no late call (`HandedOut`), that versions grow
(`Numbered`), and that a request's calls are those of the phase it is in
(`InTurn`), since an answer is taken by its method.

*PluginStorage.* `BaseInv` is `TypeOK /\ CallsInv /\ HaInv`. A worker's operation
knows the call it waits for only by a message index that the next process of the
slot counts from 0 again, so `CallsInv` says that what is in a worker's pipes was
sent by its present process or belongs to nobody (`PipeInv`), that an answer
under way is the answer to the operation that waits for it (`ReplyInv`), and
that the master's dictionary is one (`ClusterInv`); `HaInv` says how far an
HTTP request has come. `SetAllNeverMixes` needs, beside it, that an
operation that has been alone so far is: nobody else has a request that
could still be carried out (`NobodyElse`), and what the map holds is what the
operation's requests up to now have put there (`Progress`).
Refinement: the mapping (`Maps`, `Calls`, `Answered`) is taken apart into what
the service sees of each caller (`Seen`, `Record`) and which late messages
nobody has heard yet (`Unheard`); a lemma per action says which of the
abstract steps it is (`InvokeStep`, `CarryOutStep`, `ResolveStep`,
`AbandonStep`, a late request, or a stutter), and `ServiceStep` joins
them: `StorageRefinesService`. Proved also: `TypeOK` and `SetAllNeverMixes`.

*ConfigService.* The two modules prove one chain of invariants, each of which
rests on those before it.
`TypeInv` says beside the types which operations get to which place (`Stage`), what a
listing holds (`Listed`) and how often a request has been answered so far
(`Replies`). The theorem `NamesApart` says that `percentEncode` is injective on
names of any length, by induction over the length of two names: the
escape sequences begin with a character that never stands for itself. Hence
`WholeInv`: no two paths name the same file (`LinksApart`), and who writes a
file has it under its own path and finds it empty unless another PUT has opened
it too (`WriterInv`); that gives `FileWhole`.
`QuietInv` says that no writer of the same names runs beside a request that is
still called quiet, and that its files are not torn. It carries over to what
comes after the answer: `PutInv` says that a PUT that has opened its file has
made it newer than the version it was made from (`PutTimes`), that one that is
about to open it finds that version (`PutFinds`), and that of
two such PUTs the versions differ (`PutsApart`); `TreeInv` is the same of the
directory of a recursive deletion. Together they give `NoLostUpdate`.
`ReadInv` says of a read that is left alone how far it has come. A GET of an item
under the policies without aggregation has passed scopes without a file, one under
override has put together the properties as they hold from the next broader scope on
(`Gathered`, with `OverriddenStep`: one more scope overrides what was wanted
from there on), and a file that is being read is the one whose time was taken
(`ItemInv`); a GET of all items has seen the names in exactly the broader scopes
that have them, and what it has collected are the narrowest files (`FolderInv`);
an answer given stays right (`AnswerInv`). `getMergeJson` reads the whole chain at
once: over files that are whole its recursion has exactly one solution, the
objects of `Merged` (`MergesChain`), because one more scope adds its list in front of
the lists joined so far, a scalar ends them, and a falsy value is passed over
(`ListsStep`, `JoinedStep`, `MergedValueStep`). All this gives `AnsweredOnce` and
`ReadsRight`.

*TerminalProxy.* `IInv` is `Ranges /\ ConnectedHasSocket /\ OneConnection`. The
properties `ConnectionsCounted` and `NoSocketLeft` are not inductive by themselves:
`connectHandler` adds one to the counter whatever `hostConnected` was, and every
end of a connection destroys only the socket `hostSocket` refers to. `OneConnection`
therefore says, as long as no CONFIG replaced a connection being made, that no
other socket is alive and that a socket is connected exactly when `hostConnected`
says so. What SSH does with the data is irrelevant to it: a chunk either closes the
connection or leaves it alone (`HandleDataKeeps`).

The other properties depend on what `ssh.js` does with a chunk: a loop over its
packets, each handler adding to the session, the packets sent and the messages. The
loop is a recursive function of the model; `ChunkRule` and `PacketRule` turn it
into an induction: what holds of the result and of the units still to come, and
is kept by the handling of any one packet, holds at the end. (The induction is over
natural numbers and about one set, which is why it can be cited; the set is that of
the pairs the invariant in question allows.) Five invariants are carried through
it, each on top of those before:

- `TypeOK`. `Counters` (how many connections were made, how many listeners added)
  and `Typed` (what sessions, packets, units and the server are).
- `ProtocolKept`. `Base` says what is left before the connection and beside SSH,
  `OrderInv` what may be under way in which phase of a key exchange, in both
  directions: the client sends its KEXINIT, then packets of the exchange, then
  NEWKEYS, and only then what it held back; the server likewise. Window
  adjustments are exempt, as in the property.
- `ShellChannelKept`. From the login to the shell client and server take turns:
  one packet at a time is the next step (`Tokens`), and it is on its way to one of
  the two or waits for a key exchange (`TokenInv`); so the only CHANNEL_SUCCESS
  that can be taken for the shell's is the reply to a request of the user (`Shell`,
  `Home`).
- `InputsExactlyOnce`. `DataIn` of what is sent and of what waits is what was there
  before with the new keystroke at its end (`HandleDelivers`, `ChunkDelivers`,
  `SendDelivers`). It needs the two invariants above: that what waits goes out
  behind what is on the socket, and that no keystroke is dropped for want of a
  channel.
- `HostDataExactlyOnce`. `HeardInv`: what is shown, what is held back for the
  prompt, what is under way (`Underway`: the data of the packets whose last unit
  has not been read) and what the server keeps back in a key exchange are together,
  in this order, what the host has sent so far. `ChunkComes` carries through the loop
  over a chunk that the data of its messages and of what it leaves are the data that
  was there. Clear text is where that could fail: a chunk cut inside a packet is read
  again from its start. `EarlyInv` says why it does not: until the keys are in use
  neither direction carries data, so what is read twice shows nothing.

*WebAuth.* `IInv` is `Shapes` (the fields of requests and sessions that are copied
and updated) and `Progress` of every request: only an answered request has a
result of success, and while a request waits for ZSS or the gateway, what it
remembers of the session (`was`) still holds of its copy. The second part is needed
for the refresh by ZSS alone, which leaves the state as authenticated as it was.
Proved: `SuccessIsAuthenticated`.

The other three rest on `ShapeInv`: what requests, sessions and tokens are in every
state (an authenticated session keeps a state of the authenticator and, where the
gateway issues the tokens, that state does not outlive the session's time), what a
request has got at each place (`StageAt`), and that requests under way are all
mixed or none, a login, refresh or logout that is not mixed being alone
(`MixedInv`). Each handler is first reduced to what it makes of its request (`Holds`,
`Answers`, `Concludes`, ...: the `...Outcome` lemmas); the step lemmas of the
invariants below then argue about those few outcomes.

- `TypeOK` says that identifiers suffice, although a request of a browser without a
  session takes a new one. `IdInv` counts: every identifier in use was taken by a
  request that has begun, and every token was brought by a request that was answered.
- `ExpiredForGood`. `ExpInv`: no stored session that was refused as expired is one
  that `middleware` serves (`Dead`), and the copies of a session that are on their
  way to a service, unless mixed, agree on the time it ends. Two kinds of copy need
  not agree (`Odd`): one without a time, and under high availability one that was
  restored from its token, whose time never comes.
- `SessionKept`. `KeepInv` (`Kept`) says what holds while no login, refresh or
  logout is under way. As long as the user is logged in and the session's time has
  not come, the browser's cookie names a stored authenticated session with that time,
  every request has that cookie, and its copy is authenticated. After a logout,
  neither the stored session of the cookie nor any copy is authenticated, and no
  request has a token. The bridge between the two is what an unmixed login, refresh
  or logout leaves behind when it is answered (`ChangeOK`), which `receive` turns into
  what the browser expects.

Model-checked only: all of PluginLoader (its graph search is a RECURSIVE operator);
of TerminalProxy `SessionSurvives`
(why a session fails, which depends on every number and key both sides count with); and
the liveness properties `FailedWorkerReplaced`, `PluginsInstalledEverywhere`,
`EveryRequestEnds` (the prover has no liveness under fairness).

## 6. Not modelled yet, and the plan

In this order; each module with its TLC instance, its properties and mutants,
and proofs of the safety part where that is in reach:

1. More proofs: the end of sessions in `TerminalProxy`.
2. `JavaManager`, `TomcatManager`, `ProcessManager`: ports, starts and stops,
   the end of the server.
3. `ApimlConnector` and the server's start; the choice of authenticators in
   `lib/auth-manager.js`.
4. Websocket proxying (`lib/proxy.js`).

Left out of a component that is modelled in part: PUT and DELETE /plugins
(`staticHandlers.pluginLifecycle` in `lib/webapp.js`), which install an application
from a directory or remove one and ask for a reload; only that request is
modelled (`RequestReload` of ClusterManager).

Out of scope: HTTP routing and proxying, TLS set-up, logging, swagger documents,
the command line and the cryptography of `ssh.js`: request plumbing, formatting
and calls of libraries, with no behaviour over time that a model would add to.
