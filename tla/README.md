# TLA+ verification of htn-tunnel

htn-tunnel exposes local services through a public relay.  A client opens one
connection to the server, authenticates, and asks for HTTP tunnels (a
subdomain) or TCP tunnels (a port).  The server keeps a registry of tunnels and
forwards public traffic to the client over a yamux session.

This directory holds TLA+ models of the server's and the client's own logic, TLC
runs that check them on small instances, and TLAPS proofs for every value of the
constants.  `PROJECT.json` maps each definition to the lines it models.

## Inventory

| Component | State | Operations | Interacts with | What makes it correct |
|---|---|---|---|---|
| Tunnel registry (`tunnel_manager.go`) | `httpTunnels`, `tcpTunnels`, the `TunnelSession` objects and their listeners | register, unregister, reserve, reap, kill, look-ups | called by every connection goroutine, the admin API, two background goroutines and the proxies | an entry is filed under the key it records; a registered port has exactly one live listener; a closed session leaves nothing behind |
| Control server (`server.go`) | one connection goroutine and one message-loop goroutine per client, the idle timer | authenticate, accept the control stream, handle requests, idle timeout, clean-up | registry, token stores, yamux | limits are enforced; clean-up ends; it removes what the session owned and nothing else |
| Tunnel counts (`auth.go`, `key_store.go`) | a count per token | increment up to a limit, decrement down to zero | charged and refunded by the control server | never below the tunnels the token has, never above the limit |
| API key store (`key_store.go`) | keys, owned names, the JSON file | create, revoke, add and remove a name, load, save | control server (authentication, registration), dashboard | a name has one owner; a revocation is final; claims last |
| TCP data plane and WebSockets (`tcp_proxy.go`, `http_proxy.go`, `client/tunnel.go`) | connections, streams, copying goroutines | open, copy, half-close, close | yamux, the visitor, the local service | bytes arrive in order and complete; every goroutine ends |
| HTTP proxy (`http_proxy.go`) | a goroutine per request | look up, exchange, report to the client, record | registry, control stream, request log | a request is recorded and never stuck behind a slow client for good |
| Wire protocol (`internal/protocol`) | the encoder's mutex | encode and decode length-prefixed frames | both ends | a frame decodes to what was encoded, whoever else writes |
| Request log (`request_log.go`, `request_log_adapter.go`, `serveSSE`) | ring buffer, subscriber channels, event streams | add, subscribe, forward, unsubscribe, query | HTTP proxy, dashboard | newest entries in order; no send on a closed channel; no goroutine left behind |
| Rate limiters (`auth.go`) | token buckets, maps of addresses and tokens | allow, clean up | control server | an address or a token never gets more than its rate |
| Runtime configuration, configuration files (`config_provider.go`, `config.go`) | the live configuration and its file | load, default, override, update, save | dashboard, server start | an acknowledged change survives |
| Upgrade, backup, set-up (`cmd/server`) | the binary and its `.bak`, the archive, the two files | replace, archive, unpack, write | the running server beside them | a usable binary is left; a reported restore is faithful |
| Client (`internal/client`) | connection, heartbeat counters, back-off | connect, request tunnels, forward, heartbeat, reconnect | control server | reconnects after a loss; detects a dead server |
| Client commands, login callback (`cmd/htn-tunnel`, `auth_callback.go`) | the configuration file, a callback server | http, tcp, auth, login, logout, setup | the file, the browser, the server's account answers | a logout lasts; a login ends; tunnels use own names |
| Dashboard (`internal/dashboard`) | none of its own | user and admin API, event streams | key store, registry, request log, configuration | - |

The hard behaviours: several goroutines share the registry and the counts;
methods release the lock in the middle (`RegisterTCP`, `UnregisterTCP`, `Add`,
`Unsubscribe`); the clean-up and the idle branch act on snapshots; a timer races
requests; kills come from outside; one encoder serves the message loop and every
request.  Client and server detect a dead link with timers of their own, and a
client that reconnects meets the session it has left behind.  Connections are
closed in one direction or both, and ends must be passed on without cutting what
still flows the other way.  Files are written in place, by the server, the
wizard, a restore and several terminals, so a crash can damage them and writers
can overlap.

## Modules

* **TunnelManager** is the registry.  A method body under `mu` is one action;
  `net.Listen`, the second look of `RegisterTCP` and the `Listener.Close` after
  `UnregisterTCP` unlocks are actions of their own.  A `TunnelSession` is an
  element of `Tunnels` with its fields in functions (`token`, `session`, `type`,
  `subdomain`, `port`, `listener`, `reserved`).  `TMSpec` is the registry under
  arbitrary callers that keep one discipline: an object is inserted once, by the
  goroutine that built it, and a listener is closed by hand only after
  `UnregisterTCP` removed it.
* **ControlServer** extends it with the goroutines of `server.go`.  `main[c]` is
  the place of the connection goroutine in `handleConnection` and
  `handleControlSession`, `loop[c]` that of the message loop in
  `handleTunnelRequest`; `snap`, `item` and `victim` are the locals of the
  clean-up loop.  Every access to shared state is a step.
* **TunnelLease** is the abstract specification: endpoints leased to tokens, one
  token at a time, passing from one to another only through being free, within
  each token's limit.  `ImplementsLease` is the refinement, with
  `lease[e]` = the token of the tunnel filed under `e`.
* **KeyStore** is the key store with its file.  A method is one action with
  three endings: saved, save failed, died inside `os.WriteFile` (which leaves an
  empty file, a part of the new content, or all of it).  `granted` records the
  claims that were saved and acknowledged, `revoked` the revocations.  A second
  claim of a name the key owns is acknowledged without a save (`AddSubdomain`).
* **ControlLink** is one connection after its tunnel has been granted, seen from
  both ends: the four client goroutines (`runner`, `hb`, `reader`, `serve`) with
  `errCh` and `msgCh`, the server's message loop and idle timer, and the messages
  on their way with their ages.  Time passes in `Tick` steps.
* **Reconnector** is the client's outer loop (`Run`) over a pool of connections,
  with the part of `ControlServer` that the client can notice: a message loop that
  counts a request and registers its name or refunds it, idle timeouts with
  reservations, clean-up by name from a snapshot, kills, and other clients that
  take free names.  The loop may register a name after the clean-up has looked;
  the name is then put down to `Dead`, which stands for all such sessions.
* **DataPlane** is one public connection, TCP or WebSocket, on its way to the
  local service: six bounded queues of units (visitor, server, client, service,
  each way), the four `io.Copy` goroutines with the unit they hold, the two
  handlers with their closes and half-closes, and, as environment, the two peers,
  TCP resets, a lost yamux session and yamux's close timeout.
* **ControlStream** is the server's half of a control stream: the encoder's
  mutex around two writes, a window that fills up, and the client's decoder,
  which takes whatever comes next for a length.
* **RequestLog** is the ring with `Add` in its steps (store, take the read lock,
  send to each subscriber), the adapter's forwarding goroutine between two bounded
  channels, and `serveSSE`.  `snapshot`, `Recent` and `TrafficStats` are operators
  on its state.
* **HTTPProxy** composes RequestLog and ControlStream: the goroutine of each
  request (look-up, exchange, report to the client, record) next to the message
  loop that answers on the same stream.
* **RateLimits** is both limiters of `auth.go` with the clean-up of idle
  addresses; **TokenBucket** is the abstract limiter that each implements.
* **ServerFiles** is the two files of a server, the process that loads and saves
  them, the wizard, and backup and restore.  A write is two steps, as
  `os.WriteFile` and `O_TRUNC` are.  A setting is kept twice: `number` is the value
  in `cfg`, which the dashboard changes and saves, and `limit` the copy that
  `NewServer` gave to the token store or the rate limiter.  `told` records what the
  dashboard acknowledged and whether the server has started since, `copied` what
  the backup read, `taken` what somebody else wrote after a restore.
* **Upgrade** is `replaceBinary`, one system call a step.  **Deployment** puts it
  and ServerFiles on one machine with the service manager.
* **ClientCLI** is the client's commands in several terminals over one
  configuration file, and the callback server of a login.  Reading the file and the
  two steps of a save are apart in every command.  `loggedOut`, `home`
  and `disowned` record what the user was told.
* **MCControlServer**, **MCKeyStore**, **MCDataPlane**, **MCHTTPProxy** instantiate
  them for TLC; the other runs need no definitions of their own.
* **ControlServerProofs** (with the registry), **KeyStoreProofs**,
  **ControlLinkProofs** (with the reconnecting loop), **DataPlaneProofs**,
  **RateLimitsProofs**, **HTTPProxyProofs** (with the log and the control stream),
  **DeploymentProofs** and **ClientCLIProofs** hold the theorems.

Definitions whose names end in `_Something` (`LoopEnds_Unbuffered`) are faulty
variants of the definition before the underscore; they are used by no
specification and serve to see that a property notices the fault.

### Abstractions

* Except in `ControlLink` and `RateLimits`, time is abstract.  The idle timer may
  fire whenever the connection goroutine is in its select; a reservation is held
  or expired; any anonymous tunnel may be old enough for the expiry scan.  Every
  real timing is one of these.
* Names are values: `Subdomains` are the ones `ValidateSubdomain` accepts,
  `BadName` one it rejects, `AnyName` the empty name.  A random draw is a choice
  among `Subdomains` or `Ports`.
* yamux, `net.Listen` and the file system are external.  A session may close at
  any time; a message buffered before the close may still be decoded after it;
  a listen may fail although no tunnel of this server holds the port.
* In `ControlServer` the rate limiter may refuse any request; `RateLimits` says
  when it does.
* In `ControlLink` a goroutine that can run does so before the clock moves: its
  steps take no time on the scale of 30 s timers.  A path that is up delivers
  within `MaxDelay`; one that is down delivers nothing until it recovers.
  `PromptAssumption` says how fast the network must be; with the code's 30 s,
  90 s and 3 misses both of its conditions say that a message takes less than
  30 s one way.
* In `Reconnector` a lost connection is detected in one step (`ControlLink` shows
  that it is), and the idle branch reserves all names of a session at once
  (`ControlServer` shows what happens in between).  A connection both ends have
  given up is used again, so the retries have no end.  The client's token is its
  own: other clients have other tokens.
* `KillTunnelByID` closes listener and session inside its critical section; it
  is one action, since the only step that could see the gap, `net.Listen`,
  commutes with the delete.
* In `DataPlane` a payload is a sequence of numbered units.  The visitor's first
  unit on a WebSocket is the upgrade request, the service's first the response.
  Byte counters are left out: they are added to without synchronisation and no
  control decision reads them.
* In `HTTPProxy` the exchange of a request is one step that succeeds, fails with a
  502, or is aborted.  A frame is a header unit and a payload unit.
* In `RateLimits` every limiter gains a token per tick.  The limiters are
  independent of each other except that the global one may refuse, so only the
  ratio of each to its own burst matters.
* In `ServerFiles` one number stands for the fields of the configuration, with a
  default, an environment variable and a place on the dashboard; a content of
  `keys.json` is a version.  Two overlapping writes leave either text or a mixture
  that does not parse.

## Runs

| Run | Shows |
|---|---|
| `server` | Two connections with up to two keys and an anonymous address compete for two names and one port, with idle timeouts, reservations, reclaims, kills, the expiry of anonymous tunnels and clean-up.  `RegistryInv`: entries are filed under the key they record, registered ports have live listeners, open listeners never share a port and the re-check of `RegisterTCP` never fails.  `QuotaCovers`: the count is at least the registered, in-flight and not yet refunded tunnels, and at most the limit.  `OnlyLateRegistrationsStrand`: a name or a bound port is left behind in one way only, by a message loop that registers it after the session's clean-up has looked; no clean-up, kill or unregistration leaves one.  `AnonOnePerSession`: a connection never has two live anonymous tunnels.  `ImplementsLease`, and `TMSpec`: the server keeps the registry's discipline. |
| `liveness` | `SessionEnds`: once a session has closed, the connection goroutine finishes its clean-up and the message loop ends, also after an idle timeout took the receiver of `done` away.  `ReservationsEnd`: every reservation goes away, including one that a stale `ReserveHTTP` put on another session's live tunnel. |
| `keys` | The key store under failing saves, crashes and restarts: `OneOwner`, `RevocationSticks`, and `ClaimsSurvive`: a claim that was saved is in force whenever the server runs, across operations of other keys, failing saves, crashes and restarts.  It has three ends: the key gives it up; the key is revoked, perhaps in place of another that shares its preview; or a restart finds a file that a failed or killed save has emptied. |
| `link` | One connection over a path that delays, fails and recovers.  `HealthyLinkStays`: neither end gives up a link that delivers in time.  `DeadPathIsNoticed`: on a dead path the client gives up within three intervals and the server within its idle timeout, without help from yamux.  `BothEndsLetGo`: once either end is closed every goroutine of both ends finishes, except a decoder left on a full `msgCh`. |
| `reconnect` | `ComesBack`: a client that lost its connection serves again, unless it is stopped, its name is another client's or was left to a closed session by a late registration of its own (`Blocked`), or kills and reclaims have used up its token's count for good (`OutOfQuota`); half-open sessions, requests the server is still handling and grants it never heard of stand in its way for a while only.  `NamesReturn`: a session the client has given up comes to hold no name. |
| `data_plane` | One connection of either kind.  `InOrder`: a peer reads a first part of what the other sent, across both flushes of `proxyWebSocket`.  `WholeTransfers`: a visitor that sees a proper end has the whole answer even if it had finished sending first, and a service that sees the end of a request has the whole request.  `PipeEnds`: once a peer has closed or the session is lost, all goroutines of both ends finish. |
| `http_proxy` | Requests, message loop, control stream, log and an event stream together.  `FramesIntact`: the client never takes a payload for a length.  `RecentIsNewest` and `TrafficAccounts`: the queries agree with the history of stored entries before and after the ring wraps.  `NoPanic`: no send on a closed channel and no second close.  `StreamIsFaithful`: an event stream shows its own entries, in order, none twice, and all of them unless a channel was full.  `ForwarderEnds`, `RequestsAreLogged`: goroutines of viewers that left and requests of clients that are slow or gone get through. |
| `limits` | `ConnectionsAreMetered`, `RequestsAreMetered`: both limiters implement the token bucket; deleting idle entries gives nobody new tokens. |
| `deployment` | The server saves and is killed while the operator runs commands that may fail or be killed at every system call.  `SettingsSurvive`: an acknowledged change of the configuration is what the server enforces from its next start on, through crashes, restarts and saves that cannot open the file, until `server.yaml` is emptied by its next writer.  `RestoreIsFaithful`: when a backup was reported as made and a restore of it as complete, each archived file that nobody has written since has, whole, what the backup read in it.  `UpgradeIsSafe`: a complete binary is always left, and the reported outcome is the real one. |
| `cli` | Two terminals, one file.  `LogoutSticks`: after a logout no key comes back unless it is given, or a command that had read the file before saves it.  `ServerKept`: an address stays through logins and logouts.  `StartsWithOwnName`: a tunnel with a fixed name has a key that, by the server's last answer, owns it.  `LoginEnds`, `CallbackServerStops`: whatever the browser does and whichever signal is dropped. |
| `cleanup_race`, `late_registration` | Violated, see below. |

The types of `ControlServer`, `KeyStore`, `ControlLink`, `Reconnector` and
`RateLimits` are theorems only; those of the other modules are both checked and
proved.

### Bounds

Two connections are enough for every interference the control server has: each
race is between one session's clean-up or idle branch and one other actor
(another session, a kill, the reaper, the expiry goroutine).  Two tunnels let an
entry be lost and the name taken again; with `OneEach` the limit binds.
`SubdomainAttempts` and `PortAttempts` (10 and 100 in the code) are 1 or 2, so
that both a retry and the exhaustion happen.  The requests of `server` and
`late_registration` ask for random names and ports, those of the other two for a
name; requests with a bad name or an unknown type are in the model and in no run:
they are refunded like a request whose name is taken.  In `keys`, three keys are a former
owner, a new one and a bystander.  In `link` the intervals keep the code's
proportion (2 and 6 for 30 s and 90 s, a delay of 1), `msgCh` holds one message
(16 in the code) so that it fills up, and the path fails once and may recover.
In `reconnect` two connections are the current one and a half-open one, two
names let a random name differ from the last one, and a limit of two lets the
client have a tunnel beside one that is lost to it.

In `data_plane` each peer sends up to two units; the queues that end at the
server hold two, so that its readers can buffer more than they parse, and the
others one, so that writers block.  In `http_proxy` the ring holds two entries
and three requests wrap it; channels and the stream's window hold one, so that
all of them are full at some time; one tunnel has a control stream, the other
stands for the requests that share only the log.  In `limits` the stale time is
one tick more than a minute, far below the ten minutes of the code.  In `deployment`
the number takes the values 0 (which `defaults` replaces), 1 and the default, the
environment may set 0, and there is one change of the keys and one newer release;
files can still be damaged, restored and saved again without end.  In `cli` two
terminals are a command that has read the file and one that saves meanwhile.

In `ControlServer`, `DataPlane` and `HTTPProxy` sessions, units and requests are
used once, so a run stops when they are used up: `AllQuiet` and `Finished` stand
for the idle system, and deadlock is checked.  In the key store it is not: a
corrupt key file keeps the server from starting, which is what `NewKeyStore` does.

### Fairness

`ControlServer`: weak fairness for the steps of a connection goroutine and of a
request, none of which waits for the client (the Go scheduler runs them); strong
fairness for the message loop of a closed session to see an error, since only
finitely many messages can have been buffered; weak fairness for the clock and
the reaper's ticker.  Nothing is assumed of clients, idle timeouts, kills or the
expiry goroutine.

`ControlLink`: every goroutine that can run does (weak fairness), a path that
stays up delivers, and time passes (strong fairness of `Tick`: behaviours in
which the path fails and recovers for ever without time passing are excluded).
That yamux notices anything is not assumed.  `Reconnector`: the server's
clean-up runs and the client's waits end; connecting, and a request that could be
granted, do not fail every time they are tried, and the rate limiter does not
refuse every request (strong fairness): a server that is never reachable again
cannot be reconnected to.  From some time on no request is cut off by the path or
the idle timer between its sending and its answer (`<>[][~ CutOff]_vars`): a
request is a round trip, and a link that never lasts as long serves nobody.  A
tunnel that is up may lose its path again and again, and nothing is assumed of
kills, the reaper or other clients.

`DataPlane`: weak fairness for the goroutines, for the operating system's resets
and for yamux's `StreamCloseTimeout`; a peer reads what it is sent and closes once
it has read the end, and a service that has read an upgrade request answers it.
No peer has to send or to finish.  `HTTPProxy`: goroutines run, and a client
decodes its control stream for as long as it keeps its session (its reading
goroutine does nothing else); nobody has to answer, to disconnect or to watch a
stream.  `ClientCLI`: the main goroutine where it does not wait for the user, the
goroutine that closes the callback server, and the timer of the context; no
browser and no user has to do anything.

### Disagreements between the code and its documentation

`cleanup_race`: the race between a reconnecting client and the server's clean-up
is documented as dealt with; a reclaim between the snapshot and the delete of
`cleanupSession` is undone, and the client stays connected to a tunnel nothing is
routed to (`ReclaimSurvivesCleanup`).

`late_registration`: the TCP plan promises that a session's disconnect cleans up
all its ports (`DisconnectFreesPorts`).  The idle branch does not stop the message
loop: a request it is handling registers its port after `cleanupSession`, and the
listener, the entry and the count stay with a closed session.  Names are left
behind in the same way.

Seen while modelling, without a run of their own:

* a reservation is documented to hold the name for 60 s after a disconnect; the
  deferred `cleanupSession` removes it right after the idle branch made it;
* a claimed name is documented to be the owner's forever; a crash inside a save
  loses it at the next restart, a retried claim after a failed save is
  acknowledged without a save, and a revocation by a preview that two keys share
  may hit the other key (the ends `ClaimsSurvive` allows);
* the admin page's button says "Save & Apply"
  (`internal/dashboard/static/admin/index.html:133`) and the plan that saving
  "applies at runtime" (`phase-04-admin-dashboard.md:175`); the limit of tunnels
  and the rates are copied into the token store and the rate limiter by
  `NewServer` (`server.go:58`, `78`), so a change of them governs only the next
  start, while the account answer of a legacy token shows the new one at once
  (`server.go:392`);
* kills, and reclaims of a reserved name, give no tunnel count back, so the count
  stays too high until the limit is used up (`QuotaCovers` asks only that it is
  never too low; `OutOfQuota` in `ComesBack`);
* two anonymous connections of one address can pass the one-tunnel check together
  (hence `AnonOnePerSession`);
* the admin page's `maskKey` and the store's `MaskKey` differ, so no preview finds
  its key; the request log filters by the last four characters of a key;
* `heartbeatTimeout` is declared and never used, a heartbeat counts as missed when
  it is sent and the third has no time to be answered; `requestTunnel` never falls
  back to a random name, so a client whose name was taken retries for ever
  (`Blocked` in `ComesBack`);
* a request can find a tunnel before the client has its `TunnelResponse`, so the
  client may read a request log in its place and give the connection up;
* aborted responses and WebSockets are not recorded, although
  `http_proxy.go:34` says that every proxied request is;
* the second `Accept` of `singleConnListener` never returns, which keeps a
  goroutine for each HTTPS connection; `RoundTrip` ignores the request's context;
* a backup of a file that is being saved is reported as made with too little of
  the file (a restore of it reports an error) or with an empty one (a restore
  brings that back); the archive of a backup that failed has a valid end, and what
  it holds of a file restores without an error; after an error of `os.Open`, `replaceBinary`
  leaves the old binary at `.bak` only;
* a 0 given on the dashboard is the default after a restart, and a save writes
  values that came from the environment into the file;
* the wizard reconfigures nginx before it checks DNS;
* `auth` drops the saved server address, and `login`, `setup` and `dashboard`
  panic on a configuration file that does not parse.

## Proofs

All theorems hold for every value of the constants, from the assumptions the
modules declare: `None` is a new value (`NoneIsNew`), names and ports are
disjoint and non-empty (`NamesAndPorts`), limits are natural numbers
(`TokensAssumption`), requests are well formed (`RequestsAssumption`), the
number of attempts is positive (`AttemptsAssumption`) and the pool of tunnel
objects is finite (`FinitePool`, needed to count them); those of the other
modules are named below.

* **The registry** (in ControlServerProofs): `RegistryIsConsistent`,
  `TMSpec => []RegistryInv`.
  `RegistryInv` is not inductive: `TMInv` adds that only a built TCP tunnel has
  an open listener and that a pending close finds its listener open.  That the
  re-check of `RegisterTCP` always finds the port free follows from it: an entry
  there would be a second open listener on the port.
* **The control server**: the inductive invariant `CSInv` adds to the types,
  to `TMInv` and to the two goals: a tunnel carries the token of its session
  (`TokenInv`); the tunnel a loop is registering is in no map, no snapshot and
  no pending close (`LoopInv`); what a clean-up holds belongs to its session,
  and what it is about to refund has left the registry (`MainInv`).  Then every
  charge is matched by one new outstanding tunnel and every refund by one that
  stops being outstanding, which three counting lemmas turn into `QuotaCovers`
  (`CountsCoverTunnels`).  `ServerTypes` is the types.
  `OnlyLateRegistrationsRemain` (`OnlyLateRegistrationsStrand`) needs that every
  open listener is registered, about to be registered or about to be closed
  (`ListenersHeld`), and that a clean-up that takes an item off its list has
  removed it from the registry, or found it gone (`CleanupKeepsItems`).  `ServerUsesRegistryProperly` (`Spec => TMSpec`)
  carries the registry theorem over to the server (`ServerRegistryIsConsistent`).
  `AnonymousOnePerConnection` needs `AnonClear`: from its check until its tunnel
  is registered, an anonymous connection has no live tunnel, since only its own
  loop could register one and that loop is busy.
  `ServerImplementsLease` is the refinement.  Endpoints are filled by the inserts
  of `RegisterHTTP` and `RegisterTCP` only (`OnlyRegistrationsFill`), each finds
  the endpoint free or held by the same token, and the charge that came before it
  leaves room below the limit (`RoomForRequest`, from `QuotaCovers` and a counting
  lemma); every other step empties endpoints or is a stutter.
* **KeyStoreProofs**: `KeyStoreTypes`, `SubdomainsHaveOneOwner` and
  `RevocationsAreFinal` from `KSInv`, which says what a restart may bring back: a
  file that parses holds keys that were generated before, and none whose
  revocation was acknowledged is active in it (`Lineage`).  `ClaimsLast`
  (`ClaimsSurvive`) needs the same of claims: a saved claim is in memory while the
  server runs, and in every file that parses as well.
* **ControlLinkProofs**: `LinkTypes`, from an invariant that counts the results
  on `errCh` by the goroutines that have ended and keeps the miss count of a
  running `runHeartbeat` below its limit; and `OutagesAreNoticed`
  (`DeadPathIsNoticed`, for all intervals, limits and delays allowed by
  `TimesAssumption`; `PromptAssumption` is used only for the initial idle time).
  The argument: time passes only when everything received has been read, so once
  the path has been down for a tick no ack is left between the network and
  `runHeartbeat` (`NoAckLeft`), and the length of the outage is at most
  `misses * HeartbeatInterval + hbTimer`; on the server it is at most `idle`.
  `HealthyLinksStay` (`HealthyLinkStays`) is where `PromptAssumption` is needed.
  `HealthInv` says that while nothing has disturbed the link no goroutine has
  ended; that the idle timer is ahead of the oldest heartbeat on its way, or of
  the ticker, by at most an interval and a delivery (`HeartbeatDue`); and that an
  answer to the oldest heartbeat counted as missed is on one of its five hops,
  with an age that bounds the time waited (`AnswerComes`).  The lemmas
  `AnswerPast...` take it from hop to hop; `AnswerInTime` and `CountStaysLow`
  then keep the count below the limit when the ticker fires.
  `ReconnectorTypes`, about `Reconnector` and from its assumption `ConstantsFit`,
  uses `RCInv`: the types need that `Run` has a connection wherever it uses one, and
  that an unused connection has no request.  `NamesAreHeldUntilCleaned` is the
  safety part of `NamesReturn`: a name is put down to a session only while its
  clean-up is still to look or has the name on its list.
* **DataPlaneProofs**: `DataPlaneTypes`, `PipeKeepsOrder` (`InOrder`) and
  `PipeIsWhole` (`WholeTransfers`) for any number of units and any buffers, from
  `BoundsAssumption`.  The invariant `PipeInv` says that there are counts `r[h]` of
  the units read from way `h` and `w[h]` of those written to it and not dropped,
  such that `h` holds the units after `r[h]` up to `w[h]`, and a goroutine that may
  still write holds the unit after the last it wrote, or none (`Flow`).  A break
  lowers `w[h]`, which is harmless because it closes the way; a flush moves part of
  a way while the goroutine that will serve it has not started and holds nothing.
  `Whole` is the part about ends: without a cut, each close of a way follows the
  close of the way before it with everything written to that one passed on, or the
  stream was never opened, or, for the upload, the service had finished first.
  `HandlerInv` says what the handlers and goroutines have closed in each phase.
* **HTTPProxyProofs**: from `LogAssumption`, `WindowAssumption` and
  `ProxyAssumption` (capacities are positive, entries differ from the markers used
  for the states of a goroutine), for any requests, tunnels and streams.
  `ProxyTypes`.  `FramesStayIntact`: the units of a stream that the client has not
  yet read, with the header it may already hold, are whole frames except for the
  payload of the one writer that holds the encoder's mutex (`EncoderOK`).
  `RequestLogNeverPanics`: a running `Add` visits subscribed channels only, since
  `Unsubscribe` waits for the write lock, and `src` and `dst` are closed by the last
  step of the goroutine that owns them (`ChannelInv`).  `RecentShowsNewest` and
  `TrafficIsAccounted`: the places before `pos` hold the newest entries and, once
  the ring has wrapped, the others those before them (`RingInv`), and an entry is
  stored once (`StoredOnce`).
  `StreamsAreFaithful`: what a stream has shown and what is still in the two
  channels or in the hand of the forwarding goroutine is, in order, a part of what
  `Add` offered to it, and all of it unless a channel was full (`StreamInv`).
  What the loop of `Only` returns for every sequence is proved with the
  least-number principle applied to a set (a least length at which it fails),
  which stands in for induction.
* **DeploymentProofs**: `DeploymentTypes`, `SettingsSurviveRestarts`,
  `RestoresAreFaithful`, `UpgradesAreSafe`, from `FilesAssumption` and
  `LatestAssumption` with `DeploymentInv`: an acknowledged number is what the file
  holds and no save of the server is under way, and a server started since has it
  as its limit (`SettingsInv`); an entry of an archive reported as made is what
  the backup read, or is short (`CopyInv`); the files a restore is done with hold what the archive has for them, and the archive stands
  still meanwhile (`RestoreInv`); where the old binary is at each step
  (`UpgradeInv`).
* **ClientCLIProofs**: for any number of terminals, from `RequestedAssumption`
  (requested names are names).  `CommandTypes`.  `LogoutsStick` from `LogoutInv`:
  while a logout is in force no command that has read the file holds a key.
  `ServerAddressIsKept` from `HomeInv`: while the address is promised, every
  command that has read the file has that address and can save no other.
  `TunnelsStartWithOwnNames` from `NameInv`: a command asks for its account only
  with a key.
* **RateLimitsProofs**: `LimiterTypes`, and the two refinements
  `AddressesAreMetered` and `TokensAreMetered` for all bursts, addresses and
  tokens, from `LimitsAssumption` (an entry is kept for at least a minute).  The
  clean-up is the step that could go wrong: it must stutter in the abstract
  bucket.  `RefilledWhenIdle` (an entry idle for n ticks has at least n tokens, up
  to its burst) makes the limiter that a deleted address gets the same as the one
  it lost (`CleanupKeepsLevels`).

Only model-checked: the liveness properties (`SessionEnds`, `ReservationsEnd`,
`BothEndsLetGo`, `ComesBack`, `NamesReturn`, `PipeEnds`, `ForwarderEnds`,
`RequestsAreLogged`, `LoginEnds`, `CallbackServerStops`: fairness and `ENABLED` are
out of the prover's reach).

## Plan

Name ownership: `KeyStore` composed with `ControlServer`.

## Not modelled

The dashboard's routing, cookies and JSON; `TopPaths` and the other read-only
statistics; byte counters; header rewriting, TLS and certificates; the wizard's
nginx set-up, which edits another program's files; terminal output; the size
limits of frames, which no message of either end comes near; the npm package, the
publishing scripts and the browser code.  `Start` and `Shutdown` of the server only
open and close listeners.  These are sequential I/O and formatting or belong to
libraries.
