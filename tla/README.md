# Verification of ProxyBase GUI

TLA+ models of the concurrent core of ProxyBase GUI and of the state its window
keeps, TLC configurations that
model-check them on small instances, and TLAPS proofs of the properties that
should hold for every instance. File references are to the repository root
(`src-tauri/src/...` is the Tauri backend, `crates/proxybase-tunneld/src/...`
the privileged daemon, `src/...` the React frontend).

    tlc -config TunnelDaemon.cfg MCTunnelDaemon        # one run, in this directory
    tlapm TunnelDaemonProofs.tla                       # one proof module

## 1. Inventory

The application lets a user sell bandwidth (seller), buy proxy sessions and use
them through local SOCKS5 bridges (market), and send the whole system's traffic
through a bridge (system tunnel). The tunnel's routing engine runs in a separate
privileged daemon, which the GUI talks to over a local socket or named pipe.

| Component | State | Operations | Talks to |
|---|---|---|---|
| **Tunnel daemon IPC server** `ipc_server.rs` | `Service.connections` (registry for broadcasts), `Service.owner: Mutex<Option<(id, config)>>`, the engine's `TunnelState` | `StartTunnel`, `HotSwapProxy`, `StopTunnel`, `GetState`, `Ping`; `disconnect` of a closed connection | GUI connections (frames), the engine `libproxybase::tunnel` (calls, state broadcast) |
| **Tunnel IPC client** `tunnel_client.rs` | `writer`, `pending` (id → oneshot), `generation`, `connecting` mutex, `elevating` flag, last shown state | `ensure_connected`, `send_ping`, `install`, `elevate_and_poll`, `send_request_with` (one retry, 90 s), `read_loop`, the background loop of `init` | the daemon, the OS privilege prompt, frontend events |
| **Bridge registry** `bridge.rs` | `BRIDGES` (session → listener, port, dial address), `RELAY_IP_CACHE` | `start_bridge`, `stop_bridge`, `resolve_upstream_dial`, listener tasks, relays | DNS, TCP ports, the upstream relay |
| **Seller** `seller.rs` | running flag, cancellation token, per WebSocket a stream table of at most `MAX_STREAMS` | start, stop, reconnect with backoff, multiplexed and fallback paths, stream open / data / close | backend WebSockets, target hosts, frontend events |
| **Market page** `MarketPage.tsx` | sessions, local ports, saved port map, a reconcile queue | reconcile, buy, close, ensure bridge | backend API, bridge commands, saved store |
| **Authentication and API** `commands.rs`, `api.rs` | token in memory and on disk | login, logout, `call_api!` with one reauthentication | backend HTTP |
| **Tunnel commands** `commands/tunnel.rs` | none | enable / disable / status of the tunnel | bridge registry, IPC client |
| **Tunnel state in the UI** `useSystemTunnel.ts` | shown state and telemetry | start, stop, event handlers, status polling | tunnel commands and events |
| **Android VPN** `android_vpn_jni.rs`, `VpnController.kt`, `ProxyBaseVpnService.kt` | pending configuration, service state, native handle | permission dialog, start, stop, route complement | Android VPN service, native engine |
| **Daemon process, installers** `main.rs`, `service_*.rs` | route journal on disk | journal recovery, listen, install / uninstall | OS service manager |
| **Peer authentication** `peer_auth.rs` | none | check one connecting process | OS |
| **Deposits** `Layout.tsx`, `DepositPage.tsx` | dialog fields, the deposit handed to the page, countdown and poll | open, choose, create, close; tick, poll, back | backend API |
| **Updates** `useUpdater.ts`, `UpdateBanner.tsx`, `AccountPage.tsx` | the update found, progress, phases | check, download, restart, withdraw | update server |
| **Wallet** `commands.rs`, `WelcomePage.tsx`, `WalletPage.tsx` | keyfile, a page's step and words | create, import, info, sign in | commands on the main thread |
| **Languages** `i18n/` | language, whether it is the system's, dictionaries | detect, choose, follow the system, `t` | settings store, OS locale |
| **App shell, flags, formatting, static pages** | rendering | | |

How they interact: the frontend calls Tauri commands and receives events; every
command is a tokio task of its own, so any two of them interleave at their
awaits. The IPC client and the daemon exchange length-prefixed JSON frames on
one connection per installed generation; the daemon also pushes state and
telemetry to every registered connection. The bridge registry and the market
page meet in ports and in the saved port map.

What is hard, and so where the properties are aimed:

- **Two writes that belong together, with awaits between.** The daemon calls the
  engine and records the owner in two steps, under different locks; several
  connections do so at once.
- **Checked, then used after an await.** A reader task compares its generation
  and then waits for a mutex; a start resolves DNS between two looks at the
  registry; the engine's state is read before the call it selects.
- **Locks kept across long waits.** `connecting` is kept across pings, privilege
  prompts and polls; `owner` across `engine.stop`.
- **Lost and late answers.** Requests time out, are retried once, and their
  connection may be replaced in the meantime.
- **Limits.** Ports already bound, a bridge stopped whose listener is not closed
  yet, the stream limit of the seller.
- **Exit.** The tunnel must come down when its GUI dies, whatever was in flight.

What makes each component correct:

- *Daemon*: a finished connection leaves nothing behind; the teardown of one
  GUI's exit never hits a tunnel that has a new owner; the exit of the GUI that
  started a `stop_on_gui_exit` tunnel takes it down.
- *Client*: at most one privilege prompt, never for a stop or a query; one
  connection attempt at a time; the writer is the newest connection's; every
  call returns.
- *Bridges*: one listener per registered bridge and none without; a session
  keeps its port until its own stop; no fake address is dialled.
- *Seller*: data reaches only its own stream; the table never exceeds its limit;
  nothing outlives a stop.
- *Market*: a closed session ends up without a bridge, an open one with exactly
  one; saved ports agree with bridges.
- *Authentication*: a call is retried at most once; while the user keeps coming back to the
  window, window and token agree in the end. A token may come back after a logout, through a
  reauthentication in flight (section 4).
- *UI state*: in the end the shown state is the engine's, or an error that the user has not
  dismissed; the window is not left asking for privileges; buttons come back.
- *Deposits*: one creation at a time; what is completed is not expired later.
- *Updates*: what is offered is in the end what the server offers; progress goes up.
- *Android VPN*: no engine runs without the service that shows it; the tunnel gets every
  address but the excluded ones.
- *Wallet*: the words the user writes down are those of the wallet on disk.
- *Languages*: following the system means the system's language; a text shows the values its
  page hands over.

The hazards in `PROJECT.json` list these at their source lines.

## 2. What is modelled

Throughout, an action is the code of one task between two awaits (or between the
release and the next acquisition of a lock). A mutex held only within an action
is invisible; one held across an await is a variable naming its holder. Requests
that change nothing (`Ping`, `GetState`, an invalid config, a start of a bridge
that runs) are stutters or simple replies. Names follow the source.

### TunnelDaemon (ipc_server.rs)

`sock`, `unread` are the GUI's end of each connection (`fresh`, `open`, `shut`,
with the frames still buffered when it closed); `pc`, `stopOnExit` are the local
state of `handle_io` and `handle`; `registered` is `Service.connections`, `owner`
the owner slot, `lock` the task holding its mutex across an await (only
`disconnect` does). `engine` is the engine's state; `starter` is a history
variable, the connection and `stop_on_gui_exit` of the request the running tunnel
comes from, which the properties compare with `owner`.

`StartTunnel` is `StartCheck` (state `Error`?), `StartClear` (stop it), `StartRoute`
(hot swap, refuse or start), `StartSwap` / `StartBegin` / `StartUp` / `StartFails`,
`StartOwn`. `HotSwapProxy` is `HotSwap`, `HotSwapReown`; `StopTunnel` is `Stop`,
`StopDisown`; `disconnect` is `Unregister`, `Disown`, `Teardown`. The `Engine*`
operators are external: `libproxybase` is not in the repository, so they are what
the server relies on (a start refuses an active tunnel, a stop ends it and cancels
a start in progress, a running tunnel may fail or reconnect by itself).

A reply to a closed connection may or may not end the task at once (`AfterReply`):
the writer task may already have died, or not yet.

### TunnelClient (tunnel_client.rs)

A connection is its generation number. `writer` is the generation whose write
half is stored (0 for `None`), `up` the connections the daemon holds open,
`reader` where each `read_loop` stands. Per caller: `phase`, `attempt`, `mine`
(the generation it is inside `install` with), `pend` (its oneshot in `pending`)
and `via` (the connection its request went to). `connecting` and `elevating` are
the fields of that name. `overlapped` is a history variable: two callers have
been inside `install` at the same time.

`ensure_connected` is `Check`, `Lock`, `Open`, `Install`, `Ping`, `Pong`;
`send_request_with` adds `Send`, `Retry`, `Return`, and `Kept` for the background
loop, which calls `ensure_connected` alone; `elevate_and_poll` is `Elevate`,
`Prompt`, `Poll`, `PollInstall`, `PollPing`, `PollPong`; `read_loop` is
`ReadResponse`, `ReadEnd`, `ReadCheck`, `ReadClear`, `ReadDrop`. Note the two places
where the code awaits between related steps: `install` takes a generation before
it waits for the writer's mutex, and `read_loop` compares its generation before it
does.

An elevated caller is a `start`, whose calls pass `allow_elevation = true`; the
others are `stop`, `status` and the background loop. An accepted prompt restarts
the daemon, which ends all connections. A pong of a stale daemon, a failed ping
and a timeout have the same effect, so they are one outcome.

### BridgeRegistry, BridgeMap (bridge.rs)

`registry` is `BRIDGES`, `cache` is `RELAY_IP_CACHE`, `listening` is which
session's listener holds each local port, `told` the ports whose listener task
has been sent its shutdown but still has its socket. Commands (`pc`, `job`) start
(`Start`, `Resolve`, `Lookup`, `Bind`) and stop (`Stop`, `StopReturns`); `Close` is
the listener task. A DNS answer is any sequence of real and fake addresses, also
after the tunnel is off, which is more than DNS would do. `StopReturns` has no
guard because the wait for the listener is bounded by two seconds.

`BridgeMap` is the abstract specification: a map from sessions to ports in which a
session gets a port nobody has and keeps it until its own stop. `KeepsBridgeMap`
states that the registry implements it under
`port <- [s \in Sessions |-> registry[s].port]`.

### SellerStreams (seller.rs)

One WebSocket connection, from its table's creation to the return of its loop.
A stream is an opening by the backend, with a relay task of its own; streams are
not reused, their ids (`sid`) are. `active` is the table, `current` which stream
the backend has open under each id, `relay` where each task stands (`connect`,
`run`, `leave` between the end of `run_stream_relay` and the removal of its id,
`done`; `refused` for an open dropped at the limit), `aborted` the tasks on which
`abort` has been called, `got` a history of whose data each relay was sent.

`Accept`, `Refuse`, `StreamClose`, `RelayData` are the loop's handlers, `End` its exits
with `abort_path_tasks`; `Connected`, `ConnectFails`, `RunEnds`, `Leave`, `Abort` the
relay's task. `Leave` removes the relay's id from the table whoever has the entry by
then, as the code does. `earlier` is a history variable: the streams of the same id whose
relays were alive when a stream was opened. Only those may cut it off later
(`OpenStaysServed`), so the property goes on to speak of an id that has been used again.
The two acquisitions of the table's mutex in `stream_open`
are one action: a relay leaving between them is the same as one leaving before.
The single-path and the multiplexed connection share this code but for the value of
`MAX_STREAMS` and the choice of an upstream per path.

The backend is external; it is taken to open an id only when it has no open stream
of that id, and to use ids again or not.

### MarketBridges (MarketPage.tsx)

`status` is the backend's view of each session, `bridge` the registry as `BridgeMap`
promises it, `store` the saved `bridge_ports`. What a page keeps in refs dies with the
page while its handlers run on, so `shown` (`bridgePortsRef`), `queued` and `run`
(`reconcileQueue` and the reconciliation in progress) exist per page; `page` is the one
mounted, `listed` its rows. `fetchSessions` is `List`, `Load`, `StopGone`, `EnsureListed`,
`Publish`, `Save`, cut at its awaits; the click handlers (`ClickBuy`, `ClickClose`,
`ClickTunnel`, `ClickRow`) go on in `EnsureBridge`, `CloseBridge`, `SetPorts`,
`SavePorts`, `Refetch`. A run ends at `List` when no answer comes or the token is gone by then,
and otherwise goes through all its steps. Any call may fail; `SaveBridgePorts` swallows its failure as the
code does. `Restart` ends the application at any point. Which port a new bridge gets is
left open, which is more than `nextPortRef` does.

### TunnelUi (useSystemTunnel.ts, tunnel_client.rs, commands/tunnel.rs)

`engine` is the daemon's state and `pushed` the states it has sent that `read_loop` has not
read; `link` is the connection, `closing` from the daemon's exit to the end of its reader.
`cached` is the client's state, `events` the `tunnel://state-changed` events under way,
`shown` and `busy` the store's `globalState` and `globalBusy`; `call` holds the commands and
queries in progress, where each stands, whether it is at its second attempt (`again`) and the
answer it carries. `Emit` is `emit_state`.

The daemon handles the requests of the connection one by one (`GetState`, `StopTunnel` with
its error reply, `StartTunnel`, `Started`) and pushes what its engine enters (`Become`).
`ReadFrame` emits a pushed state; `ReadEnd` ends the reader, gives up the requests without an
answer and shows an error if a tunnel was active. Pushed states are read, and events arrive,
in order, answers at any time: the daemon's broadcast and the task that asked are tasks of
their own, on both sides of the connection.

A command finds the connection, opens one, or writes to one that is closing (`Send`); a start
may have to ask for privileges (`Elevates`, `Prompted`); a call that cannot connect returns its
error without emitting it (`Unreachable`, `Fails`). A request that loses its connection goes
back to `ensure_connected` once, a start possibly to a second prompt (`Retries`), and then
fails (`Unanswered`). `Answered` emits the daemon's reply, but not a stop's error.

One connection at a time: how a new one replaces another whose reader is alive is
`TunnelClient`'s matter, and so are timeouts and the replacement of a daemon of another
build. A start whose ping goes unanswered is one that finds no daemon.

### The other parts, and MCAppShell

Ten modules share no state with one another. `MCAppShell` puts them into one
run: `focus` picks the part that moves in a behaviour and the others stand still, so
their state spaces add up instead of multiplying. No action of a part reads another's
variables, so no behaviour of any part is lost.

- **EventStream** (SSE effect): `setups` are the calls of `setupSse` awaiting the token,
  `es` the stream referred to, `lost` the streams that a later set-up's assignment left
  without a reference; `missed` a token nobody heard of.
- **PriceList** (`fetchPrices`, `CountrySelect`): offers are a version and the countries
  with sellers; `fetches` are answers under way, `inFlight` is `pricesInFlightRef`.
- **Updater**: the banner's hook and the account page, two updaters of one server;
  `orphans` are installs started by an account page since left.
- **Deposits**: the dialog, `pending` (`_pendingDeposit`), the page with its two timers.
- **Language**: each dictionary is its sections and, for each text with a placeholder, the
  value that it asks for; `Given` are the texts that pages show with a value, with the value's
  name. The tunnel's texts exist in English only and `T` falls back to English, so what
  `TextsAgreeWithPages` says is that in every language only those texts fall back, and that a
  text asks for exactly what its page hands over.
- **AuthShell**: `token` is the token file as the backend sees it; each check or call goes
  through `call_api!` (`Succeeds`, `FailsOnce`, `Reauth`, `FailsAgain`), a check through
  `AutoLogin` as well.
- **Wallet**: `commands` are those waiting for the main thread, marked with whether the
  page that asked is still there.
- **SellerLifecycle**: `slot` is `shutdown_tx`; a loop `run`s, `join`s its task for up to
  five seconds and has `ended`; `task` and `fallback` step through `run_single_path_loop`.
  `left` is a history variable, the loops that gave up their join with a path at work.
  One single path and one fallback path stand for several, which share nothing but the
  cancellation token and the event listeners.
- **AndroidVpn** (`android_vpn_jni.rs`, `VpnController.kt`, `ProxyBaseVpnService.kt`):
  `command` are the start and stop commands, cut where they await the engine; `intents` are
  the system's messages to the service, delivered in order on the main thread; `tasks` are
  the native starts and stops that the service has spawned, run in any order. `app` is the
  activity, without which Rust has no context to stop the service with (`StopVpn`). The
  engine is external, as in TunnelDaemon: a stop cancels a start, whose task then stops the
  service. A process that dies may be followed by one with only the service in it.
  `overtaken` is a history variable: a task has run before one spawned earlier.
- **ComplementRoutes**: `complementRoutes` as operators (`AddRange`, `Skip`,
  `ComplementOf`) on addresses of `Bits` bits, against the set of blocks it should return.
  The state is only a way to go through lists of networks.

## 3. Runs

| Run | Instance | What it shows |
|---|---|---|
| `tunnel_daemon` | 2 connections, 1 unread frame | Safety of the owner slot, the lone GUI's promise, and that the task of every closed connection ends |
| `tunnel_daemon_race` | 2 connections | Finding A (a violation) |
| `tunnel_client` | background loop and one elevating command, 3 connections | Exclusive prompts and connection attempts, the writer is current |
| `tunnel_client_returns` | two elevating commands, 2 connections | Exclusive prompts, also on the warm path outside the mutex; every call returns |
| `tunnel_client_stale` | background loop and one elevating command, 2 connections | Finding B (a violation) |
| `bridge_registry` | 2 sessions, 3 commands, 2 hosts, 2 ports, DNS answers of up to 2 addresses | One listener per bridge, no fake address, implementation of `BridgeMap` |
| `seller_streams` | 3 streams, 2 ids, limit 1 | The limit holds, data stay in their stream, open streams stay reachable, relays end |
| `market` | 1 session, 1 click handler, 2 pages, 2 ports | At rest a port shown is served; in the end every open session has its bridge and the page its port |
| `market_race` | 1 session, 1 click handler, 1 page | Finding C (a violation) |
| `tunnel_ui` | 2 proxies, 2 commands, 1 query, 2 moves | Buttons come back; the window ends up showing the engine's state or an error, and is not left asking for privileges |
| `tunnel_ui_error` | 1 proxy, 1 command, 1 query | Finding D (a violation) |
| `app_shell` | the ten modules above, each with its own bounds | Their safety and liveness properties, 16 in all |

The types of the bridge registry and of the seller's streams are proved (section 5) and not
checked by a run of their own.

`PROJECT.json` names for each property of a passing run a mutated definition (the
operators commented "Mutant") that TLC finds to violate it.

**Bounds.** Connection ids and generations are consumed, so instances with finitely
many come to rest: those runs do not check for deadlock, the bridge run does.
- Two connections are what every race of the daemon needs: an owner and another;
  one unread frame lets a request follow the close. The proofs cover any number.
- `MaxGen` bounds the connections opened in a behaviour. Two let one replace
  another (reader of the old, writer of the new); three are needed for two callers
  to be inside `install` together while a writer exists, the case in which
  `WriterIsCurrent` is excused by `overlapped`. The bound replaces the 150 polls of
  `elevate_and_poll`: a poll loop ends when generations run out or by giving up.
- Three commands allow two starts of one session and a stop between them; two
  ports let a preferred port be taken and make ports run out. Answers of two
  addresses let a fake one precede or follow a real one. Symmetry over sessions,
  commands and ports is sound: no liveness is checked there and no action
  distinguishes them.

- `MarketBridges`: sessions meet only in ports and in saved maps written whole, so one
  session with a handler beside the queue has the races; a second page (`MaxPage`) is
  what lets a page left behind run on. Runs queued behind one that has not begun are
  merged: they would see nothing that one does not.
- `TunnelUi`: `MaxMoves` bounds clicks, engine moves and daemon exits, `MaxEvents` the
  events under way when a query is made or a pushed state is read (a reader that waits for
  the window emits the same states later); one query overtakes and is overtaken. Two
  commands meet at the privilege prompt; a session is tunnelled in place of another.
- `app_shell`: `MaxSetups` two set-ups of the stream side by side, the least with which one is lost;
  `MaxBackoff` reaches the cap of the delay; `ManyCountries` = 1 instead of 5 shows the search
  field with two countries; `MaxVersion`, `MaxReleases`, `MaxChecks` two changes and two answers
  out of order; `Lengths` an announced and an unannounced length, `MaxBytes` beyond one of them;
  `MaxOrphans` one install left behind; two `Ids`, so that a deposit is made while another is
  shown; `Countdown`, `MaxLists`, `MaxPolls` a tick, a list and two polls unanswered; a locale
  with a dictionary and one without; two `Checks` and a call with `MaxTurns` = 2 sign-ins,
  sign-outs, expiries and outages; three wallets and two waiting commands; two `Loops` (one
  ending while the next runs) and one start; two `VpnCalls`, `MaxIntents` = 2 messages and
  tasks (a start and a stop that can change places) and `MaxVpnMoves` = 3 commands, activity
  changes, failures, revocations and process deaths; `Bits` = 4 has blocks of every
  alignment, and `MaxExcluded` = 2 networks that nest, touch or stand apart.
- One table entry, two ids and three streams let an open meet a full table, an id be
  used again while its first relay is ending, and a relay outlast its stream.

**Fairness.** Only the liveness properties need any.
- Daemon: weak fairness of every server step (`ServerStep`) per connection: tokio
  polls a task that can go on, an engine call returns, and the owner mutex is
  granted. A GUI need not send or close anything, and the engine need not fail.
- Client: weak fairness of each caller's steps, whose waits end by a timeout (2 s
  for a ping, 90 s for a request, 150 polls) and strong fairness of `Lock`, because
  tokio's mutex is a FIFO queue. `elevate` has no timeout, so `CallsReturn` assumes a
  user who answers the prompt. Readers and the daemon need not make progress:
  `CallsReturn` holds although no answer ever comes.
- Seller: weak fairness of what a relay cannot put off: its connect (10 s), its exit,
  an abort, and the end of a run whose channel is closed. A relay that is still served
  may run for ever; that is what makes a missing abort visible.
- Market: weak fairness of the mounted page's timer and of its reconciliation, and strong
  fairness of a listing and of each start that succeeds: a call repeated every minute
  does not fail every time. Click handlers and pages left behind may hang for ever.
- Tunnel UI: weak fairness of each command and query, of the poll, of event delivery and of
  the reader. The background loop need not reconnect, prompts may stay open, the user and
  the engine may rest.
- Window: timers fire and awaited calls end (weak fairness); strong fairness where the
  code retries for ever and a success must come some time: a set-up that has a token, a
  fetch that brings the offers, a check that finds the release. Outages end; nothing else is
  asked of users and the backend. `checkAuth` has no timer: it runs when the window is
  mounted, focused or made visible (`Layout.tsx:211, 226-239`), so it has no fairness.
  `AuthSettles` is an implication with the premise `ChecksRecur`, that checks go on being made.

## 4. Findings

**A. A tunnel can survive its GUI** (`tunnel_daemon_race`,
`IssuerExitStopsTunnel`). `ipc_server.rs:7-9` promises that the exit of the
connection that issued `StartTunnel` tears the tunnel down when
`stop_on_gui_exit` is set. `StopTunnel` stops the engine (190) and then clears the
owner slot (191). A `StartTunnel` of another connection that runs between the two
is recorded as owner (164) and then erased; its exit finds that it is not the
owner (116) and leaves the tunnel up. It takes two connections with requests in
flight. TLAPS proves that the promise holds for a daemon that has seen a single connection
(`LoneGuiOwnsTunnel`), and for any number of them as long as none has a request served
before the server has read the end of the one before (`GuisInTurn`).

**B. A stale reader can clear the new connection's writer**
(`tunnel_client_stale`, `StaleReaderSparesWriter`). The comment at
`tunnel_client.rs:421-422` says that only the current connection's reader may clear
the writer. The reader compares its generation (423) and then awaits the writer's
mutex (424); an `install` in between (253-254) has its writer cleared and all
pending requests dropped. The callers recover by their retry (`CallsReturn`). What the
comment says holds if no stream is opened while a reader awaits the mutex and no two
callers are inside `install` at once (`StaleReaderSpares`); TLC refutes it under either
condition alone.

**C. A purchase can have its own bridge stopped** (`market_race`, `HealthyBridgeKept`).
`MarketPage.tsx:219-220` says that buying can never race the reconciliation's stop/start
cycle, and 250 that healthy bridges are never restarted. Only `fetchSessions` is in the
queue; `handleBuyFromPrice` starts its bridge (323) and saves its port (327) outside it.
A reconciliation that listed the sessions before the purchase (225) and reads the saved
ports after it (237) takes the new session for one that is gone and stops its bridge
(240-246). The next reconciliation repairs it (`Converges`). Nothing else can: in
behaviours where no purchase falls between those two lines healthy bridges are kept, on
any number of pages and whatever else overlaps (`HealthyKeptApart`).

**D. The poll's own query wipes the error it is careful to keep** (`tunnel_ui_error`,
`ErrorKept`). `useSystemTunnel.ts:117-118` keeps an error shown when the daemon says
disconnected, until the user dismisses it or retries. But `status()` emits the daemon's
state before it returns it (`tunnel_client.rs:562`), and the listener
(`useSystemTunnel.ts:135-137`) shows every event. The property looks only at a poll whose
answer is there, with no command of the user in progress; in the trace a start fails without a
daemon, the next poll finds one, and the event of its answer replaces the error that the
answer itself would keep. The background loop's reconnection emits likewise (76-77, 131-136).

**Seen while modelling, stated by no property** (for all but the last no text promises
otherwise):
- `MarketPage`: a page mounted while its predecessor's queue still runs can show a port
  nothing listens on until its next reconciliation (so `ShownPortServes` speaks of
  the first page).
- `seller.rs:353`: a fallback path that outlives the abort can emit `connected` after the
  seller was stopped (so `EndedShowsDisconnected` leaves out loops that gave up their join
  with a path at work).
- `commands.rs:108`: a reauthentication in flight at a logout saves a token again.
- `i18n/index.tsx:98`: a detection that ends late replaces the language chosen meanwhile.
- `Layout.tsx:89`: a list of currencies that arrives late replaces the choice made.
- `AccountPage.tsx:89`: an install goes on when the page is left, and relaunches the application.
- `useUpdater.ts:52`: an install whose release has been withdrawn returns with `downloading`
  set; 78: the restart is offered on the download's `Finished` event, before the install
  has ended.
- `android_vpn_jni.rs:314, 346`: the runtime may run a native stop before the start spawned
  earlier; the engine then runs without its service (so `RunningHasService` excuses it).
- `VpnController.kt:75`: a stop while the consent dialog is open does not clear
  `pendingConfig`, so the answer starts the tunnel after all; a second dialog finds no
  configuration and reports the permission as denied although it was given.
- `useSystemTunnel.ts:178`: enabling reads the settings from local storage, so with no
  storage they do not apply to the session, which the comment at 51 says (settings are
  not modelled).

## 5. Proofs

Every invariant and every action property that a passing run checks is also a theorem, but
for `TextsAgreeWithPages`, which compares sixteen fixed dictionaries and is TLC's matter; so
is the refinement of `BridgeMap`. They hold for any sets of connections, callers,
sessions, ports, loops and commands, any bound and any width of addresses. The
properties under fairness are left to TLC.

**Assumptions.** The named ones on the constants: a null value is not a member of its set
(`NoConn \notin Conns`), bounds are naturals, positive where the code's are (retries, pages,
queue lengths), ports are positive, literal addresses are hosts, stream ids are finitely
many, the click slots of `TunnelUi` are not its poll slots, and a call that checks the
session is not one of the calls that a page makes (`Checks \cap ApiCalls = {}`). TLC
evaluates all of them in the runs.

**The argument** is the same everywhere: the property is not preserved by a step as it stands, so
an invariant that implies it is, with a lemma per action or per kind of change. What
each adds, and why:

- **TunnelDaemonProofs** (`TypeCorrect`, `FinishedConnections`, `TeardownUnowned`,
  `LoneGuiTeardown`, `GuisInTurn`). The mutex is held exactly by the task in its teardown, and the slot is
  empty meanwhile (`LockInv`); the registry and the slot name only live tasks (`SlotInv`); an
  active tunnel comes from a connection that exists (`LifeInv`); and, for a connection that is
  alone, in which phases the slot may lag behind the engine (`LoneInv`), since
  `LoneGuiOwnsTunnel` speaks only of phases between requests. For GUIs in turn (`OneServed`)
  the slot has the config of whose tunnel is up, but for a step that is yet to record it
  (`TurnInv`); a teardown under way may still stop a successor's tunnel.
- **TunnelClientProofs** (`TypeCorrect`, `ExclusivePrompt`, `ExclusiveConnector`,
  `CurrentWriter`, `StaleReaderSpares`). Only callers that may elevate reach `elevate_and_poll` (`MayElevate`), the
  flag is up while a prompt is open (`PromptFlagged`), and a caller opening a connection holds
  the mutex (`ConnectorLocks`). For the writer, `WriterFollows`: as long as no two installs
  overlapped, a caller inside `install` has the newest generation, so the writer is the newest
  or about to be replaced by it, and its reader is at work or has seen that it is replaced.
  A generation is in one hand, its installer's or its reader's (`OneHand`), so a reader whose
  check still holds has the writer's generation, if there is a writer.
  One lemma, `Moves`, says which moves of a caller preserve the first three, and each action
  is an instance.
- **BridgeRegistryProofs** (`TypeCorrect`, `OneListenerPerBridge`, `NeverDialsFake`,
  `ImplementsBridgeMap`). A port with a pending shutdown is still bound, so a bind never takes
  it (`ToldBound`), and a start keeps its arguments until it binds (`JobInv`). The refinement
  maps `Bind` to `Started` or a stutter and `Stop` to `Stopped`; all other actions stutter.
- **SellerStreamsProofs** (`TypeCorrect`, `DataSeparation`, `StaysServed`, `LimitKept`). A
  table entry is always the stream the backend has open (`EntryCurrent`), which was opened
  with that id (`CurrentOpened`). For `OpenStaysServed`: another relay of its id that is alive
  was so when the stream was opened (`EarlierOnes`), so that a later one cannot be; a relay of a stream the
  backend has open is never aborted (`NoneAborted`), and so an entry goes by the removal of
  one of `earlier`, and by nothing else. The limit rests on the cardinality lemmas of
  `FiniteSetTheorems`, with `Sids` finite.
- **TunnelUiProofs** (`TypeCorrect`, `ButtonsComeBack`). Commands belong to click slots and
  queries to poll slots, which are disjoint, so that no query's return can end a
  command the busy flag waits for; a call without a kind is idle, and a start knows its proxy
  until its reply (`OwnKind`). Lemmas say what a call going
  on, ending or beginning changes; one step lemma per action cites them.
- **MarketBridgesProofs** (`TypeCorrect`, `ShownServed`, `HealthyKeptApart`). What a handler holds follows from
  where it stands (`TasksTyped`). `ShownPortServes` speaks of the page mounted first, so the
  invariant is one while that page is mounted (`ServeInv`): no other page has run
  (`FirstPageOnly`); a session whose purchase has not shown its bridge yet appears in no map
  and no row, nor in what a reconciliation is at work on (`YoungUntouched`); a
  reconciliation works on the rows shown and stops bridges of others only
  (`RunFollowsList`), among them none a handler waits for (`GoneNotAsked`); and what it
  publishes, what is shown until then, and what a handler is about to show are ports of
  bridges (`MergedServes`, `ShownServes`, `PortsServe`). `ClosedFirst` keeps the clicks of
  closes apart: they speak of sessions that are not open any more. Where purchases keep
  away from a reconciliation between its list and its use of the saved ports
  (`PurchasesApart`), nothing on any page knows of a session not bought (`NewUnseen`), so
  what a run is about to stop is never open (`ListsComplete`).
- **WindowProofs**, one specification per part of the window:
  - *Deposits* (`OneDeposit`, `CompletedStays`): the button is held back for exactly the
    one call in progress (`LoadingWhileCreating`), nothing of a page that is not shown is left
    (`NothingOffPage`), a completed deposit is not counted down (`CompletedStopsTicking`).
  - *Wallet* (`WordsOfWallet`): the welcome page has at most one command under way and holds
    its buttons back for it or for a sign-in (`OneAtATime`); what a page left behind is in front
    of what its successor asks for (`LeftBehindFirst`), and so has been run when words are
    shown (`WordsAreSeen`).
  - *Languages* (`SystemFollowed`): every language the two matchers return has a
    dictionary, and no language is called like a placeholder.
  - *Prices* (`PricesAdvance`): one fetch at a time (`OneFetch`), and the table is no newer than
    an answer on its way, nor that than the offers (`TableBehind`).
  - *Updates* (`ProgressGrows`): what is shown of a download is the rounded share of the bytes it
    has got (`ShownIsReceived`); the share grows with them, by lemmas on `\div`.
  - *Seller* (`EndedIsDisconnected`): a task exists only while its loop does
    (`TasksOfLoops`), so that any task that can still emit contradicts the property's
    premise, and the loop's own last event says disconnected. A path that runs on after its
    loop has ended is one that the loop gave up joining, which is in `left`; a loop whose
    paths ran one by one and were joined is not.
  - The types of these and of `EventStream` and `AuthShell`, which take more than their
    conjuncts: a page that is not shown counts nothing down (`OffPageAnew`), only a page
    that streams listens for tokens (`SseInv`), a page's own call never gets to `AutoLogin`.
- **AppShellProofs**
  - *Android* (`EngineHasService`): if the service left last, the last task it spawned is the one
    of `onDestroy`, which stops whatever engine the tasks before it start (`StopIsLast`). For the
    types, dialogs are counted: commands that may still open one and dialogs that are open are
    no more than the moves made (`DialogsCounted`).
  - *Routes* (`RoutesComplement`): for any `Bits`, 32 and 128 among them, and any networks,
    `complementRoutes` returns the largest blocks outside them and nothing else. `addRange`'s
    block is the only largest one that contains the cursor (`GreedyStep`), so the recursion gives
    those of its range (`AddRangeLargest`); after `i` networks the cursor is behind the last
    address of the first `i` (`CursorMoves`), whichever of them nest, and what has been
    added is what lies below it (`SkipStep`). A largest block never spans a gap's end, as the
    addresses beside a gap are excluded (`GapLargest`). A recursive function is a `CHOOSE`:
    each proof gives a solution of its equation and shows that there is no other. Induction is
    by a least counterexample, from the library's theorem that the naturals are well-founded
    (`LeastNatural`); facts on powers of two, on which the provers know nothing, come from
    counting subsets (`TwoToCounts`, with `FS_SUBSET`).
  - *All parts together*: a step of `MCAppShell` is a step or a stutter of each part
    (`PartSteps`), so its behaviours are behaviours of each (`PartsBehave`), and what is proved
    of a part holds of the whole: `ShellTypes`, `EveryAddressRouted`, `ShellSafe`.

**Only model-checked**: liveness under fairness, which is out of the prover's reach:
`ExitTearsDown`, `CallsReturn`, `NothingStays`, `Converges`, `ShownSettles`, `StreamReturns`,
`PricesSettle`, `BannerSettles`, `AuthSettles`, `LoopsEnd`. The findings are TLC's
counterexamples; of A, B and C a theorem says under which condition the comment is right.

## 6. What is not modelled

- Telemetry, the tunnel's settings dialog and bypass list, and the states
  `disconnecting` and `verifying_exit_node`, in which the user can do no more than in
  `configuring_routes`.
- `nextPortRef`, insufficient funds, the keepalive of the tunnelled session and copying on
  the market page; the list of streams and the settings of the seller page.
- The encryption of the wallet, the keyring, the HTTP requests.
- On Android, telemetry, notifications, socket protection and the route to the tunnel's own
  subnet, which is added to the complement.
- The daemon's boot and the recovery of its route journal (planned).
- The byte relay of one connection accepted by a bridge: it shares nothing with the
  registry, which does not end it either.
- Platform installers, service managers, peer authentication, windows, tray and
  rendering: calls of the operating system or pure output.
- Address reuse on Windows: a bind on a bound port fails in `BridgeRegistry`, as the
  comments in `bridge.rs` assume.

## 7. Plan

1. **DaemonBoot**: journal recovery against a daemon that is already listening.
2. **TunnelOwnership**, an abstract specification of the daemon (a tunnel and its
   owner change together), which `TunnelDaemon` implements as long as one
   connection exists; and the composition of client and daemon, in which a retried
   `StartTunnel` must be harmless.
3. The composition of `MarketBridges` with `TunnelUi`: `enable_system_tunnel`'s
   check-then-use of a bridge's port.
4. Proofs: the refinement of item 2, step by step; invariants that the composition of
   item 3 needs.
