# Esp32-MCP in TLA+

Models, model checks and proofs of the concurrent parts of Esp32-MCP: a fleet of
ESP32 boards that execute MCP tool calls sent over MQTT, and the host that
collects their readings, alerts and commands.  Every definition is translated
from the source; `PROJECT.json` names the lines ("map"), the runs, the hazards and the theorems.

## 1. Inventory

| Component | State it keeps | Operations | Interacts with | Hard behaviour | Modelled |
|---|---|---|---|---|---|
| Uplink (`mcp_server/Uplink.cpp`) | buffer pool, queues `free_` and `tx_`, parking lot | acquire, release, submit, nextDue | every producer task; `net_task` consumes | ownership passes between tasks without a lock; jitter against order; sends whose result is ignored | `Uplink`, `DelayChannel` |
| MCP server (`MCPServer.cpp`) | job slots, job queue, dedupe ring, `inFlight_`, tick flag | onDownlink, CANCEL, onOversized, postTick, the worker | MQTT task calls it; worker answers through the uplink | a slot is freed while the next claim and a CANCEL look at it; no buffer for the reply; deadline | `McpServer`, `RequestLedger` |
| MQTT link, Wi-Fi (`net/`) | client, connected, presence bit; credentials, retry timer, scanning | start, stop, net_task loop, announcements; connect, retry, scan, events | uplink, NodeApp | reconnect while settings change; a scan stops what joins | net_task loop in `Uplink`, the rest but announcements in `Provisioning` |
| NodeApp (`main/`) | applied keys, busy flag | startLink, superviseLink, test, scan, configChanged | provisioning, link, Wi-Fi | four tasks apply settings | `Provisioning` |
| Provisioning (`provisioning/`) | settings in RAM and on flash, pending long operation | set, test, scan, reset | console, NodeApp | late results, power loss in a write | `Provisioning` |
| EWP codec | none | encode, decode, checkDownlink | all of the above | byte formats (host tests, interop test) | admission and channel only |
| Fleet registry and store (`fleet/registry.py`, `storage/sqlite_store.py`) | devices, alert sets, write queue, tables | ingest, status, writer, pruner, alerts, forget, command, start, stop | MQTT bridge, HTTP, MCP tools | coroutines share one connection and its commits; crash, shutdown, restart | `FleetStore` |
| Calls to a board (`mcp_stdio_proxy.py`, `mcp/`, `api/routes.py`, `registry.py`, `mqtt_bridge.py`) | the proxy's line, requests, waiters | forward, retry, answer from the manifest; call_device, send_command, record_cmd_result | MCP clients, broker, boards | replies late, lost, doubled; timeouts on both sides; cancelled callers; a server that dies | `DeviceCalls` |
| DNS monitor (`dns_resolver.py`, `dns_mixin.py`) | cache, queries in flight, pending rows, LAN map | handle, forward, record, writer, pruner, sweep, stop | clients of the LAN, upstreams, store, network watch | a batch that is cut; a query that is answered while others evict; who is new on the LAN | `DnsResolver`, `LanSweep` |
| Network watch (`net_alerts.py`) | open alerts, light | on_query, on_new_device, loop, stop | DNS monitor, store, call_device | coroutines overlap at store and board; memory against table | `LanWatch` |
| Datadog export (`datadog.py`) | two bounded queues, checks, backoff | hooks of the registry, flush, stop | registry, HTTP | hooks run while a post is awaited; requeue into a full queue | `DatadogExport` |
| Pi agent (`ionity_agent.py`) | site, state file, Will, outbox of paho | telemetry, set_meta, dns_probe, connect, shutdown | broker, HTTP ingest | threads that save through one temporary file; the Will of the old topic; a crash or an error while the file is replaced | `PiAgent` |
| Network sentinel | sockets, cached schedule, mains flag | broadcaster, endpoints, tools | router, probes, EskomSePush, dashboards | state read after awaits, the close of a connection among them; sockets that break in a round | `Sentinel` |
| Serial bridge (`serial_bridge.py`) | handle of each board, open ports | pump, relay of commands, DNSQ | boards over USB, broker, HTTP ingest | boards change ports; handles die under a thread that writes | `SerialBridge` |
| Fleet dashboard, discovery | none | views, announcements | registry | - | no |
| Provisioning client, portal | pending requests; owner of the serial port | request, retry; open, lease, reattach | a board over USB | late replies; unplug during a lease | no |
| Legacy firmware, scripts, infrastructure | - | - | - | superseded, or run by hand | no |

What makes the modelled components correct:

- *Uplink*: an index has exactly one owner, no queue is ever too small, no frame
  is lost, duplicated, sent early, or reordered among frames of one request, every buffer returns.
- *MCP server*: a job slot has one owner; what CANCEL sees of a slot is where the
  slot is; a CANCEL never hits a later request; a rid is not executed twice within
  the window; an accepted request has exactly one possible answer and settles once.
- *Fleet registry*: a reading is written once or given up knowingly; counters,
  rows and alerts of a board agree through failures, crashes and restarts; a forgotten board stays forgotten.
- *Calls*: a caller gets the reply to its own command or an error, every request of a
  client that has an id is answered, no future is left behind by a timeout.
- *DNS monitor*: every query is answered and, before the host stops, leaves one row, counted once; a device that joins is announced.
- *Network watch*: alerts in memory and in the table agree; the light is what the last hit or the loop meant.
- *Datadog export*: a point is posted, queued, or lost for a known reason; points keep their order.
- *Pi agent*: presence on the broker is true once things are quiet; answered settings survive a crash and later saves that fail; a board without a broker is heard over HTTP.
- *Settings of a board*: a command over the console has one answer, and no scan or test is refused for
  ever; a station with a network to join keeps trying; the key of the link is that of its client.
- *Serial bridge*: a command reaches the board it is for, on whatever port it is by then.
- *Sentinel*: the cause it names fits the report it is in; dashboards that stay keep being served.

## 2. Modules

```
DelayChannel  <-- implemented by --  Uplink  <-- EXTENDS --  McpServer  -- implements -->  RequestLedger
                                       |                        |
                                  UplinkProofs  <-- EXTENDS --  McpServerProofs  <-- EXTENDS --  McpLedgerProofs

MCHost  = EXTENDS DnsResolver, INSTANCE LanWatch, LanSweep, DatadogExport, Sentinel, SerialBridge
MCEdge  = EXTENDS DeviceCalls, INSTANCE PiAgent, Provisioning

FleetStore    <-- EXTENDS --  FleetStoreProofs
DeviceCalls   <-- EXTENDS --  DeviceCallsProofs
SerialBridge  <-- EXTENDS --  SerialBridgeProofs
MCHost        <-- EXTENDS --  HostProofs      -- INSTANCE --> SerialBridgeProofs
MCEdge        <-- EXTENDS --  EdgeProofs      -- EXTENDS --> DeviceCallsProofs
```

**`Uplink`**: the pool, `free_` and `tx_` as sequences of indices and items,
`parked` and `drawn` in the hands of `net_task`, `held[p]` for the buffer a producer
works on.  `nextDue()` is split at its wait on `tx_` (`netPc`), for frames and time
arrive there.  The unchecked sends are `Send`, which drops the item when the queue
is full, as `xQueueSend` with timeout 0 does: that this never happens is `NeverFull`, not an assumption of the model.
`UplinkSpec` closes the module with producers that submit anything, frames with a broken header included.

**`DelayChannel`**: what producers rely on: a bag of items in order of arrival;
the first item that is due is the next to leave.

**`McpServer`** extends `Uplink` with the MQTT task (`mqtt`), the worker (`worker`),
the timer's `PostTick`, and `net_task` (`Net`).  An action is what a task does up to
its next access that another task can see.  `freeSlot()` is two actions (state and
counter, then the queue), `handleCancel()` is two (look, mark), a claim is followed
by the ACK and only then by the job queue.  The handler of a tool is one action
with any outcome.  `requests` is the history of accepted requests.

**`RequestLedger`**: what a gateway sees of one request: accepted, perhaps
executed, then one answer or one loss; never executed after a CANCEL that came
before its execution began, never an ACK after the answer.

**`FleetStore`**: the registry on its asyncio loop, an action from await to await;
`db` is what the connection sees, `saved` what the last commit of *any* coroutine
made durable, a crash takes `db` back to `saved`.  The writer's locals are the
record `writer` (batch, position, and whether the entry it looked up is still the
board's).  `delete_device()` is its four DELETEs and a commit; `Prune` deletes the oldest rows,
between any two statements of the writer.  `Events` chooses what may happen besides readings.

**`DeviceCalls`**: the doors (`Line` of the proxy's client, `McpRpc`, `DeviceMcp`,
`DeviceCommand`, `ApiRead`), the proxy (`Forward`, `Relay`, `TryAgain`, `FromManifest`,
`Unreachable`), and the server (`Call`, `Command`, `Resume`, `Timeout`, `RecordResult`, ...), with
`waiters` for the futures.  A line is what it asks for and its id, given, null or none: the proxy does nothing about
a line that is no JSON, nor about a notification, writes nothing for a null id, and ends at a line that `handle()`
cannot do with.  Board and broker are `Execute`, `Redeliver` and `CommandLost`.

**`DnsResolver`**: a query is its number, `inflight` the tasks, `pending` and
`writer` the rows on their way to the store; `db` and `saved` as in `FleetStore`, over the tables of
the DNS monitor.  `insert_dns_batch()` is two statements and a commit, a failure or `stop()` may cut it anywhere.
The last batch, of `stop()`, is the list `pending` itself: its first statement inserts what is in it by then, its second counts
what has been recorded since as well (`Seen`), and what comes later stays in the list (`late`).

**`LanSweep`**: `_refresh_arp()` step by step against devices that come, go and look
names up before they are found.  `awaited` is who has joined a known network and has not been announced.

**`LanWatch`**: a coroutine of a hit is its place (`task`), `_loop()` is `loop`, the calls of the light are
`call` in the order made; what the board has executed is `lit`.

**`DatadogExport`**: the hooks between the posts of `flush()`; points and events carry the number they were made under.

**`PiAgent`**: paho's thread, the main loop and a thread for each command; `outbox` is what paho
has taken and the broker has not; `session` and `retained` are the broker's side, `host` what the
registry shows.  `save_state()` is a text made of the state, open, write and rename, with the one temporary name all threads share; each step may
fail (`SaveFails`), and the command is answered all the same.  Savers are `SetMeta` and, for a dns_probe, `Remember`.

**`Sentinel`**: every caller of `get_live_telemetry()` has a place `pc`; `data` is the
broadcaster's message, `todo` and `dead` its locals.  Once EskomSePush has answered the status is in the cache, but response
and session are closed (`exit`) before the caller gets it, and what `correlate_link_issue()` reads is the cache by then;
`raced` says that another caller wrote to it meanwhile.

**`SerialBridge`**: a pump is its place in `pump()` with its handle (`pump`), the table PORT_OF is `portOf`; `wire`
says which board a handle leads to, until it is pulled out.  `serial_write()` is two steps (look up, write) of the
relay or of the thread of a DNSQ (`hand`).

**`Provisioning`**: the console (`Told`, `Set`, `StartLong`, `StartJob`, `FactoryReset`, `Reboot`), prov_worker
(`TakeJob` to `FreeBusy`), the main task, which joins at boot, and net_task (`Supervise`).  `connectWifi()` is three
steps of whoever calls it (key, leave, join), `startLink()` four under its lock; the key that it stores is that of its own
settings, or of nothing if its own start failed, whatever the client is by then.  The station, its events and
the broker are actors that may do anything the driver can; the retry timer is `armed`.  A network stands for SSID and
password, a host for what `linkFingerprint()` covers.  `commands` is the history of what was answered.

**`MCHost`** and **`MCEdge`** check several of these modules in one run.  The parts in
one of them share no variables, so that the order in which they take turns is of no
consequence; a behaviour is therefore one of *one* part, chosen by `program`, and the others
stand still.  What one part does to another is in the module of the one it
is done to, as an action of its own: the commits of others (`OtherCommit` in
`DnsResolver` and `LanWatch`), the rows of the DNS writer (`DnsRow` in `LanSweep`), the calls of
a board (`CallAnswered`, `CallTimesOut` in `LanWatch`), the hooks of the registry (`DatadogExport`).

Abstractions to know about: a frame is its kind and its request (the codec is not
modelled); an index stands for its buffer, because the ownership rule proved here is
what keeps a buffer unchanged; one alert code stands for the four independent ones;
the table `telemetry` stands for itself and `telemetry_metric`; `CommandCommit` stands for
every other coroutine that commits the shared connection; at most
one `forget_device()` and one command are in flight; `shutdown()` of the MCP server is left out, the firmware never calls it.
On the host's edges: a tool is the kind of its outcome (answer, refusal, call of a board,
command); one watched domain stands for all; an event of the radio is handled when it happens, for sys_evt has
priority over the tasks; `apply()` and `eraseAll()` are one step each, for every access to the settings takes
their lock, and `SetFails` leaves any mix of old and new on flash; what a test says of the broker is not recorded; TTLs, holds and backoffs may end at any moment;
a site stands for all metadata of a board and for its topics.

Definitions called *deviations* are operations with one mistake.  No specification
uses them; put in the place of the operation that follows them, they show that a property notices the mistake.

## 3. Runs and bounds

| Run | Bounds | What it shows |
|---|---|---|
| `uplink` | four buffers (`kMaxSlots` of the model is four as well), two producers, frames due at 0, 1 and 2 | ownership, room in every queue, the channel, buffers come back |
| `server_slots` | two job slots, one uplink buffer, three requests of two kinds with three rids, ring of two; two alike rids are interchanged by symmetry | everything about job slots, the ring as it wraps, and the ledger, when buffers are short and CANCEL comes at any moment |
| `server_replies` | two uplink buffers, clock to 2, one broadcast request with ACK | the ACK and the answer are parked together and leave in order: the ledger |
| `server_live` | one slot, one buffer, two requests | every accepted request settles |
| `fleet_faults` | one board, queue 2, batch 2, three readings | accounting, alerts, counters through failing statements, foreign commits, pruned rows, crashes, orderly and timed-out shutdowns; readings settle and shutdown ends |
| `fleet_forget` | two boards, two readings, commands, failing statements, crashes | forgetting one board between any two steps of the writer |
| `host` | DNS: two queries that ask two types of one name, two at a time, two upstreams, a cache of one; watch: one address, two lookups or arrivals; sweep: two devices, three moves; export: queue of three, two per post, six points, three events; sentinel: two dashboards, one client, two changes, a router that does not answer; bridge: two boards, two ports, two moves | rows and counts of queries, every client answered; alerts and light follow activity; joiners announced; points accounted for; the verdict fits its report, dashboards follow; handles lead to their boards |
| `edge` | one line of the proxy's client, which may have no id, be no JSON or end the proxy, one request of another, two faults; agent: two sites, a threshold of two tries, two moves (commands, saves that fail, drops, crashes, stops); board: one network, one host, two commands, one restart | replies reach their callers, futures are not left behind, every line with an id is answered; presence is true, settings survive, HTTP takes over; one answer to a command, the radio keeps trying, the key of the link is true |
| `fleet_forget_race` | one board | **violated**: a reading the writer holds is written after the DELETEs |
| `fleet_restart_alert` | one board | **violated**: a board is online with an alert open for ever |
| `test_wrong_network` | two networks, two commands | **violated**: a test on the wrong network reports Wi-Fi as up |
| `proxy_retry` | one line, one slow reply | **violated**: the board carries out one line of the client twice |

Why they are enough: a hazard of the uplink needs at most two frames parked, one
queued and one drawn; one of the slots needs a job being freed, one being claimed and a
CANCEL; the ring needs more requests than places plus one.  In `FleetStore` three
readings raise, clear and raise an alert, across a full batch, and more readings than the queue holds.
`server_slots` freezes the clock (`MaxNow = 0`), on which neither slots nor ring depend.
Two queries overlap, share a batch or fall into two, and make a cache of one evict; two hits overlap
with each other, with the loop and with a restart.  Six points fill a queue of three twice, so that
a requeued batch meets a full one.  A line has at most two requests, and one of another
client is enough for a reply to be mistaken.  Two moves of the agent are two commands that overlap, or
a command and one crash, stop, drop or failed save in its middle; a failed save, a second command *and* a crash are more than the run
has, and in the theorem `MetaAlwaysSurvives`, which is for any number.  Two commands of a console are two scans or tests that
meet, or one that meets a set, and the main task joins beside them.  A board that moves from one port to the
other while the pump of the first still has its line is two moves.
The routers that are simulated when none answers are off in the run (`Simulate = FALSE`); the theorem `VerdictIsOfItsReport` is for both.
`CHECK_DEADLOCK FALSE` is said where the bounds, or a shutdown, let everything come to rest.

### The four disagreements

- `registry.py:434` says pending writes are flushed "so the delete is not raced by
  the writer".  Only the queue is drained; a batch already taken is written later and
  the board has rows again, and after the next start an entry.  `ForgetPurges` (passes) says
  what does hold: without such a batch nothing is left.
- `TELEMETRY-SCHEMA.md:114` says an online board has no open alerts.  `start()` restores
  boards with an empty alert set (`registry.py:69`), and an alert is only cleared if its code
  is in that set; a condition that ended while the host was down stays open in the table.
- `mcp_stdio_proxy.py:249` says that after a timeout the backend "accepted nothing".  A call of a
  board may take as long as the proxy waits; the request was accepted and published, and the
  retry publishes it again under another id.
- `PHASE-2-PORTAL.md:233` says a test joins with the stored settings.  `connectWifi()` stores the key and
  then connects (`NodeApp.cpp:72`); when two tasks are in it at once the key can name one network and the radio be on
  the other, and every later test believes the key.

More of them, without a run of their own:

- `README.md:115` says a device that uses the resolver "is logged".  `stop()` closes the listener after the writer has ended
  (`dns_resolver.py:327`, `:330`), and the last insert works on the list that answers are still recorded in (`:452`): a row that
  comes then is counted and not inserted, or is left in the list.  `RowsAccounted` says that no other row is lost (`late`).
- `services/network-sentinel/README.md:56` says a fibre cut means no load shedding.  The verdict looks at the cache, not at
  the status that was returned (`loadshedding.py:127`), and closing the connection lets another caller put the mock there.
  `VerdictFitsReport` says that this is the only way for verdict and telemetry to disagree (`raced`).
- `devices/pi-agent/README.md:44` says a new site is saved.  Threads that save share one temporary file (`ionity_agent.py:102`): a
  dns_probe that remembers its server can take it away or empty it, and a save that fails is answered as done (`:105`).
  `MetaSurvives` is for saves that do not overlap, and for sites whose own save did not fail.
- `README.md:161` says the bridge keeps answering.  A line that is JSON but no object, a batch for one, which the server itself
  takes (`routes.py:304`), raises in `handle()` (`mcp_stdio_proxy.py:210`) and ends the proxy (`"ended"` in `DeviceCalls`).
- `serial_bridge.py:80` says that a board without radio can be commanded "exactly
  like a networked one".  The table keeps the handle of a board that was pulled out; writing to it raises in
  `on_message()`, and paho 2.1.0, which `requirements.txt` pins, ends its thread (`RelayRaises`): no board gets a command any more.

## 4. Fairness

*Firmware*: each task is weakly fair: FreeRTOS schedules every ready task, the waits
are bounded, handlers are expected to return.  Nothing is assumed of gateways, of PostTick or of the link, which
may be down at every attempt.  `EveryRequestSettles` therefore holds for requests that
are finitely many: with an endless stream of PRIORITY requests, which enter the queue at
the front, a normal one may wait for ever, and the model does not claim otherwise.

*Fleet host*: the loop runs ready coroutines and SQLite answers, with success or
failure.  Neither crashes nor starts are assumed, nor that the ten seconds of `stop()` run out.

- `DnsResolver`: some query in flight takes its next step (each has finitely many), for
  `wait_for()` ends every wait for an upstream.  Answers of upstreams are not assumed.
- `LanSweep`: the sweep goes on, as `_arp_loop()` does after any failure.  Nothing is assumed of devices.
- `DeviceCalls`: the proxy goes on, and some open request of the server does: every wait
  has its limit.  That a board executes, or a reply arrives, is not assumed.

`Provisioning` is checked for safety only: nothing is assumed of its tasks, of the radio or of the broker.

*Serial bridge*: ports are looked over and tried again at intervals, and a board that is plugged in prints its
reading again and again; commands and DNSQs are not assumed.

*Sentinel*: the broadcaster goes on, its waits are limited.  *Pi agent*: the main loop transmits
once an interval and paho notices that a connection is gone.  That a connection is made, or that the
network heals, is not assumed.

## 5. Proofs

`UplinkProofs`, for every number of buffers, producers, frames and instants, from
`UplinkAssumption` alone (the pool is not larger than the parking lot, as `begin()` checks):

- `UplinkTypeCorrect` (which no run checks apart), `BuffersHaveOneOwner`, `QueuesNeverFull`, `UplinkImplementsChannel`.
- The invariant is the type invariant with *both* halves of ownership: no index has two
  owners, and none is lost.  Neither is inductive without the type invariant, for
  a sequence of indices without repetitions is no longer than the pool (lemma by
  cardinality); that one fact gives room in `free_`, in `tx_` and in the parking lot, so
  that no send drops its item, so that no index is lost.

`McpServerProofs`, from `ServerAssumption` in addition, for every number of slots, every window and any set of headers:

- `ServerImplementsUplink`: each step of the server is a step of the uplink or leaves it
  alone; so `ServerBuffersHaveOneOwner` carries the theorems above over to the server.
- `InvAlways` with `Inv` = the uplink's invariant, `ServerTypeOK`, the locals of the
  two tasks against the buffers they hold (`LocalsOK`), `JobSlotOneOwner`, and `TickOnce`;
  hence `ServerTypeCorrect`, `JobSlotsHaveOneOwner` and `JobQueueNeverFull`.
  `TickOnce` is needed because the job queue holds one tick besides the slots: the branches
  for a full queue are dead code only if a second tick cannot enter.

- `SlotInvAlways` with `SlotInv` = `Inv` and what the tasks know of a slot: hence `StateTellsOwner` and
  `CancelFlagIsFresh`.  Between the two halves of `freeSlot()` a slot is neither live nor free,
  and is the worker's only one; `CancelFlagFresh` needs `CancelPending`, what `handleCancel()` saw is recorded in the request it saw.
- `RingHoldsRecent`: read from its head backwards, the ring is the history read from its end (`RingOK`), so
  that its wrap needs no case of its own.

`McpLedgerProofs`, from the same assumptions: `LedgerInvAlways`, `RequestsHaveOneCarrier` and
`ServerImplementsLedger`, the refinement.  `OneCarrier` alone is not inductive.  The invariant follows a request
through the slot (`SlotStory`), the worker's locals (`RunStory`, `HoldStory`), and the frames that are queued, drawn
or parked (`FrameStory`, `AckStory`); in each place it says what the request may have come to by then.  An action moves a
request from one place to the next, so each has one lemma for the places it leaves alone and one for those it touches.

`DeviceCallsProofs`, from `CallsAssumption`: `CallsInvAlways`, `OwnReplyAnswers`, `WaitersAreExact`.  The two
properties hold because an id names its own request and a future is kept under it (`OwnIds`), and because a reply
on its way is to a command that was executed (`RepliesEarned`).  `CallsTypes` adds the limits: the requests of the proxy and those of
others are counted apart (`ClientStory`), for a line has one request or two as far as the proxy has come with it; a command is executed
twice only where QoS 1 repeats it, and for that what is on the wire is held against what was executed (`CommandsOnce`).

`FleetStoreProofs`, from `FleetAssumption`, for any boards, limits, readings and faults:

- `StoreInvAlways`, hence `FleetTypes`, `ReadingsAccounted`, `OneOpenAlertAlways` and `ForgetPurgesAlways`.
  `EveryReadingAccounted` needs the order of the readings (the writer works on older ones than those in the queue),
  what the writer has still to store, and what each phase of the server leaves (`PhaseStory`); `ForgetPurges` needs
  which tables a deletion has passed (`PurgeStory`).
- `RowsBackStateAlways`, under the hypothesis `"forget" \notin Events`: counters cover the rows together with what the
  upsert of the running batch has counted ahead of its insert (`Owed`).  The hypothesis is
  needed: between two DELETEs a batch may be inserted or an alert raised.  TLC finds that state
  when "forget" is added to the events of `fleet_faults`; the run `fleet_forget` covers deletion by `ForgetPurges`.
- The library's induction theorems cannot be used here, for they take an operator.  Facts that need induction, as
  on the running count of a queue, follow from `Least`: a set of naturals that is not empty has a
  least element, which the library states of well-founded relations without one.

`SerialBridgeProofs`, without assumptions, for any boards, ports and number of moves: `BridgeTypeCorrect` and
`CommandsStayHome`.  `TableLeadsHome` is not inductive alone: a pump writes the table some time after it
read the line, so that `PumpTrue` says that its handle still leads to the board whose line it has, or nowhere.
TLC checks `TableLeadsHome` as the first part of `BoardsReached`.

`HostProofs`, from `DnsAssumption` and `HostAssumption` (a deque and a batch hold something, the host is not its own neighbour), for any addresses, queries, sizes and faults:

- `AnswersLeaveRows` (`DnsResolver`): the invariant adds that a running task has sent nothing, and how far the batch has come;
  once the last batch is on its way only what was recorded since may be without a row (`late`), and only then.
- `AlertsAndActivity` (`LanWatch`): a coroutine on its way to the store keeps its alert out of the loop's hands (`Kept`),
  which is what the long hold time is for.
- `LightIsAsSet` (`LanWatch`): the last call says what `light_on` is, and once the board has executed it no earlier one is on its way.
- `PointsKept` (`DatadogExport`): the batch and the queue are one increasing line (`LineStory`), also
  when a batch goes back in front of a queue that has filled up.
- `VerdictIsOfItsReport` (`Sentinel`): while the broadcaster closes its connection the cache is what it was told, unless `raced`.
- `PartsKeepTheirWord` puts them together: a step of one part is a stutter of the others.
- `DnsTypes`, `WatchTypes`, `ExportTypes`, `SweepTypes`, `SentinelTypes` and, for the whole, `HostTypes`: the limits of
  queues, tasks, cache and posts.  A datagram gets a task only where there is room, and every answer that is cached evicts in the same step; the queue of points is cut again when a batch comes back (`ExportRest`).  The type of the bridge is
  `BridgeTypeCorrect` of `SerialBridgeProofs`.

`EdgeProofs`, from `EdgeAssumption` (the configured site is a site, the strings for "no site" are not, bounds are naturals) and
`CallsAssumption`, for any sites, networks, hosts, number of commands and threads:

- `CommandsAnsweredOnce` (`Provisioning`): the pending scan or test is in exactly one place, with the console, in the
  queue or with prov_worker, and is the only command without an answer.
- `RadioAlwaysTries` (`Provisioning`): nearly inductive; it needs who is in `connectWifi()` and `scan()` at the same time (`PlaceStory`).
- `LinkKeyStaysTrue` (`Provisioning`): the lock keeps the other task out of `startLink()`, so that from the start of a client to its key
  nobody replaces it; what the holder has in hand is then the client.
- `PresenceAlwaysTrue` (`PiAgent`): the invariant is about what the broker *will* have once the outbox is delivered
  (`EndsOnline`), for the retained status alone is true only at rest.  While one thread moves the agent it tells the three
  stages apart: nothing sent, offline sent, both sent.
- `MetaAlwaysSurvives` (`PiAgent`): the file has the site of an answer, or of a later set_meta, from before the answer is sent;
  the one who saves has the file next to it for himself, and what it writes is the state, which is no older than the last answer.  A save that
  fails leaves the state file alone and makes its own answer worth nothing.  When two save at once, a dns_probe or a
  set_meta, the promise is void until a set_meta comes that has the file alone, which `NothingPromised` says once for all steps.
- `AgentHasTypes`, `NodeHasTypes`: types and limits.  No thread or answer is ahead of the last set_meta that came, and every one of
  these was a move (`Limited`); a test goes to the broker only with a host, for `runTest()` is over before that with
  standalone settings (`JobTyped`); a restart that is under way was allowed when it was asked for (`StoreTyped`).
- `EdgesKeepTheirWord` and `EdgeTypes` put the parts together, with the calls of `DeviceCallsProofs`: a behaviour of `MCEdge` is
  one of each of them (`SideBySide`).

With these every safety invariant that a passing run checks, and both refinements, are theorems.  Model-checked only: all liveness (`BuffersComeBack`, `EveryRequestSettles`, `EveryReadingSettles`, `EveryClientAnswered`,
`JoinerAnnounced`, `DashboardsFollow`, `BoardsReached`, `EveryLineAnswered`, `FallsBack`), which is out of the prover's
reach.  `RowsBackState` is proved without "forget" among the events only, as said above.

## 6. Plan

1. What can be said, and proved, of the counters of a board while it is being forgotten, in the place of the hypothesis of
   `RowsBackStateAlways`.
2. The announcements of `MqttLink` (presence, HELLO), composed with `Uplink`, whose buffers they wait for.
3. `ProvClient` and `SerialSession`: retries matched by operation; who owns the port.

## 7. Not modelled

- *Wi-Fi driver, MQTT client of the firmware, NVS*: vendor code; `Provisioning` has them as actors and
  assumes no order of their events.  Left out there: events that wait in the vendor's queue, the one STA_START
  at boot, the delays of the retries, and `saveMode()`, which touches no other setting.
- *Formats*: the EWP bytes, JSON, DNS messages beyond what tells an answer from a refusal, SQL beyond the
  effect of a statement.  They are sequential, stateless and covered by the repository's own tests.
- *Views*: what the dashboard, the queries of the tools and the HTTP reads return; they change nothing.
- *Measurements*: what probes, pings, speed tests and sensors report is chosen freely where a model uses it.
- *Time*: delays, rates and TTLs are moments that may come; how long something takes is not said.
- *Discovery, scripts, packaging, infrastructure, legacy firmware, flasher*: no state that others
  read, run by hand, or superseded.
- *Of the serial bridge*: `--port`, the labels, the sites in its topics and the DNS query that it makes for a board.

The hazards are listed in `PROJECT.json`, those of parts that are not modelled as well.
