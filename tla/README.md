# TLA+ models of enody-rs

enody-rs is the host-side library for Enody lighting devices. A program finds
devices over USB and WiFi (*environments*), holds a *runtime* for each, and
executes commands on the device's host, fixtures, sources and emitters. This
directory holds specifications of its concurrent core, the TLC instances that
check them and TLAPS proofs about them. Source paths are relative to the
repository root; the crate's code is under `src/`.

## 1. Inventory

| Component | State | Operations | What must hold |
|---|---|---|---|
| `RemoteRuntime`, command exchange (`runtime.rs`) | `pending_commands`, one response channel per call, the unmatched-message channel, `logging_enabled` | `execute_command*`, `send_command`, `next_message`, `enable_logging`, `message_dispatch_task` | a response reaches the call that waits for it, or is handed on; calls end; no registration outlives its call |
| `RemoteRuntime`, life cycle (`runtime.rs`) | `dispatch_task`, and the transport's connection and `message_rx` slots | `connect`, `disconnect`, `ensure_`/`stop_dispatch_task` | a connection is served by exactly one dispatch task |
| Transports (`wifi.rs` 632-958, `usb/rusb.rs` 20-351, `usb/serialport.rs` 30-260) | connection slot, receive-channel slot, reader task, Noise state, writer | `connect`, `disconnect`, `send_message`, `recv_message` | frames arrive in nonce order; a dead reader is noticed |
| `WifiEnvironment` (`wifi.rs` 146-630) | exclusions, connected runtimes with their misses, event channel, discovery task | `exclude_host_id`, `reconcile_discovered_devices`, `start_`/`stop_discovery`, `next_runtime_event`, drop | events tell the story of the connected set; an excluded host does not come back |
| mDNS search (`wifi.rs` 1204-1600) | devices found so far | `discover`, `collect_mdns_devices` | a device is reached where it is, not where it was |
| `UsbEnvironment`, two backends (`usb/`) | connected runtimes, event channels, handler task, known ports | `handle_device_arrived`/`_left`, hotplug callbacks, polling, start, stop and drop | a device is represented once, and is found again after it was unplugged |
| Framing (`serialization.rs`) | partial frame of a byte stream | `push_byte`, `frame`, `unframe` | what was framed is recovered; the stream resynchronises |
| Resources (`host.rs`, `fixture.rs`, `source.rs`, `emitter.rs`, `spectral.rs`) | none but the runtime handle | count-then-index traversal, spectral download, transitions, network scan and join | termination, sizes, the answer that ends a transition |
| Token store and pairing (`token_store.rs`, `wifi.rs` 1027-1139, `main.rs`) | the JSON file | load, upsert, save; pair, verify | no token is lost, none is stored that does not work |
| Firmware update (`update.rs`) | ports, target host, payloads | list and group ports, select, download, flash, verify | the board that was chosen gets what was chosen; the updated host is the one that was flashed |
| Command-line tool (`main.rs`) | hotplug monitor's list | sequential calls of the library | - |

How they interact. A call of `execute_command_with_timeout_until` pushes a
registration under the `pending_commands` mutex, calls `send_message` of the
transport and waits on its response channel. The transport's reader task (an
async task for WiFi, a blocking thread for USB and serial) decodes messages
into a 64-slot channel. The dispatch task takes them out (`recv_message`),
looks up the registry, and sends each to a response channel or to the
unmatched-message channel that `next_message` reads. `connect` and
`disconnect` create and abort these tasks. Environments create runtimes,
connect and disconnect them, and report them through an event channel.
Everything is shared by `Arc`, so any number of tasks may be inside any of
these operations at once.

The hard parts: futures dropped at any await (timeouts and cancelled callers),
a dispatch task that can be aborted with a message in its hand, bounded
channels of which some block and some drop, three locks taken one after the
other by connect and disconnect, readers that end without telling anyone, and
two environments that see the same device. `PROJECT.json` lists these hazards
at their lines.

## 2. Plan

| # | Module | Abstract specification / theorems | State |
|---|---|---|---|
| 1 | `RemoteRuntime` | implements `CommandExchange`; one fate per event, order, exact registry, no missed response; theorems for each safety property and the refinement | done |
| 2 | `RuntimeLifecycle` | exactly one dispatch task per handle; a connection is served unless calls overlap; theorems for both and the types | done |
| 3 | `WifiConnection` | what a peer can decrypt, whom a connection is with; theorems for both | done |
| 4 | `WifiEnvironment` | the list against connections, events and exclusions; theorems for each safety property | done |
| 5 | `UsbEnvironment` | two backends, one representation per device, a list that is current once all reports are worked off; theorems for each safety property | done |
| 6 | `MessageStream` | resynchronisation on a damaged line, byte by byte; theorems for it, for the types and for the checks of `unframe_bytes` | done |
| 7 | `RemoteResources` | whole listings, exact downloads; theorems for both | done |
| 8 | `TokenProvisioning` | lost updates, torn writes, retries; theorems for both properties | done |
| 9 | `FixtureTransition` | what the end of a transition means; theorem | done |
| 10 | `FirmwareUpdate` | what is flashed, what "verified" means; theorems for both | done |
| 11 | `MdnsDiscovery` | lost, repeated and reordered answers; theorem | done |

`RemoteRuntime` comes first because everything else goes through it. It takes
connect and disconnect as issued one after the other; `RuntimeLifecycle`
takes the exchange as "a message arrives" and interleaves connects and
disconnects. `MCParts` composes the modules that share no state with each
other, 3 and 5 to 11, into one instance; `PartsProofs` carries the theorems of
the parts over to it.

## 3. The modules

### RemoteRuntime

A step is the code between two await points, or one critical section of the
registry mutex, which the code never holds across an await.

| Code | Model |
|---|---|
| position of a call in `execute_command_with_timeout_until` | `pc`, `outcome`, `answer` |
| `response_rx` / `response_tx` | `chan[c]`, at most `Buffer` events (`COMMAND_EVENT_BUFFER`) |
| the `Vec` of registrations | `pending`, with `ahead[c]` for the order `find` sees |
| the command between `send_message` and the device | `wire[c]` |
| `message_dispatch_task` | `disp`, `hand` (the message), `target` (the cloned sender) |
| the channel of `next_message` | `unmatched`, at most `UnmatchedCap` |
| the transport | `link` (`deaf`: the reader task has ended), `inbound`, at most `TransportCap`; `DropsWhenFull` distinguishes USB and serial from WiFi |
| `connect`, `disconnect` | `ctl`; `OpenConnection`, `EnsureDispatchTask`; `StopDispatchTask`, `CloseConnection` |
| where every event went | `emitted`, `given`, `swallowed`, `forwarded`, `logged`, `dropped`, `overflowed`, `lost` (history) |

Events are reduced to an id, a context and a kind: `error` (`Event::Error`),
`terminal` (what the closure `is_terminal` accepts), `intermediate`, `log`.
Calls in `OneShot` are those of `execute_command`, whose closure accepts
everything. The device answers only commands it received, with anything, in
any number; it may also speak unasked. Cancellation (`Cancel`) may happen at
every await of the call.

Three losses are told apart. `lost` went down with the connection or with the
aborted dispatch task; `overflowed` was thrown away by a reader while the
connection was up, because the receive channel was full; `swallowed[c]` was left
in the response channel of a call that ended. `ResponsesReachTheirCall` names
the first two as the only ways an event for a call that is not over goes
astray, the second only for a transport with `DropsWhenFull`. `OneFate` says what
the third may be: no more than the channel held, nothing as long as the call is
not over, and of an answered call only what followed its answer.

`Chatter` is a device that sends for ever: from event `MaxMessages` on they
are not told apart, so that the state space stays finite and the device does
not fall silent. It is a step of `EndlessNext` only, since the safety
properties tell events apart.

Two abstractions to know of. `StopDispatchTask` lets an abort take effect at
any await of the dispatch task; tokio aborts a task at the await it is at.
`TimeOut` requires an empty channel, because `timeout_at` polls the receiver
before the deadline; the exception tokio makes for a task that exhausted its
cooperative budget is not modelled. The `Closed` branch of
`forward_unmatched_message` cannot be taken: the runtime the task holds owns
the receiver.

### CommandExchange

What the caller is promised, without registry, dispatcher or transport: a
submitted call ends at most once, with an event the device emitted for its
context and that no other call was answered with, of the kind the outcome
says, or with a failure, or because it was dropped. `RemoteRuntime` implements
it even when two calls carry the same context.

### RuntimeLifecycle

`connect` and `disconnect` on clones of one runtime. Each critical section
over the connection slot (`conn`), the receive-channel slot (`slot`) and the
dispatch-task slot (`handle`) is a step; `user` is where each caller is. The
three transports (`backend`) differ in who owns the receive channel during
`recv_message` (WiFi and serial hold the slot's lock, rusb takes the channel
out), in what a disconnect without connection does, and in what a failed
reader does to disconnect. `ReaderFails` is the end of a reader on an error.
Every call runs to its end here; a connect or disconnect dropped half-way is
not modelled.

### WifiEnvironment

The discovery task and `exclude_host_id`. The two std mutexes are held for one
critical section each, so each section is a step; the task awaits (and can be
aborted) where it connects, disconnects and sends. A round is `Discover`
(devices found, exclusions copied into `snapshot`), `CheckDevice` and
`ConnectDevice` per device, `CountMisses`, `CloseMissing` per missing runtime,
`SendEvent` per event. Runtimes are the n-th connection to a host. `told`,
`unsent` and `abandoned` are history: events the application got, events lost
(a full channel, an abort), runtimes an abort left open or in the middle of
their disconnection. `discover` returns any set of hosts. `DropExclude` is an
`exclude_host_id` whose future is dropped in its disconnect. `DropEnvironment`
does not wait for the abort it asks for, so a connect may still succeed on
another thread; the runtime it makes is open and nobody's. An abort may also
hit a `send` that has room, which tokio does only when the task yields.
Whatever is listed at the drop is disconnected: to list anything takes tokens,
and then the environment was made inside a tokio runtime whose handle it keeps
(`wifi.rs` 261, 603-605).

### WifiConnection

One connection handle. `slot` and `rx` are the two slots `connect` fills one
after the other, `op` is where the task that connects and disconnects is; its
future may be dropped at any await (`ConnectEnds`, `DropConnect`, the second
branch of `DisconnectEnds`). The handshake succeeds if the peer has the
pre-shared key and is the host of the token: both are mixed into it
(`wifi.rs` 976-998), so another device that has the key, at an address that was
the host's, does not get through it (`OnlyTheTokensHost`). `send` is where each `send_message` is: it has cloned
writer and noise state, encrypted under the noise lock, or is writing under the
writer lock. A frame is its nonce, written in two pieces so that a torn or
interleaved frame shows. `gap` and `overlapped` are history.

### UsbEnvironment

`physical` is the world: what is plugged in, with a new address each time.
`pending` is what libusb has yet to tell the callbacks, `known` the port map of
the poll thread, `deviceq` the channel into which both `try_send`, `handler`
the event handler task. A device object (`Device`) is a backend's view of one
plugging; `SameKey` is the comparison of connection keys, which for a port
does not change when the device is plugged in again. Opening a device with
libusb takes its port away (`Claimed`). `Opened` is what a runtime's connect
reaches: libusb opens the device object it was made of, a port is opened by
name, whichever plugging is behind it now. `cached` says that `new()` connected
a device, for which it needs a tokio runtime whose handle it keeps; an
environment without one that is dropped outside tokio leaves its connections
open (`usb/mod.rs` 366-368), which `NoConnectionLeaks` therefore does not
exclude. `unseen` and `refused` are history:
devices of which a report was lost or a change not noticed, and devices that
did not open, lost their port to libusb or were closed by the application.
They are the exact conditions under which the list need not follow the world.
What is plugged in at first was plugged in once, and one listing per device is
the least there can be, so `UsbEnvironmentAssumption` has `MaxPlugs` and
`MaxListed` at least 1, and `Devices` finite.

`ReportedInOrder` joins `EveryChangeReported` (no change of the list goes
unreported) and `ArrivedBeforeLeft`, which is the story `environment.rs` 26-29 tells of the events.
`SettledListIsCurrent` is about the states in which nothing is under way
(`Settled`): both the device channel and libusb's queue are empty, the handler
waits, and a tick of the poll would see no change. It is the safety core of
`ListFollowsDevices`, which adds that such states are reached.

### MdnsDiscovery, MessageStream

`MdnsDiscovery` applies `collect_mdns_devices` to packets that carry any subset
of the records of an instance, in any order, again or never, while the device
may change its address; `latest` and `resolved` are history.

`MessageStream` has an action for each iteration of a loop over bytes:
`EscapeByte` is one of `escaped_bytes`, `AwaitFrame`, `DropFrame`, `TakeByte` and
`EndFrame` are the branches of `push_byte`, `UnescapeByte` is one iteration of
`unescape_bytes`, of which `unescape` holds the locals, and `FoundPayload` its
return. A device frames payloads and a line loses or flips a byte anywhere or
cuts the beginning of a frame (`Damage`). Only the order of the bytes matters to
the reader, not when they come, so a frame is begun when the last one was read.
`intact` counts the whole frames in a row. The buffer is bounded as without
`std`; since `Capacity` may be any number large enough for a whole frame, what is
proved holds of a `Vec` too. `Unframes` are the checks of `unframe_bytes`, which
never fail: `push_byte` hands it nothing else.

### TokenProvisioning

Several processes of the tool. `Ask` to `AttemptFails` are `runtime token`
and `wifi generate-token` with the eight attempts at verification
(`main.rs` 1171-1220); `Load`, `Truncate` and `WriteAll` are `save_token`, which
writes the file in place; `ProcessEnds` is a kill or an I/O error. Devices let
a key in some time after they made it (`AcceptKey`). A store maps hosts to
keys; `Files` also has the file that is missing and the one `serde_json`
refuses. The bound on keys is on those any two devices make together.

### RemoteResources, FixtureTransition

`RemoteResources` is `scan` and `spectral` of the tool on top of `fixtures()`,
`sources()`, `emitters()` and `spectral_data()`: a count, then one request per
index, each of which may fail, on a device that may be rebuilt in between. What
a device may be made of is a tree (`RemoteResourcesAssumption`: identifiers are
unique, so a part is part of one thing). The offset of a download wraps at 2^32
as in a release build.
`FixtureTransition` is a set of `transition` calls and the device: a fixture
runs one transition and drops it for another command. The interrupted one ends
with its own transition and the state it had got to, as `message.rs` 406-412 and
the repository's README (58-64) have it, or with an error, or without a report; so a
call may return `Ok` of an interrupted transition, with a state (`cut`) that
differs from the target. `OkTellsTheEnd` is about what that state tells.

### FirmwareUpdate

`update_remote_host` from the listing of ports to the verification, with the
boards' firmware (`old`, `broken`, `torn` while it is written, `new`, `dud`
when it was written but does not run, or `old` still when what was written is
not what the board boots), the number of payloads `wanted` and the sockets they
are in. `attached_raw` is `ListPorts` and one `GroupPort` per port; `attached` is one `AskTarget` per
target found (`asked` counts them), so a board may be moved while its
neighbours are asked. `Replug` swaps two boards once. `update_device` is the
part from `FetchManifest` on.

### Proofs and instances

`*Proofs` hold the theorems of section 5: `RemoteRuntimeProofs`,
`RuntimeLifecycleProofs` and `WifiEnvironmentProofs` those about the module they
are named for, `TransportProofs` those about `WifiConnection` and
`MessageStream`, `ProvisioningProofs` those about `TokenProvisioning` and
`FirmwareUpdate`, `DiscoveryProofs` those about `UsbEnvironment` and
`MdnsDiscovery`, `ResourceProofs` those about `FixtureTransition` and
`RemoteResources`, `PartsProofs` those about `MCParts`. `MCRemoteRuntime`,
`MCRuntimeLifecycle` and `MCWifiEnvironment` only give constants their values.
`MCParts` is a sum of eight specifications: the initial state chooses a part,
only that part takes steps, the others stay where they begin. Each part is
explored completely; nothing is lost by not interleaving parts that have no
variable in common.

## 4. The runs

| Run | Question | Bounds |
|---|---|---|
| `runtime_interleaving` | Can any interleaving of calls, dispatcher, cancellation, timeout, disconnect and reader failure lose or mix up a response, or leave the registry wrong? | 2 calls, 2 events, channels of one slot, readers that drop |
| `runtime_order` | Are events delivered in order, and is the first conclusive one the answer? | 1 call, 3 events of 3 kinds, channels of two, readers that block |
| `runtime_shared_context` | What is left when a `CommandMessage` is executed twice? Does the runtime implement `CommandExchange`? | 2 calls, one context, one event of 3 kinds |
| `runtime_liveness` | Does a wait end unless the device answers for ever, does the dispatch task move on? | 1 call, a device that sends intermediate events without end, channels of one slot, readers that block |
| `runtime_send_hangs` | Does the whole call end? (no: violation) | 1 call |
| `lifecycle` | Can a dispatch task escape its handle or outlive its connection? Is a connection served, do operations return, as long as calls do not overlap? | 2 users, 2 operations each, 3 connections, each transport |
| `lifecycle_concurrent` | Is a connection served when two users connect? (no: violation) | 2 users, 2 operations each, WiFi |
| `lifecycle_dead_reader` | Does connect establish a connection when the reader has died? (no: violation) | 1 user, WiFi |
| `wifi_environment` | Does the connected list hold one runtime per host, does every open connection have an owner, also when exclusions and the environment are dropped, is every change reported or known to be lost, does an excluded host leave as long as no connect hangs? | 2 hosts, one with a token, 2 connections, 2 excluding tasks, 3 misses, 1-slot event channel |
| `wifi_event_order` | Does Arrived precede Left? (no: violation) | 1 host |
| `library_parts` | One question per part, below | below |
| `wifi_send_order` | Can a peer decrypt what concurrent sends write? (no: violation) | as `library_parts` |

`library_parts`, part by part:

| Part | Properties | Bounds |
|---|---|---|
| framing | `Resyncs`: one whole frame brings the parser to rest, the next is found, it alone | payloads of 2 bytes, 3 frames, 1 damage, a buffer of 6 bytes (so that it also overflows) |
| WiFi connection | `DecryptableUnlessOverlapped`, `OnlyTheTokensHost` | 2 sends, 2 connections, 2 frames each, 2 devices with the same key |
| tokens | `TokensAreKept`, `StoredWifiTokensWork` | 2 processes, 2 devices, 2 keys, 2 attempts |
| firmware | `FlashesWhatWasChosen`, `VerifiedMeansFlashed` | 2 boards, 3 ports, 2 payloads, 1 round after the first |
| resources | `ListsWholeOrNothing` (once each, in order, each source whole; all of them unless a request failed), `DownloadsAll` | a fixture with 2 sources and 3 emitters, batches of 2, 3 samples of capacity, 32-bit arithmetic scaled to 8, 1 rebuild |
| transitions | `OkTellsTheEnd` | 2 calls, 2 fixtures |
| mDNS | `EndpointsAreLatest` | 3 instances of 2 host names, 2 addresses |
| USB | `OneRuntimePerDevice`, `NoConnectionLeaks`, `ReportedInOrder`, `SettledListIsCurrent`, `ListFollowsDevices` | 1 device, 2 pluggings, 3 listings, channels of 2 and 1 |

`TypesOK` is the conjunction of the parts' type invariants.

Why the bounds are enough. The registry distinguishes one call from the
others, so two calls give every pair; with one-slot channels the full-channel
cases happen with the second event. Order needs three events (one delivered,
one in hand, one behind) and no second call. In the life cycle
two users with two operations each make connect, disconnect, connect,
disconnect in a row, with stale slots, failed connects and failed readers in
between, and every overlap of two operations. In the WiFi environment a second
connection lets a host leave and come back, and a one-slot event channel is
full with the first `Left` of an exclusion. Calls are interchangeable where the
cfg says SYMMETRY; no run with a liveness property uses it.

For the parts: damage, the frame it hits and two whole frames after it are all
the parser's state can tell apart; a buffer one byte short of the longest
damaged input overflows in every position. Two processes give every overlap of
two saves, a third adds no new order of load and write. One USB device already
has two backends that report it, and with two pluggings it is away, back, and
away again while reports of the first are still queued; three listings let the
list be wrong and recover. The USB theorems hold for any number of devices.
Batches of 2 with announced counts of 0, 3, 5 and 7 below a wrap at 8 give an
empty download, an odd last batch, an overrun of the capacity and a wrap.

`CHECK_DEADLOCK FALSE` appears in the life-cycle runs and in the two runs of
`MCParts`: users have a bounded number of calls to make, a search reaches its
deadline, an update ends, a device is plugged in a bounded number of times;
after that everything may rest. In `WifiEnvironment` what is left after the drop
is the action `Gone`.

Fairness. `TaskFairness`: the tasks tokio runs make progress, a passed
deadline fires, the registry mutex (fair in tokio) is obtained. Nothing is
assumed of the device, of the application that reads `next_message`, or of
cancellation. `send_message` waits for the peer to take bytes, so only
`EndlessSpec` assumes it returns, which is also the one in which the device
never falls silent. There `WaitEnds` needs its exception: weak fairness of a wait
is met by consuming events for ever, and `timeout_at` looks at the deadline only
over an empty channel. In `RuntimeLifecycle` messages need not
arrive and calls need not be made; what is in progress is scheduled. In
`WifiEnvironment` the tasks are scheduled, `discover` succeeds now and then, and
the application reads its events (the task blocks on a full channel otherwise).
It is not assumed that a connect ends: `WifiConnection::connect` has no timeout
on its handshake (`wifi.rs` 771, 807-813), and a device that accepts TCP and never
answers stalls the discovery task. `ExcludedLeaves` names that case as its
exception: an excluded host leaves unless the task stays in a connect for ever.

`UsbFairness` is the only fairness of `library_parts`: libusb's monitor thread,
the poll thread and the handler task are scheduled, and the application keeps
asking for events (`handle_device_arrived` and `_left` send with `.await`). Nobody
must plug a device in, start discovery or stop it.

What the violations show:

- `runtime_send_hangs`: `runtime.rs:292-294` says the timeout covers the whole
  execution window; `send_message` (line 320) is awaited outside it.
- `lifecycle_concurrent`: `README.md:22` says clones can be used concurrently.
  Two connects may end with a connected runtime without a dispatch task: the
  second finds the connection before its channel is in the slot and spawns a
  dispatch task that finds none and is about to end; the first stores the
  channel and sees the task not yet finished.
- `lifecycle_dead_reader`: `connect` and `is_connected` look only at the slot
  (`wifi.rs:794-805`): after the reader ended they report a connection nobody
  reads.
- `wifi_event_order`: `Left` of an exclusion is sent at once, `Arrived` after
  the round, so the application can be told of a departure first. The USB
  environment keeps that order (`ArrivedBeforeLeft`), because one task sends both
  and waits for room.
- `wifi_send_order`: `README.md:22` says remote types can be used concurrently.
  `send_message` encrypts under one lock and writes under another
  (`wifi.rs` 864-873): the second to encrypt may write first, and the peer,
  whose transport counts nonces, cannot decrypt what reaches it.

What the exceptions in the liveness properties tell of the code. `WaitEnds`:
`timeout_at` (`runtime.rs` 326) polls the channel first, so a device that answers
with an intermediate event each time the call looks keeps it alive past its
deadline. `OperationsReturn`: a disconnect that has emptied the connection slot
when a connect on another clone fills it waits for the receive-channel lock,
which the new dispatch task holds for as long as the device is silent
(`wifi.rs:845`, `serialport.rs:236`; rusb has no such lock). `ExcludedLeaves`: a
discovery round works on a copy of the exclusions (`wifi.rs:547`), so a host
excluded meanwhile is connected all the same; it leaves again, after three
rounds, unless a connect hangs.

What the conditions in the properties of `library_parts` tell of the code. A
send dropped after its encryption leaves a gap in the nonces that makes its
connection useless (`gap`). A connect dropped while it waits for the lock of
`message_rx` leaves a connection without its receiver, and the next connect
returns Ok over it at once (`wifi.rs` 803-805): of the receiver only the host is
claimed. Two processes that save at once lose a token, and a
save cut short leaves a file nothing can read (`disturbed`). A device report that
does not fit into the channel is lost for good, because `known_ports` and libusb
move on (`unseen`). A version with an empty payload list is "verified" without having
been flashed (`image # <<>>` in `VerifiedMeansFlashed`), and as
`verify_updated_host` compares identifiers and only prints the version (`update.rs`
380-385), the old firmware of the right host will do: the property says which
board runs, not what. A listing of a device that
is rebuilt meanwhile mixes what was with what is (`changes = 0`), and one that
answers with batches of another size than asked for makes a download that is
wrong without an error (`short`). These are
conditions, not promises: the properties say that nothing else goes wrong, not
that the code copes with them.

## 5. What is proved

`RemoteRuntimeProofs` proves, for any calls, contexts, capacities and device
behaviour allowed by `RuntimeAssumption`, shared contexts included:

- `TypeCorrect`: types, and the capacity of every channel;
- `NoRegistrationLeaks`: a registration outlives its call only if the call
  was cancelled;
- `EventsHaveOneFate`: every emitted event is in one place, and an ended call
  takes down only what its channel held, after its answer if it has one;
- `EventsArriveInOrder` (an action property): a response channel and
  `next_message` get events in the order they were emitted;
- `FirstConclusiveAnswer`: a call ends with the first event that ends it;
- `RuntimeImplementsExchange`: the refinement of `CommandExchange`;

and, when every call has a context of its own (`UniqueContexts`, which UUIDs
give unless a caller executes a clone of a command):

- `ResponsesAreNotMissed`: an event for a live call is on its way to it, was put
  into its channel, was given up by a disconnect, or was thrown away at a full
  receive channel by a transport whose reader does so;
- `RegistryIsExact`, `ChannelNeverClosed`, `AnswersAreCaused`.

The argument. `Basic` is inductive without unique contexts: types, what the
dispatch task holds in each position (`Dispatching`), a command on the wire
was started (`Started`), events answer delivered commands (`Solicited`), what
is in a channel was emitted for it (`Sourced`).

One fate and order need each other (`Fates`). `Accounted` says that an emitted
event is in flight, dispatched or lost; `Apart` that it is one of these only.
To keep `Apart` when the device emits, the new event must not be among those
already dispatched; `Ordered` gives that, and order: what is in flight is newer
than all that was dispatched, and each channel is increasing.

`Answering` carries the answers: a call that waits has looked at no event that
ends it (`Unread`), so the one that ends it is the first; the outcome on the way
to `Finish` is already the one the answer's kind asks for (`Concluded`). The
refinement maps a call's `pc` to a phase and its answer to the one it has
returned with. Every step of the runtime is a step of `CommandExchange` or a
stutter; the return of an answer is the only step that needs an invariant, and
it needs three: the answer was emitted for that context (`Sourced`), no other
call has it (`Apart`), and it is of the kind the outcome says (`Concluded`).

`ResponsesReachTheirCall` alone is not inductive: `Forward` takes an event out of
flight. `Exclusive` adds that live calls are registered and that an event being
forwarded is nobody's (`ForwardedIsLate`); the latter is preserved by `Lookup`
because live calls are registered, and by `Register` because an event for a
call exists only after its command was delivered, hence after the call began.

`RuntimeLifecycleProofs` proves `NoTaskEscapes` for any users, operations,
connections and transports: a dispatch task that runs is in the `dispatch_task`
slot or in the hands of a disconnect about to abort it, overlaps or not. The
inductive invariant adds to it what `Slots` says: a handle taken out of the slot
is a dispatch task, and one not yet spawned does nothing. Three facts carry
it: `EnsureDispatchTask` replaces the task in the slot only when it has ended,
`TakeHandle` empties the slot into the hands of the caller (whose next step is
the abort), and no task returns from its end. Everybody else satisfies
`HoldsNoHandle` or leaves slot and users alone.

`LifecycleTypes` is its type invariant, and `SequentialCallsServed` proves
`ServedUnlessOverlapped`. Alone that is not inductive: the dispatch task of an
earlier connection might still hold or take the channel. As long as no calls
have overlapped, `Sequential` says that one user at most is inside an
operation and what that user has left behind at each position, and
`ChannelHeld` that a live connection's channel is in the slot or with the
installed task, except between the steps of a connect or a disconnect.

The other theorem modules, each for all values of the constants their module's
assumption allows:

- `WifiEnvironmentProofs`: types, one runtime per host, no open connection
  without an owner, every change reported, left is gone. `OneRuntimePerHost` is
  inductive together with `TaskInv`: the host the task is connecting to has no
  entry, because nobody else adds one. The reports need a history of each
  runtime (`Followed`): one that was made was reported and is somewhere or
  reported as left; one that left the list is not in it again; one reported as
  left is closed. `DropEffect` says what the drop of the environment does.
- `DiscoveryProofs`, USB: types and capacities, one runtime per readable device,
  no open connection without an owner, every change reported, arrivals told
  before departures. Three are inductive almost as they stand: only
  `Arrive` adds to the list, and looks before; a runtime is taken off it into the
  handler's hands; the reports need in addition that the event queue is a
  sequence. `OrderInv` extends the order of events to the queue and to what the
  handler holds.
- `DiscoveryProofs`, USB, the list: `UsbListIsCurrent`, by `CurrentInv`, below.
- `DiscoveryProofs`, mDNS: `EndpointsAreLatest` follows from the same statement
  for every instance whose host is known, candidate or not.
- `TransportProofs`, WiFi: types, `OnlyTheTokensHost`, `DecryptableUnlessOverlapped`.
  For the first, every connection made is with the token's host, and sends and
  receiver hold connections that were made. The
  latter needs `WireInv`: on a connection without gap or overlap one send at most
  is writing and one is encrypted and waiting, their nonces are the last two
  given out, and the length of `wire` is that of all frames before them.
- `ProvisioningProofs`, tokens: types, because a process holds no key its device
  has not made (`HeldKeysMade`); a saving or saved WiFi token was let in by its
  device, and a device does not forget; as long as nothing was disturbed at
  most one process is in a save, and what it loaded is what was last saved.
- `ResourceProofs`, transitions: an end event in a call's queue comes from a
  transition that is neither queued nor running any more, and carries the target
  exactly if it completed.
- `ResourceProofs`, downloads: `SamplesDownloaded`, by `Downloading`: unless a
  batch was of another size than asked for, the samples collected are those up
  to the offset. `BatchEnd` may wrap below the offset; then the batch cannot have
  the size asked for.
- `ResourceProofs`, listings: `ListingsWholeOrNothing` and `ResourceTypes`. The
  queue of parents still to be listed, with the one that is being listed in
  front, is sorted in the order of the device, and everything visited lies before
  it (`Orderly`); unless a request failed, each part not in the queue, nor below
  one in it, has been visited (`Complete`). The head of the queue is dropped,
  replaced by its parts (`HeadExpanded`) or visited (`HeadVisited`); that the new
  queue is sorted rests on lemmas about the order (`SourcesWithFixture`,
  `SiblingsInOrder`), which rest on the tree: a source has one place
  (`OnePlace`). `Described` says that an uninterrupted listing describes what is
  there, because the device is the one that was counted. `ListsWholeOrNothing`
  states order and completeness with quantifiers, not with a fold that would
  build the expected sequence: about a fold nothing can be proved here.
- `ProvisioningProofs`, firmware: types, `FlashesWhatWasChosen`, `VerifiedMeansFlashed`.
  `Grouping` says that the ports of a target are those of one board, and that it
  gave the target's host unless boards were moved; it is about every target found
  so far and the one chosen, and so holds through the loops over ports and targets
  that it is about (which is why each iteration is an action). `Images` and
  `Written` relate what was downloaded and the board being written to the stage.
- `TransportProofs`, framing: `StreamTypes`, `UnframeAccepts`, `StreamResyncs`,
  below.
- `PartsProofs`: `PartsImplemented`, a behaviour of `MCParts` is one of each part;
  hence `PartsTypes` (`TypesOK`) and `PartsSafe`, every invariant of
  `library_parts` for every value of the constants.

`StreamResyncs` holds for payloads, buffers and damage of any size. Where byte
`i` of a payload is in its frame is not computed by a recursion but counted:
`FramePlace(p, i)` is `i + 1` and the number of control bytes among the first `i`
bytes (`ControlsUpTo`). With it `WholeFrame` says what `frame_bytes` builds, and
`Passed(p, r, n, esc)` that the first `r` bytes of a frame hold `n` bytes of the
payload and, if `esc`, an escape byte more. `StreamInv` then says: a parser that
has begun to buffer, wherever damage left it, agrees with an undamaged frame on
which bytes are escaped (`SyncInv`: a buffer begins with an STX, and the byte
after an STX is escaped for neither), so that the first unescaped ETX it sees is
the end of the frame and it is at rest afterwards. In a frame that follows a
whole one the buffer is what was read of the frame (`FollowInv`), and
`unescape_bytes` undoes what `escaped_bytes` did. The capacity enters once: a frame
fits (`MessageStreamAssumption`), so `DropFrame` does not hit a frame that follows
a whole one.

`SettledListIsCurrent` is far from inductive: what makes the list current when
all is settled is what is under way before. `CurrentInv` is about the states in
between, for any number of devices, pluggings and listings, channels of any
size, and any interleaving of hotplug callbacks, ticks of the poll, the
handler and the application:

- `BackedInv`: a listed runtime's device is there as its backend sees it, or its
  `Disconnected` is on the way; a port's `Connected` is of a port that is still
  known, or its `Disconnected` comes later in the channel (`Followed`).
- `ServedInv`: a device that is there is served, or libusb's `Connected` of it is
  on the way. Of the two backends only libusb misses no change.
- The hard step is `Leave` of a serial runtime whose device is there again: is
  the device still served? A port has one name for every plugging, and is opened
  by it, so the runtime may be newer than the event and than the device object
  it was made of. `ClaimInv` says that such an event is in the channel only if a
  libusb runtime serves the device or libusb's news of it is on its way
  (`ClaimDue`): a port that is away while its device is there was taken by
  libusb, and one that was away and back between two ticks is `unseen`.
- To keep `ClaimInv` when `Arrive` lists a serial runtime, no event of an older
  plugging may follow one of a newer (`AgeInv`), and no device object may be from
  the future (`ObjectInv`).
- `GoneInv`: libusb reports no present device as gone, so the libusb runtime that
  `Leave` removes served nobody. `NewInv` is what holds before discovery starts.
  `HandInv` is what the handler holds: a duplicate that it opens to read the
  serial number hides the port from the poll, and costs the runtime that used it
  its connection (`refused`).

Only model-checked is liveness (`WaitEnds`, `DispatcherMovesOn`,
`OperationsReturn`, `UnconnectedTaskEnds`, `ExcludedLeaves`, `ListFollowsDevices`):
fairness and ENABLED are out of TLAPS's reach. Every invariant, the action
property `DeliveredInOrder` and the refinement that the passing runs check is
stated by a theorem.

## 6. Not modelled

`send_event` and the token and setting commands are calls of the operations
above without state of their own. Cryptography (`snow`), USB drivers (`rusb`,
`serialport`), the mDNS packet format (`edge-mdns`), HTTP and flashing
(`espflash`) are libraries, modelled by how the code uses them. The data types
of `message.rs` and the traits of `environment.rs` have no behaviour to check.

Of the command-line tool, argument parsing, printing, listing, monitoring,
strobe, settings and network set-up are left out: they print, or call one
method per device one after the other.

Left out of modelled parts:

- A connect or disconnect dropped half-way is in `WifiConnection` (one task) and
  not in `RuntimeLifecycle` (several).
- In `UsbEnvironment` a stop of discovery is final: the device-event receiver
  goes down with the aborted task (`usb/mod.rs` 403), so a second start finds
  nothing to listen to. The choice of an interface on Windows is left out.
- In `MdnsDiscovery` a name has one spelling, and a packet that does not parse to
  its end changes nothing.
- In `RemoteResources` a download from a device that answers with empty batches
  after the offset has wrapped does not end; nothing in the code bounds it
  (`emitter.rs` 113), so no liveness is claimed.
- In `FirmwareUpdate` the reset of a driver (`cdc_acm`) only adds ports to a
  listing.
- tokio's cooperative budget, which may make a ready channel look empty once.
