# Verification of mpfpv

mpfpv is a small multipath VPN.  A client opens one UDP socket per physical
network interface, sends every packet over all of them (redundant mode) or over
the best one (failover mode), and a server assigns virtual addresses, forwards
packets between clients and drops the duplicates that redundancy creates.  This
directory holds TLA+ models of its stateful parts, the TLC configurations that
check them and TLAPS proofs about them.

    tlc -config MCMultiPathChanges.cfg MCMultiPath      # a model-checking run
    tlapm ServerRegistryProofs.tla                      # a proof

Paths in this text are relative to the repository.

## 1. The system

| # | Component | State it keeps | Operations | Hard behaviour | Correct means |
|---|-----------|----------------|------------|----------------|---------------|
| 1 | Deduplicator, `internal/protocol/dedup.go` | per sender: highest number, ring of bits, whether anything was heard | `IsDuplicate`, `Reset` | `uint32` wrap; slide by exactly a window; sender restart; `Reset` between the two locks of `IsDuplicate` | accepts a number at most once per window, never drops a new one |
| 2 | Packet codec and buffer pool, `internal/protocol/{packet,types,bufpool}.go` | none | encode, decode | variable tail of the heartbeat | decoding inverts encoding, bounds hold |
| 3 | Server registry, `internal/server/server.go`, `webapi.go` | `sessions`, `routeTable`, `ipPool` and its file, dedup entries | `handleHeartbeat`, `allocateIP`, `cleanup`, `UpdateDeviceIP`, `DeleteDevice`, `DeleteClient`, `loadIPPool`, `saveIPPool` | four tables under different locks; operations of several critical sections; claims made in old heartbeats; restart; torn file | one device per address, tables agree, addresses stable, operations end |
| 4 | Server forwarding, `server.go` | a session's source addresses with timestamps, `LastDataAddr` | `handlePacket`, `handleData`, `sendToClient`, `tunReadLoop` | addresses that expire or move while they are used | a packet reaches the device its destination is assigned to |
| 5 | Client, `internal/client/client.go` | claimed address, sequence number, TUN device, `tunReady` | `Run` and its three goroutines, heartbeat, `handleHeartbeatAck`, `handleData`, `setupTUN`, shutdown | late acknowledgements; a device that takes long, fails, or is made while the client shuts down | a registered client carries traffic, a cancelled one ends |
| 6 | MultiPathSender, `internal/transport/multipath.go` | paths with socket, status, RTT, recycle counters; active path | `Start`, `Stop`, `Send`, `SendAllHeartbeat`, `UpdateRTT`, `SetSendMode`, `CheckAndRecycleStalePaths`, `onInterfaceChange`, receive loops | sockets replaced under running loops; half-done removals; failover hysteresis | no socket or loop leaks, no panic, paths recover, failover leaves dead paths |
| 7 | InterfaceWatcher, `internal/transport/iface*.go` | last scan | poll, diff, callback | scans that fail, changes during a callback | paths follow the interfaces |
| 8 | Configuration, `internal/config/config.go` | none | load, default, validate | - | - |
| 9 | Desktop GUI, `windows/`, `cmd/mpfpv-gui/` | running client, last connection request | `Connect`, `Disconnect`, the goroutine around `Run`, `watchNetwork` | watchers that wait while the user connects and disconnects; an address that changes again during a reconnect | one client runs, it can be stopped, it follows the NIC |
| 10 | Mobile binding and Android TUN, `mobile/mobile.go`, `internal/tunnel/tun_android.go` | the running client, TUN descriptor | `Start`, `Stop`, `SetTunFD`, the goroutines around `Run` and for the status | an old goroutine ends after a new client began; clients that wait on one channel | `Stop` reaches every client, a client gets a device no other has, over a protected socket |
| 11 | TUN devices, `internal/tunnel/` | a device | open, read, write | - | platform I/O |
| 12 | Web handler and page, `internal/web/` | none | HTTP to component 3 or 5 | - | - |
| 13 | `cmd/mpfpv` | none | flags, start | - | - |

How they interact: a client's heartbeat loop (5) sends heartbeats over every
path of (6); the server (3) creates or refreshes a session, claims or allocates
an address and acknowledges to the path the heartbeat came from; the receive
loop of that path hands the acknowledgement through `recvCh` to (5), which takes
over the address and turns the time into the path's RTT (6).  Data goes from the
TUN device through (6), to (4), through the deduplicator (1), to the route's
client, through that client's own deduplicator into its TUN device.  The watcher
(7) calls back into (6).  The web handler (12) runs the administrator's
operations of (3) on goroutines of its own, concurrently with the server's one
receive loop and its cleanup goroutine.  The programs around the client (9, 10)
run one client after another, each by `Run` (5) on a goroutine of its own, cancel
its context and learn of its end only when that goroutine has cleared their
variables.

## 2. The modules

| Module | Models | Kind |
|---|---|---|
| `DedupWindow` | the arithmetic of `dedup.go`: serial difference, ring index, slide, restart | operators |
| `DedupSpec` | what a deduplicator promises: the exact set of accepted numbers of the window | abstract specification |
| `Dedup` | `IsDuplicate` (two critical sections) and `Reset`, refining `DedupSpec` | state machine |
| `DedupChannel` | a sender, a lossy reordering multipath network and the deduplicator | composition |
| `DedupWindowProofs` | lemmas about `DedupWindow` | proofs |
| `DedupProofs` | proofs about `Dedup` | proofs |
| `DedupChannelProofs` | proofs about `DedupChannel` | proofs |
| `ServerRegistry` | sessions, routes, pool, dedup entries; receive loop, cleanup, web API; the clients' claims | state machine |
| `ServerRegistryProofs` | proofs about `ServerRegistry` | proofs |
| `MultiPath` | the paths of a client, the interface watcher, the network they see | state machine |
| `ServerForwarding` | the source addresses of a session, their expiry, the choice among them; the client's NICs and the network between | composition |
| `ClientRun` | `Run` and its goroutines, the TUN device, the shutdown | component, without a specification of its own |
| `MobileApp` | the Android binding and its TUN hand-over around `ClientRun` | composition, extends `ClientRun` |
| `DesktopController` | the controller of the desktop windows and its watchers | state machine |
| `MultiPathProofs`, `ForwardingProofs`, `MobileProofs`, `DesktopProofs` | proofs about `MultiPath`, `ServerForwarding`, `MobileApp` with `ClientRun`, `DesktopController` | proofs |
| `MCDedup`, `MCDedupChannel`, `MCServerRegistry`, `MCMultiPath`, `MCServerForwarding`, `MCMobileApp`, `MCDesktopController` | constants for TLC | instances |

An operator whose comment begins with "Fault:" is not part of a specification:
it is a variant of the definition below it with a plausible bug, kept so that
each property can be seen to fail (section 6).

### 2.1 Dedup

`clients[c]` is the entry of `d.clients` for a sender (`FreshState` when there is
none), `call` the call of `IsDuplicate` in progress; the code calls it from one
goroutine at each end.  `Lookup` is the part under `d.mu`, `Check` the part
under `cs.mu`, `Reset` removes the entry.  When `Reset` comes between the two,
the call goes on with a state that is no longer in the map, which is what
`call.detached` and `call.held` stand for.  The circle has `SeqMod` numbers in
place of 2^32 and the window is `Window`, 4096 by default.

`SeenBy` reads the ring of bits as the set of numbers it stands for.  `AlignedWindow`
(the window divides the circle and is at most half of it) is the condition of refinement.  The default satisfies it.  `config.go` accepts any
positive `dedupWindow`: with one that does not divide 2^32 the ring index jumps
when the counter wraps, two numbers of one window share a bit, and a new packet
may be dropped, contrary to the comment at `internal/protocol/dedup.go:32`.
Checking `NoFreshPacketDropped` with `SeqMod = 8, Window = 3` shows it.

`DedupChannel` composes the operators with a network: copies of each packet over
every path, lost, delayed and reordered, but a copy that trails by `Lag` newer
packets is gone, and the receiver hears at least one of `MaxGap` packets in a row.
Its ghosts `got`, `twice` and `missed` compare what was delivered with what was
sent.  A sender's restart is recognised only if its new numbers lie a window
behind, also behind the old copies that still arrive; `RestartAt` states when that
is certain.  A sender that restarts within
its first 4096 packets has up to that many new packets dropped (the remedy the
server uses, `Reset` at the end of a session, takes 15 s of silence).

### 2.2 ServerRegistry

The four tables are variables of the same names, addresses are host offsets
with 0 for 0.0.0.0.  The pool variable is also the pool file: `saveIPPool` is
part of each action that calls it.  `os.WriteFile` truncates before it writes
(`server.go:776`), so a crash while one of those actions is due (`Saving`) may
leave a file that `loadIPPool` cannot parse: the fault "torn" of
`ServerRestart`, after which the pool is empty.  `pc` and `loc` give, for the receive loop
`UDP`, the cleanup goroutine `Cleaner` and every web handler, the next critical
section and its local variables; `sessionsLock` is the only lock held across a
step, the others guard single actions.

| Code | Actions |
|---|---|
| `handleHeartbeat` | `HeartbeatConflict`, `HeartbeatKnown`, `HeartbeatNew`, then `AllocateIP` or not, `Register`, `PersistClaim` |
| `handleData` | `HandleData` (deduplicator entry) |
| `cleanup` | `ExpireSessions`, then per session `CleanupRoute`, `CleanupDedup` |
| `UpdateDeviceIP` | `UpdatePool`, `UpdateRoute`, `UpdateSession` |
| `DeleteDevice` | `DeletePool`, `DeleteRoute`, `DeleteSession` |
| `DeleteClient` | `RemoveRoute`, `RemoveSession` |
| client | `ReceiveAck`, `ClientRestart`; the network loses an `Ack` |
| start of the server | `ServerRestart`: everything but the pool is gone, and that too if its file was torn |

A heartbeat is taken to carry the client's present claim; that it arrives late is
covered by acknowledgements arriving late.  `UpdatePool` takes the addresses of hosts: the
code tests no more than `Contains` (`webapi.go:244`), so an administrator may also give out the
network's own and the broadcast address, which conflict with nothing in these tables.  That
`saveIPPool` cannot write and only logs it (`server.go:776`) is left out; the file is then
older than the pool, where "torn" has none of it.  Claims start without an address,
since the client no longer uses the address of its configuration
(`client.go:103`).

### 2.3 MultiPath

A path is an object with an identity, because it outlives its entry in `m.paths`
and changes its socket while goroutines hold on to it: `path[i]` is the object,
`paths[n]` the entry of interface `n`.  `open` is the state of its present `Conn`,
`closed` of its present channel, `reading` and `failing` count the receive loops
that are blocked in a read and those whose read has failed.

| Code | Actions |
|---|---|
| `Start` | `Init` (after it; interfaces may have changed meanwhile) |
| `Send` | `SendRedundant`, `SendFailover` (a failed write; a successful one changes nothing modelled) |
| `heartbeatLoop` | `Tick` (`SendAllHeartbeat`), `CheckStale`, `RecycleClose`/`RecycleOpen` per stale path, `Sleep` |
| `OnPathChange` | `Announce` |
| `perPathRecvLoop` | `Receive`, `Retry` |
| `recvLoopMultipath`, `UpdateRTT` | `UpdateRTT`, `Reselect` |
| `SetSendMode` | `SetSendMode` |
| `pollInterfaces`, `detectChanges`, `onInterfaceChange` | `DetectChanges`, per removed interface `RemoveLookup`, `RemoveClose`, `RemoveDelete`, per added one `AddPath`, then `FinishChanges` |
| `Stop` | `StopBegin`, `WatcherQuit`, `StopClose`, `StopDone` |
| the world | `NicChange`, `Silence`, `Lose`, `CoolDown` |

`recyclePath` is two actions although it holds `m.mu` throughout, because
`removePath` closes a path without that lock.  Time is what the code compares it
with: `silent` for `pathStaleTimeout` (5 s), `age` for `recycleMinInterval` (10 s)
and `recycleBackoffDuration` (60 s), `cooling` for `switchCooldown`.  They advance in
`Sleep`, once per tick of the heartbeat loop (1 s) and when what the tick caused
has been dealt with: this keeps a minute from passing while a goroutine stands
still.  A single lost acknowledgement is not modelled; five in a row are what
`Silence` and `silent` are for.

`IncrementMiss` is not modelled: nothing but tests calls it, so no path goes down
after five missed heartbeats, as `docs/architecture.md:304` has it; a silent path
is replaced three times first, which takes about half a minute.

### 2.4 ServerForwarding

One session, because sessions share no addresses: `session` has `ClientSession`'s
`SendMode`, `LastDataAddr` ({} for nil) and `Addrs`, a function from addresses to ages, and
an age of its own for `LastSeen`.  An address is a NIC and the port the server sees it
with: `recyclePath` and NAT give a NIC a new port, and with it the server a new address.
With each address the session keeps the name of the NIC, as the last heartbeat from there
gave it.  `Named` are the NICs that heartbeats name: every one of a multipath client and the
one of the mobile client (`SetVirtualPath`), none of a desktop client, whose heartbeats therefore
remove no address (`server.go:438`, `:441`); its old ones stay until they time out.

| Code | Actions |
|---|---|
| `handleHeartbeat` from line 408 | `HandleHeartbeat` (what comes before it is in `ServerRegistry`) |
| `handleData` | `HandleData`, for the copy that passes the deduplicator |
| `sendToClient`, from `handleData` and `tunReadLoop` | `SendToClient` |
| `cleanup`, `DeleteClient` | `Cleanup`, `DeleteClient` |
| client | `SendHeartbeat`, `SendData`; `Rebind`, `Unplug`, `SetSendMode` within `Change` |
| network and time | `Lose`, `Settle`, `Tick` |

`Tick` is one heartbeat interval; heartbeats and packets in flight are sets from
which any member arrives next or is lost.  After `Settle` nothing changes or is lost any
more and what was sent in an interval arrives within it: liveness is claimed from
then on, and what was in flight before may still arrive in any order.  The second
copy to `ReplyPort` and the copy to an address that no longer reaches the client are
alike in having no effect; `reached` says whether one copy got to where the client is.

### 2.5 ClientRun and MobileApp

`run[c]` is where `Run` of client `c` is, `recv[c]` where its receive loop, `tun[c]`
where `tunReadLoop`; each read of `c.tunDev`, which the code shares without a lock,
is a step, so the shutdown may find no device a moment before there is one.

| Code | Actions |
|---|---|
| `Run` | `RunStart`, `RunClose` (the socket), `RunCloseTUN`, `RunReturn` (`wg.Wait`) |
| `recvLoop`, `handleHeartbeatAck`, `setupTUN` | `ReceiveAck`, `SetupTUN`, `Created`, `Signal`, `ReceiveEnd` |
| `tunReadLoop` | `TunCheck`, `TunWake`, `TunTest`, `TunHead`, `TunPacket`, `TunError` |
| `mobile.Start` | `StartCheck`, `StartPublish`, `StartRun` (two critical sections and the goroutines); `StartFail`, its errors |
| `mobile.Stop` | `Stop` |
| the goroutine around `Run` | `RunExit`, which clears `running` and `cli` without looking whose they are |
| `createPlatformTUN` | `RequestTUN` (the callback), `TakeFD` (the channel) |
| `SetTunFD` | `SetTunFD` |
| the status goroutine | `Poll` |

`cancel` and `androidTun.fdCh` are variables of the same meaning; a device, a descriptor
and a context bear the number of the client they were made for, which the code
does not see.  The app calls `Start` and `Stop` in any order and need not wait for a client
it has stopped, as nothing in the repository makes it; only calls of `Start` follow each other.
The callback also has the app protect the socket that `cli` has at that moment, if it has one: `SocketFD`
gives -1 once `Run` has closed it, and the device is asked for all the same (`mobile.go:64`).  That call
changes nothing here, so `RequestTUN` is the request alone; section 4 says whose socket is protected.

### 2.6 DesktopController

The fields of `Controller` are variables of the same names; `cancelFunc` and `stopWatch` are
the client whose context they end.  An action is a critical section of `c.mu`.

| Code | Actions |
|---|---|
| `Connect`, `connectLocked` | `Connect`; `StartClient` or `RefuseClient` within `ConnectLocked` |
| `Disconnect`, `disconnectLocked` | `Disconnect`; `DisconnectLocked` |
| the goroutine around `Run` | `RunBind` (may fail), `RunCancelled`, `RunError`, `RunEnd` |
| `watchNetwork` | `WatchTick`, `WatchStopped`, `WatchDisconnect`, `WatchReconnect` |
| the NIC | `NicChange` |

Every client has a watcher of its own that may outlive it, so watchers of several
clients may compete.  `Run` is abstracted to what `ClientRun` shows of it: it fails at
once, for want of an address or of a socket, or ends some time after it was cancelled.  The
controller looks the NIC's address up when it creates a client (`boundIP`) and `Run` again when it
binds (`sock`).  The NIC goes from any of its addresses, or none, to any other, so one it had
before may return.  `nicAtStart` is a history variable.

## 3. The runs

All runs finish within three minutes with two workers.  Deadlock is checked
except where the system may stop: the channel when `MaxSent` packets are through,
the paths after `Stop`.

| Run | Bounds | What it shows |
|---|---|---|
| `dedup_exact` | 2 senders, circle 8, window 4 | the ring of bits refines the exact set of numbers, with `Reset` at any point |
| `dedup_channel` | 2 paths, circle 12, window 3, lag 3, 13 packets, 1 restart | no packet twice without a restart, no new one dropped, across the wrap and across a restart that is recognised |
| `registry_auto` | 3 clients, 2 free addresses, expiry, restarts, 3 acks in flight | without administrators tables agree at every step and addresses are stable, also with the pool exhausted |
| `registry_update` | 2 clients, 3 free addresses, 1 handler changing addresses | the pool stays injective, and sessions end with the pool's address |
| `registry_locks` | 2 clients, 1 free address, all operations, expiry, torn pool file, fair | operations end, the server's address stays reserved |
| `path_changes` | 1 interface, 2 addresses, 3 path objects, 2 changes, both modes, all faults of interfaces, scans and network, `Stop` | no socket or receive loop is left behind, paths are those of the last scan |
| `path_recover` | 2 interfaces in failover mode, silence, `Stop`, 2 changes, fair | no write to a closed socket, recovery, failover leaves a silent path, `Stop` returns |
| `path_panic` | 1 interface that goes and falls silent | violated: a removal and a recycling of one path panic |
| `forwarding` | 2 named NICs, one with 2 ports, timeouts 1 and 2 intervals, 3 heartbeats and 1 packet in flight, 1 change, fair | one address per NIC; addresses converge, replies arrive, silent sessions end |
| `mobile` | 2 clients, started and stopped in any order, refusals, fair | no descriptor goes to two clients, `Stop` reaches the newest one; stopped clients end, traffic starts, the app is told |
| `desktop` | 2 connections by the user, 2 addresses, 3 changes of the NIC, fair | one client, in reach of `Disconnect`; it follows the NIC |
| `desktop_disconnect` | 1 connection, 1 change | violated: a watcher connects again after a disconnect |

Why the bounds are enough.  The deduplicator's behaviour depends on the residues
of a number by circle and window and on distances less than, equal to and
greater than the window and half the circle: a circle of two windows has all of
them, and `DedupProofs` and `DedupChannelProofs` remove the bound.  In the registry the conflicts are
between two clients about one address; a third makes the pool run out while two
compete, and a fourth address lets a change meet an allocation.  In
`MultiPath` interfaces share nothing but the lock and the choice of the active
path, so changes are checked on one interface with two addresses (a change of
address needs both) and the choice on two.  Two changes are a failure
and a recovery, or a change in the middle of working off another.  Three path
objects allow one being removed, one being added and one whose loop has not
ended.  `MaxAttempts` stands for 3: only "reached or not" matters to the code, and of
round-trip times only which is smaller: 0, of a path not measured yet, and 1 give a silent path
that is slower, as fast, or faster than the other.

In `ServerForwarding` the timeouts 1 and 2 keep the order of the code's 5 s and 15 s
(more than one heartbeat, session later than address); three heartbeats in flight are
those of one tick from two NICs and one from the new port of the first, so that the old and
the new port of a NIC overtake each other while the other NIC's heartbeat is under way; the one
change comes at any time, and deleting the session is one too.  Two clients of an app are one
that ends late and one that runs, which is enough for one to take the other's descriptor or
clear its variables.  In `DesktopController` two addresses and
three changes are an address that goes or is replaced, comes back, and changes again while a
watcher waits; `MaxClients` follows from the other two bounds, and no behaviour
reaches it before the others.

The safety properties are those whose violation takes several actors:
`SessionsFollowPool` (an address change meets a registration half way),
`SocketsAccounted` and `RemovedLoopsEnd` (a recycling meets a removal),
`PathsFollowScan` (a failed scan or another change meets a removal),
`RegistryAgrees` (everything at once), `OneAddressPerNic` (heartbeats of two ports cross),
`DevicesNotShared` (two clients that wait on a channel, one of them ending), `StopReachesNewest` (the end of one client
and the start of another), `ClientInReach` (the end of one
client, a watcher and the user).

Fairness.  `ServerRegistry` assumes that a goroutine that can run does, and that
a handler that waits for `sessionsLock` gets it in the end, which is strong
fairness because the receive loop takes the lock again and again:
`sync.RWMutex` does not starve waiting writers.  `MultiPath` assumes that the
tickers of the heartbeat loop and the watcher tick, goroutines run, time passes
for every path, and an acknowledgement waiting for `m.mu` gets it.  Nothing is
assumed of failures: interfaces and the network may misbehave at any time within
`MaxChanges`, and liveness is claimed only for what has become healthy for good.
`ServerForwarding` assumes that the receive loop, the cleanup ticker and the client's
tickers run and that packets for the client keep coming.  `MobileApp` assumes
that goroutines run and that the app answers every request for a device, with a
descriptor or a refusal; nothing is assumed of `Start`, `Stop`, acknowledgements
and packets.  `DesktopController` assumes that goroutines run and the watcher's
ticker ticks; a done context need not be noticed before a tick.

## 4. Where code and promise differ

`desktop_disconnect` is violated.  `watchNetwork` copies the last request, cancels the client,
waits until it has ended and connects again (`windows/controller.go:253`); a `Disconnect`
in between clears `lastReq`, which this watcher does not look at again, and finds
no watcher to stop.  The program is connected although the user's disconnect was
the last thing that happened.

`path_panic` is violated, and the panic ends the client.  `removePath` closes the channel
under no lock (`multipath.go:618`), so a recycling that comes between its lookup and its close,
holding `m.mu`, has closed it already: an interface that goes away while its silent path is
replaced is enough.  There are two more ways to the same panic.  `recyclePath` closes the channel before it has a new
socket (`multipath.go:706`); if that cannot be created the path stays, down, with a closed
channel, and its removal closes it again; and so does the next retry, once its attempts are used up
(`NeverPanics` with one path, `MaxChanges = 1` and `Faults = {"silence", "socket"}`).

Further disagreements, each with the sequence that leads to it.  Those of the first
group are behaviours of the models: the constants or the property to check are given.

* A live session without a route.  `cleanup` drops `sessionsLock` before it deletes
  the routes of the sessions it expired and does not look whose they are
  (`server.go:832`); a client that returns in between keeps its session and loses its
  route until the session ends.  `ServerRegistry` with `Faults = {"expire"}`: when `Quiet`,
  a session's address is not always in `routeTable`.
* Failover stays on a dead path.  A failed write turns the active path from down
  to suspect (`multipath.go:477`), which counts as usable.
  `FailoverLeavesSilentPaths` in `path_recover` with `Faults = {"silence", "write"}`.
* Two devices with one address after a torn pool file.  The pool starts empty, a
  device that also restarted is allocated the lowest address, and its old owner
  comes back claiming it.  `PoolIsInjective` in `registry_auto` with
  `Faults = {"expire", "torn"}`.
* A device of another client.  Every client waits on one channel (`tun_android.go:58`), so
  of two that wait either may take the descriptor made for the other's address.
  `tunDev[c].of = c` for every client with a device, in `mobile`.
* A client that `Stop` does not reach, contrary to the comment at `mobile.go:202`.  The goroutine around `Run` clears
  `running` of whichever client it is by then (`mobile.go:159`): an app that starts a client before
  the one it stopped has ended may so start a third beside the second, whose `cancel` is
  overwritten.  `run[c] # "none" /\ c \notin cancelled => cancel = c` for every client, in `mobile`
  with `MaxClients = 3`; `StopReachesNewest` says what does hold.
* A device over a socket that is not protected, contrary to the comment at `mobile.go:58`.  For the same reason `cli`
  may be cleared when the second client asks for its device (`mobile.go:160`): none is protected, and its packets go into
  its own tunnel.  `recv[c] = "setup" /\ c \notin cancelled => cli = c` for every client, in `mobile`.  The status goroutine
  may find no client to report on either, so `AppIsTold` promises a report only while `cli` is that
  client's.
* A desktop client bound to an address that came and went.  The watcher compares the NIC's address with
  `boundIP`, which `connectLocked` looked up (`windows/controller.go:227`, `:158`), but `Run` looks it up again
  when it binds (`client.go:163`).  If the NIC goes from A to B between the two and back to A before
  the next tick, the watcher sees A in both places and the client stays on B for good, contrary to the comment at
  `windows/controller.go:207`.  `ClientFollowsNic` without `BoundAsStarted`, in `desktop` with one
  connection and two changes.
* The old addresses of a client that names no NIC (`server.go:441`) go only by their timeouts.  With
  `NIC = {"n1"}`, `Named = {}`, two ports, two heartbeats in flight and two changes `AddressesConverge` holds, and
  that a session has one address does not.

The second group was met while reading.

* A session's addresses and its failover address part company: `LastDataAddr`
  survives the removal of that address by `cleanup` or by a heartbeat from a new port
  (`server.go:601`), so a client in failover mode that only listens is answered at an
  address it has left, although `docs/architecture.md:171` has replies go to the
  recently active address.  `RepliesReachClient` promises replies in failover mode only to
  a client that goes on sending data.
* A client's device made after the shutdown looked for one (`client.go:246`) is never
  closed; a device that could not be made is never tried again, since
  only the first acknowledgement tries (`client.go:566`); an address that changes
  later is not given to the device.
* An app that never answers a request for a device keeps `Run` from returning
  (`tun_android.go:58`).
* A watcher that reconnects while the NIC is down again starts a client that fails,
  and no watcher is left: auto-reconnect ends until the user connects.
* A session without addresses is kept alive by data, since `handleData` refreshes
  `LastSeen` but adds no address (`server.go:508`): until the next heartbeat nothing reaches
  the client.
* `SessionsFollowPool` holds as long as no session expires: a client whose claim is
  older than a change of its address registers it again after an expiry
  (`server.go:361`), and pool and session disagree.
* An interface whose socket could not be created is skipped
  (`multipath.go:572`), and the watcher, comparing scans with scans, does not try
  again until it changes: an address that goes and returns within one callback
  leaves its interface without a path.
* `Stop` closes the listed paths while the watcher's callback may be about to
  add one (`multipath.go:202`); that path's receive loop never ends and
  `wg.Wait` does not return.
* The old receive loop reads `p.closed` and `p.Conn` when its read fails, by
  which time `recyclePath` may have replaced both (`multipath.go:640`): it goes on
  with the new socket beside the new loop.  `RemovedLoopsEnd` and `StopEnds` show
  that both end with the path.
* `DeleteClient` does not reset the deduplicator (`webapi.go:143`), contrary to
  `docs/2026-03-21-multipath-redundancy-fix.md:29`.
* A deleted device that is running registers again under the address it had
  (`server.go:361`), contrary to the comment at `webapi.go:303`.  If the address was
  given away by `UpdateDeviceIP` meanwhile two devices own it; this is why the
  pool's injectivity is claimed without deletions.
* `UpdateDeviceIP` frees the old address before it deletes its route
  (`webapi.go:279`), so a device that gets the address in between loses its route.

## 5. The proofs

Every type invariant and every other invariant that the passing runs check is a theorem, and so are
`AddressesAreStable` and the refinement of `DedupSpec`; they hold for every value of
the constants, some of them under a condition given below.  All follow one plan: an
inductive invariant, checked by TLC on the run's constants before it was proved, a
lemma per action or group of actions, and a theorem per property.

### 5.1 Deduplicator

`DedupWindowProofs` has the arithmetic of the circle and what the ring means.  On an
aligned circle every slot stands for exactly one number of the window
(`OneNumberPerSlot`), so the bits set are a set of numbers, `SeenBy`; a slide keeps
the numbers still in the window and clears the slots of the others (`SlideExact`); a
number far behind shares no window with what was seen (`FarBehindForgets`).  Hence
`IsDup` is membership (`DropsExactlySeen`) and `Judged` adds the number and moves
the window (`AcceptedExact`).

`DedupProofs`, for every number of senders, circle and window:

* `InvCorrect`, `DedupTypeCorrect`: types, and `WindowInv` (the bit of the highest number is
  set; a state without history has no bits).  It is inductive by itself.
* `DedupImplementsExactWindow`: under `AlignedWindow`, `Spec => ImplementsExactWindow`,
  each action of `Dedup` being one of `DedupSpec`.

`DedupChannelProofs`, for any number of paths, packets and restarts:

* `ChannelTypeCorrect`: types, without further assumptions.
* `NoPacketAcceptedTwice` and `FreshPacketsPass`, under `ChannelBounds`: the window is
  aligned and has at least two numbers; a copy trails by no more than the window
  (`Lag <= Window`); the receiver hears a packet before the numbers it misses come round
  to its window (`MaxGap + Window <= SeqMod`); restarts happen at least
  `Window + MaxGap + Lag - 2` along the circle.  The constants of the run meet them, and so do
  4096 and 2^32; what happens when a restart comes sooner is said in section 2.1.

  `IsDuplicate` sees numbers and the properties speak of packets, so the invariant
  relates the two: there are a `base` (packets of earlier runs), a `stop` (the
  counter at the last restart) and a `newest` accepted packet such that every copy in flight
  has the number `NumberOf` gives it, and the window's top is either a packet of the
  current run, the newest accepted or one sent soon after the restart (`TopIs`), or
  still belongs to an earlier run and is far ahead of everything the new run may send before the receiver
  hears it (`TopIsOld`).  Two copies in flight with one number are of one
  packet (`NumbersDiffer`), a number that is sent is outside the window
  (`NewerIsOutside`, `NewRunIsOutside`), so a number in the window that is in the set of numbers seen is that
  of an accepted packet (`SeenInv`).  The last case is the one the
  constants are about: an old copy that arrives after the window has followed the
  new run throws it back, and the new run must still not be mistaken.

### 5.2 Registry

`ServerRegistryProofs`, for every set of clients, subnet, number of handlers and
acknowledgements in flight:

* `TypeCorrect`: types.  Needs `HasAddress`: the steps that write a local address
  into a table have one.
* `ServerAddressIsReserved`: with every operation and fault.  Not inductive
  alone, because the address could come from a claim, an acknowledgement, a
  local variable or an expired session: `NowhereServer` excludes it there too.
* `PoolStaysInjective`: if `AdminOps \subseteq {"update"}` and `"torn" \notin Faults`.  The invariant `PoolInv`
  adds that whoever holds an address outside the pool (session, claim,
  acknowledgement, local variable) has a pool entry, so a claim never enters an
  address into the pool that another device owns.
* `RegistryStaysConsistent`: if `AdminOps = {}` and `"torn" \notin Faults`.  `AgreeInv` extends the agreement to
  acknowledgements in flight, local variables and expired sessions.
* `AddressesStayStable`: under the same conditions, from `PoolInv`.
* `SessionsKeepUp`: if `Orderly` (addresses are changed by one handler, nothing else is
  administered, sessions do not expire and the server does not restart, as in
  `registry_update`; section 4 says what an expiry does to it).  While the handler is between the pool
  and the session the two disagree, so `SyncInv` says instead that they agree or
  a change of that device is under way, that the pool already has the
  address the handler will write, and that a registration in progress, which holds
  `sessionsLock`, carries either the pool's address or one that is about to be overwritten.

### 5.3 Paths

`MultiPathProofs`, for every set of interfaces and addresses, any number of path objects, receive loops and
changes and, except for the last, every fault:

* `MultiPathTypeCorrect`, `NoSocketIsLost`, `PathsAgreeWithScan`,
  `LoopsOfRemovedPathsEnd`.  None of the three properties is inductive.  `PathInv` adds:
  an entry's path has that entry's interface (`OwnNic`); while a recycling holds `m.mu` its path is
  listed and shut down (`RecycleInv`); the path a removal has looked up stays listed until
  it deletes it, unless `Stop` deleted all, and once it has shut it down no
  recycling has it in hand (`RemoveInv`); what is listed agrees with the last scan or is due to be removed,
  and what is due to be added is what the scan found (`ScanInv`).
  `RemoveInv` is where `recyclePath` and `removePath`, which use different locks, could
  hurt each other: a recycling that reopened a path already shut down would leave a
  socket nobody closes.
* `CalmPathsOpen`: if interfaces do not change, scans succeed and sockets
  can be created (`Calm`); peers may fall silent, writes fail and `Stop` come at any
  time.  The invariant says that a path is shut down only while `recyclePath` has it in hand.  A replacement
  that fails leaves a path in `m.paths` with a closed socket, down, until `UpdateRTT` takes
  an acknowledgement that was still waiting for a sign of life.

### 5.4 Forwarding

`ForwardingProofs`, for any number of NICs and ports, any timeouts and any number of
packets in flight, whether or not its NICs are named: `ForwardingTypeCorrect` and `NicsHaveOneAddress`.  The type invariant needs
the ports as a function (`TypeInv`).  `OneAddressPerNic` speaks of the names the session has stored and is inductive: the one
action that adds an address or changes a name, `HandleHeartbeat`, first removes the other addresses of the name it
brings, and a heartbeat without one leaves an address the name it had and gives a new one none.

### 5.5 Programs around the client

`MobileProofs`, for any number of clients:

* `MobileTypeCorrect`, whatever order the app calls `Start` and `Stop` in.  It contains that
  `tunReadLoop` reads only from a device that is there, hence `DevicesHaveOwners`.
* `DescriptorsNotShared`, for the same app.  A descriptor is in one place: not made yet, in the
  channel, or with one client (`PlacesInv`), and it was asked for by the client whose number it
  bears, which asks once, after its first acknowledgement (`Asked`, `AskersInv`).
* `StopReachesTheNewest`, for the same app: the only steps that touch `cancel` are `Start`'s second
  critical section and `Stop`.

`DesktopProofs`, for any number of connections and changes of the NIC:
`ControllerTypeCorrect`, `OneClientAtATime`, `RunningClientInReach`.  "At most one client is alive" is not
inductive, because `ConnectLocked` starts one whenever `connected` is clear; `LastInReach` adds that a
client that is alive is the last one started and `connected` is set while it is, and
that `cancelFunc` is its own unless it is cancelled.

### 5.6 What the proofs assume, and what is not proved

The assumptions on constants are `DedupAssumption`, `ClientAssumption`, `ChannelAssumption`,
`RegistryAssumption`, `MultiPathAssumption`, `ForwardingAssumption`, `MobileAssumption` and
`ControllerAssumption`, which TLC evaluates in the runs.  They fix types and, in
`MultiPathAssumption`, that there are enough path objects for every interface to have one.
The conditions `AlignedWindow`, `ChannelBounds`, `Orderly` and `Calm` are hypotheses of
single theorems.

Model-checked only: liveness (`OperationsEnd`, `PathsRecover`, `StopEnds`,
`FailoverLeavesSilentPaths`, `AddressesConverge`, `RepliesReachClient`, `SilentSessionsEnd`,
`ClientsEnd`, `TrafficStarts`, `AppIsTold`, `ClientFollowsNic`), which needs fairness and
ENABLED, and the violations.

## 6. Mutations

Every property of a passing run is paired in `PROJECT.json` with a mutation of
one definition that makes TLC find it violated: for example `RemovedLoopsEnd` with
`ShutSocketOnly` (a path is closed without its channel), `SessionsFollowPool` with
`UpdateRouteOnly` (the session is not changed with the route), `NoPacketTwice` with
`IsDupOfTop` (only the highest number is recognised), `DevicesNotShared` with `TakeFDKept`
(the descriptor is kept for the next who asks), `ClientFollowsNic` with
`WatchTickForgetful` (a NIC that is down overwrites the bound address).

## 7. Not modelled, and why

* Encoding and parsing of packets (2): fixed layouts without state or control beyond
  length checks.  Configuration (8), TUN devices (11), the command line (13):
  straight-line code or platform I/O.  The web handler (12): a stateless switch over
  paths whose operations are modelled where they are implemented.
* In the server: traffic counters, device names, `UpdateServerConfig`, which only
  changes whose heartbeats are refused, the check of a packet's inner source address,
  and the data races on counters and timestamps written under a read lock.
* In the client: resolving the server's name, the machine identifier, the
  rewriting of the inner source address and its checksum, status reports.
  `SetInterfaceEnabled` is a placeholder that changes nothing.
* In the paths: the socket all interfaces share (it changes no path: its
  packets name the path "central", which `UpdateRTT` does not find), traffic
  counters, the snapshot for the status page, IPv6 choice of address, and the
  watcher's first tick overtaking `Start`.
* In the programs around the client: windows, pickers and elevation; concurrent
  calls of `mobile.Start`; the web server that `Start` leaves running; a link-local
  address, which the client binds to and the watcher does not see.

## 8. Plan

The models are complete up to section 7 and their safety properties are proved.  What is left
is to prove more than the runs ask for:

1. `MultiPath`: `CalmPathsOpen` when scans may fail, which TLC confirms (`path_changes` with
   `Faults = {"scan", "silence"}`); the invariant then has to say which paths are being removed.
2. `ServerRegistry`: `SessionsKeepUp` for several handlers that change different devices.
3. `DedupChannel`: `NoPacketTwice` within each run of a sender that restarts.
4. What the liveness properties rest on: that a step each of them waits for brings its goal
   nearer, as properties of steps.
