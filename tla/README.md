# masque-vpn in TLA+

This directory models the Go core of masque-vpn (`common/`, `vpn_server/`,
`vpn_client/`): the address pool and the arithmetic that fills it, the registry
of client sessions and the goroutines that use it outside its lock, the
server's packet connection, one session's goroutines with the packet parsers,
the server process, the client process, the two together, and the FEC codec.
TLC checks each model on small instances, and TLAPS proves the safety
properties that matter most for every instance.

    tlc -config MCSessionRegistry.cfg MCSessionRegistry.tla    # model-check
    tlapm SessionRegistryProofs.tla                            # check proofs

## 1. The system

A client opens a QUIC connection with a certificate, sends CONNECT and is
assigned an address. Packets then travel TUN device -> client -> server -> TUN
device and back.

| Component | State | Operations | Talks to |
|---|---|---|---|
| Address pool, `common/ip.go` | `allocated`, `available`, own mutex | `Allocate`, `Release`, `Stats` | called by the registry |
| Session registry, `masque_handler.go`, `api_server.go`, `server.go` | `ClientIPMap`, `IPConnMap` under `IPPoolMu` | assign, store, clean up, disconnect, `Close` | pool, connections; shared by all handlers and the API |
| Server connection, `masque_connectip.go` | `closed`, two channels of 100, a relay goroutine | `ReadPacket`, `WritePacket`, `Close` | three writers/readers, two closers |
| Client session, `masque_handler.go`, `packet_processor.go` | handler, two proxies, `errChan`, 24 h context | proxy loops, the select, the cleanup | connection, TUN device, registry |
| Client, `vpn_client/main.go`, `masque_proxy.go` | phase, QUIC connection, stream, TUN device, `errChan` | dial, `ConnectIP`, configure, proxy, shut down | server, TUN device, signals |
| Server process, `vpn_server/main.go`, `server.go`, `tls_config.go` | stage of `main`, TUN device, listener, `errChan` | start up, listen, stop | client, signals, operating system |
| FEC codec, `common/fec` | none | `Encode`, `Decode` | sessions with FEC enabled |
| Server packet path with FEC, `packet_processor.go` | `PacketBuffer`, `SeqNum` | buffer, encode, send | codec, connection |
| Address arithmetic, `common/ip.go` | `NetworkInfo`, the list being built | `nextIP`, `LastIP`, `NewIPPool` | pool, server process |
| Packet parsing, `packet_processor.go`, `common/ip.go` | none | `parseDestinationIP`, `parseSourceIP`, `GetIPAddresses` | session |
| Metrics, `metrics.go` | gauge of active connections, counters | record connection, disconnection | handlers |
| API (read side), errors, TUN drivers, web interface | logs | | |

What is hard in it:

- **Concurrency.** Handlers and API calls share two maps and a pool that has a
  mutex of its own. `disconnectClient` releases an address after it dropped
  `IPPoolMu`; a cleanup uses the client and address its handler began with.
  `WritePacket` tests `closed` and sends after the unlock.
- **Use after unlock.** `processPackets` sends on a session it found under a
  lock it has dropped; a session's proxy trusts its own copy of the address.
- **Start, stop, restart.** A signal, a failing listener and a crash meet a
  server at every stage, and a client that is connected to it.
- **Teardown.** Five goroutines know a session; any of them may end first, and
  each of the others is blocked on something else.
- **Time.** Ten, thirty and sixty second timers, a 24-hour context, and reads
  without either.
- **Limits.** An exhausted pool, full channels, a last FEC block that is not
  full, a prefix at the end of its family, packets shorter than their header.

What makes each component correct:

- Pool: free slice and map split the addresses exactly; addresses are reused in
  the order they were freed; it refines an abstract lease.
- Registry: packets go to running handlers only, no client is listed without
  one, no address leaks, every address comes back. Meant, but true only in a
  restricted environment: a client's address is its own.
- Connection: a lossy FIFO; `Close` wakes everyone; a slow reader blocks no
  writer; nothing panics (false).
- Session: each proxy reports once and never blocks on it; a close ends all its
  goroutines; the loop through the TUN device makes no two packets of one and
  gives back only what a client sent to itself; it ends for a reason (false).
- Server core: whatever a goroutine does with a stale entry, a packet goes to
  the client its address belongs to, and at most one late packet per closed
  session carries an address that was released.
- Server process: lists exactly the hosts of its network; does not stay up
  without a listener; a signal ends it at every stage.
- Client: exits with nothing open; does not outlive its server; a signal or a failed proxy ends it (a signal
  does not while it waits for the response).
- FEC: what can be rebuilt is, and nothing else is made up (false for a last
  block that is not full).

## 2. The modules

    AddressLeases      what an allocator of addresses promises
    IPPool             the pool                      refines AddressLeases
    SessionRegistry    pool + maps + handlers + API  EXTENDS IPPool
    RegistryProperties                               refines AddressLeases if exclusive
    PacketTunnel       what a connection promises
    MASQUEConn         channels, relay, callers
    ConnProperties                                   refines PacketTunnel
    ServerCore         registry + processPackets + proxies + gauge
    CoreProperties                                   EXTENDS SessionRegistry
    PacketHeader       the three packet parsers
    ServerSession      one session                   EXTENDS PacketTunnel, PacketHeader
    SessionProperties
    ClientLifecycle    the client
    ClientProperties
    AddressRange       network, gateway, the loop of NewIPPool
    ServerLifecycle    the server process            EXTENDS AddressRange
    VPNSystem          both processes                EXTENDS ClientProperties, ServerLifecycle
    SystemProperties
    XorFEC             encoder and decoder
    *Proofs            theorems;   MC*  instances for TLC

`PacketTunnel` links two levels: `MASQUEConn` is shown to implement it (checked
and proved), and `ServerSession` is built on it, so the session need not repeat
the channels.

**IPPool.** The Go map is a function with `Nobody` for "no entry"; the slice is
a sequence. Each method runs under the pool's mutex and is one action. That a
full `Allocate` returns an error is a guard.

**SessionRegistry.** A handler slot goes `idle -> assigned -> serving -> idle`,
through the three critical sections of `IPPoolMu`: `ReuseAssignment`/`AssignNew`
(`assignIPToClient`), `StoreSession`, `Cleanup` (`cleanupClientSession`, with
the pool's `Release` inside the lock). `Disconnect` and `ReleaseDisconnected`
are the two halves of `disconnectClient`. When a handler stops is decided in
ServerSession; here it may stop at any time. `MayOverlap` says whether a client
may connect again while a handler still serves it, which the code permits.
`ActiveSessions` and `Connected` are what the listings of the API derive from
the two maps. `CloseServer` is `Server.Close`; the present `main` ends without calling it.

**ServerCore.** What SessionRegistry leaves out: goroutines that use its
entries without the lock. `LookUp` and `Forward` are the two halves of
`processPackets`; `proxy[h]` is the `proxyClientToTun` of a session, with the
address it was started with in `proxyIP[h]`. It outlives its handler, so a slot
of `Handlers` is given to another request only when nothing refers to it. The
registry's actions are taken over unchanged (`Admit`, `Store`,
`CleanupSession`, `Others`). `RecordConnection` and the deferred
`RecordDisconnection` keep `gauge`. `late` is a history variable. A packet that
was in the channel when the connection was closed may still be received: the
channel is not modelled, and a `reading` proxy may receive, skip or time out.
`Forward` is a `WritePacket` that succeeds, its closed test and its send in one
step: a `Close` between the two does not lose the packet but ends the server,
which is MASQUEConn's subject. `ForwardFails` also stands for a session with
FEC, whose packet stays in a buffer (ServerSession).

**MASQUEConn.** A connection without a stream, as `NewMASQUEConnForServer`
makes it. One action per lock section or channel operation: `WriteCheck` then
`WriteSend`/`WritePanic`/`WriteTimeout`; `ReadCheck` then
`ReadReceive`/`ReadClosed`/`ReadTimeout`; `CloseRead` then `CloseWrite`, the
write lock held in between; the relay's receive and forward. A send on a closed
channel is a panic; a panic in a goroutine that does not recover stops the
model (`Alive`). A select with several ready cases is a free choice, the timer
included. Writer `processPackets` does not recover; writer `proxyTunToClient`
does. The latter never gets to its `WritePacket` at present (see `session_tun`),
it stands for that call site. Errors a closed connection returns change nothing
and are not actions.

**PacketHeader.** A packet is its length, its version and its two addresses.
Each parser returns the set of addresses it finds: empty is its error. The
fields lie at fixed offsets, and a buffer is used for many packets, so a parser
that accepts a packet too short for its version reads bytes of an earlier one.
`FirstBytes` is what the slice `buffer[:n]` holds after a read at an offset.

**ServerSession.** The session of one client: `hpc` is the handler, `tpc` and
`cpc` its proxies, `errChan` the channel between them, `toSend` what
`processPackets` has looked up but not sent yet. The connection is a tunnel
that leads back into its own reader, because the server's relay does. `tunDev`
is external and may be absent: both proxies then wait for the context only. A
TUN read fails once the device is closed (`TunProxyReadFails`) and may fail
before (`TunProxyReadBreaks`), a TUN write may fail at any time. What a proxy
reports is `"nil"` or `"error"`, free where `isNetworkClosed` decides by the
text of an error of the device.
With `fecEnabled` a packet for the client goes to `packetBuffer` and stays
there (`BufferPacket`): the handler creates its session without an encoder. The
panic of a write on a closed connection belongs to MASQUEConn; here such a
write fails. `cause` is a history variable: what gave the session a reason to
end.

**ClientLifecycle.** `phase` is where the connecting goroutine stands, from
`dialing` to `done`; `main` only waits for it. `t2m` and `m2t` are the two
proxies. The client's connection works on a QUIC stream, whose `Close` ends the
sending side only: a blocked read goes on. Packets have no content here.

**AddressRange.** An address is a number below `Space`: the carry over four or
sixteen bytes is addition modulo the size of the family. `LastIP` and `Masked`
are the upper and lower end of an aligned block. `ListAddress` is one iteration
of the loop of `NewIPPool`.

**ServerLifecycle.** `stage` is where the goroutine of `main` stands: it
configures, lists the pool, creates and addresses the TUN device, installs its
signal handler, sets up TLS and serves. Every error ends the process (`Exit`);
before `NotifyContext` so does a signal. `listener` and `runErr` are the
goroutine of `ListenAndServe` and its channel. `Crash` may come at any time;
`Restart` starts the same configuration again. A prefix that ends in the last
address of its family is listed for ever: the list ends with the memory
(`OutOfMemory`, at `MaxListed` addresses).

**VPNSystem.** The product of the two processes. `Connect` is the client's
`Dial`, which needs a server that listens. `peer` says whether the process at
the other end of the connection is still there; nothing the server kept
survives its exit, so a restarted server does not know the connection. The
packets between the two are ServerSession's and MASQUEConn's subject.

**XorFEC.** XOR treats every bit alone, so a byte is represented by one bit: a
packet is a length and a set of positions. The redundancy packet keeps its
header of lengths. `Encode` and `Decode` are operators used by a three-step
behaviour: encode, lose any packets, decode.

## 3. The runs

| Run | Instance | Properties | Result |
|---|---|---|---|
| `registry` | 2 clients, 2 addresses, 3 handlers, 1 administrator, overlap | `TypeOK`, `PoolPartition`, `RoutesAreServed`, `NoStaleAssignment`, `NoAddressLeak`, `LeasesSpec`, `AddressReturned` | hold, 548,146 states |
| `registry_exclusive` | ServerCore: 3 clients, 2 addresses, 3 handlers with their proxies, no administrator, no overlap | `CoreTypeOK`, `LeaseIsKept`, `NoConnLeak`, `StatusIsTruthful`, `LateWritesBounded`, `GaugeAgreesWithStatus`, `ReuseInReleaseOrder`, `RegisteredLeasesSpec`, `SourceIsLeased`, `StaleLookupIsHarmless` | hold, 242,502 states |
| `registry_conflict` | as `registry` | `UniqueAddress` | violated |
| `conn` | 2 writers x 3 packets, capacity 1, 2 closers | `ConnTypeOK`, `WritersKeepOrder`, `TunnelSpec`, `SlowReaderNeverBlocksWriters`, `CloseWakesReader`, `CloseEndsRelay` | hold, 167,186 states |
| `conn_panic` | as `conn` | `NoPanic` | violated |
| `session` | 2 hosts; packets of both versions, one byte short, of an unknown version; 2 forwarded | `SessionTypeOK`, `LoopNeverMultiplies`, `HeadersAreComplete`, `CloseEndsHandler`, `ClientProxyEnds`, `TunProxyEnds` | hold, 102,010 states |
| `session_idle` | as `session` | `EndsForCause` | violated |
| `session_tun` | as `session` | `TunPacketsReachClient` | violated |
| `client` | VPNSystem: all prefixes of a family of 8 addresses, 1 restart | `ServerTypeOK`, `ClientTypeOK`, `CleanExit`, `PoolListsHosts`, `SignalStopsTunnel`, `ProxyFailureStopsClient`, `SignalStopsServer`, `NoDeadServer`, `ServerStopEndsClient` | hold, 145,716 states |
| `client_shutdown` | the client beside any server | `GracefulShutdown` | violated |
| `fec` | blocks of 2, 1 to 4 packets of 1 or 2 bytes, all losses | `FullBlocksRecover` | holds, 181,890 states |
| `fec_partial` | as `fec` | `NothingInvented` | violated |

Every property of a passing run comes with a mutant of the model that breaks it
(operators marked "Mutant"): a release without its test, a cleanup that keeps
an entry, a packet sent again after a write that succeeded, a relay that waits
for room, a channel one slot too small, a packet that is not cut to its length,
a proxy started before its session is stored, a pool that lists the gateway, a
listener whose error is only logged.

**What `registry_exclusive` leaves out.** No administrator and no two requests
of one client at a time: nothing in the code sees to that. `CoreTypeOK`,
`LateWritesBounded` and `ReuseInReleaseOrder` are proved without that
restriction. The others are claimed only with it and say nothing of what a late
cleanup does to a foreign lease: for that there are `registry` (what survives
every interleaving) and `registry_conflict` (what does not).

**Why the bounds are enough.** Three handlers for two clients let two handlers
of one client overlap while the other client arrives; two addresses let an
address be released and leased again behind a handler's back; more clients than
addresses (`registry_exclusive`) empty the pool, and let a third client take an
address while the proxy of its former holder still runs. Clients and handlers
are interchangeable there (`Interchangeable`); addresses are not, the pool
lists them in order. All temporal properties of that run are action properties
or refinements of a specification without fairness, for which symmetry is
sound. Eight addresses (`Space`) have every kind of prefix: a host, a pair, a
network with hosts, the whole family, and at each size one that ends in the
last address. Three addresses in memory (`MaxListed`) hold the hosts of a
network of four, so that both ways out of the loop are taken. One restart
(`MaxRestarts`) lets a client meet a server that does not know it. Capacity 1 makes both channels
full, empty, and drop, which a capacity of 100 reaches only after 100 packets;
three packets per writer fill both channels, the relay and still leave one to
wait. Two packets forwarded in a session are one in flight and one waiting.
Two blocks of two are the least that have "another block", and four packets of
up to two bytes give every parity and unequal lengths within a block. The
quantities that are bounded are `MaxPackets` (packets a writer sends; packets
forwarded; packets encoded), `MaxLen`, `MaxListed` and `MaxRestarts`.

**Deadlock.** `registry` and `registry_exclusive` check for it (`Server.Close`
can always be called, so it says little). The other systems do stop: a
connection that is closed and drained, a session whose goroutines ended, a
client that exited, a decoded block. They say CHECK_DEADLOCK FALSE.

**Fairness.** Goroutines that can run do run: weak fairness of the steps a
goroutine takes on its own. Timers, signals, packets, administrators and peers
owe nothing, with these exceptions, each from the code:

- A serving handler ends (`WF` of `Cleanup`): its context lives 24 hours.
- A send on a full channel is served in order by the Go runtime, so a send that
  becomes possible again and again happens (`SF` of `WriteSend`).
- `Connecting` in the client: `quic.Dial` and `OpenStreamSync` have timeouts of
  15 and 10 seconds. `MasqueToTun`: every stream read has a deadline of 30
  seconds. The read of the response has neither and gets no fairness unless the
  QUIC connection has died.
- `ServerStep`: no step of the server's `main` between its start and its exit
  waits for anybody but the listener or a signal. A listener that is starting
  binds its address or fails to. One that listens may do so for ever.
- A connection whose server process is gone is noticed (`WF` of `QuicDies` when
  `peer = "gone"`): by a CONNECTION_CLOSE, a stateless reset, or
  `MaxIdleTimeout` of 60 seconds. Nothing obliges an operator to restart.
- `TunProxyEnds` assumes, within the property, that packets go on arriving at
  the TUN device: without one, the proxy blocks in its read.

## 4. What the violated properties show

- **`UniqueAddress`.** Client A has two handlers, or is disconnected by an
  administrator and its handler has not cleaned up. Its address goes back to
  the pool and to B. The late cleanup releases it again, closes B's session and
  the pool leases it to a third client. `PoolPartition` still holds: the pool
  is sound, its caller is not.
- **`NoPanic`.** `WritePacket` or the relay sends on a channel that `Close` has
  just closed. The test the property quotes covers the sequential case only.
- **`EndsForCause`.** The 30-second read timeout is not a `net.Error`, so the
  branch that ignores timeouts is never taken.
- **`TunPacketsReachClient`.** `ReadPacket(buffer, 100)` is an offset of 100.
- **`GracefulShutdown`.** The read of the CONNECT response ignores the context.
- **`NothingInvented`.** Three packets in blocks of two, the first one lost:
  `Decode` combines the second with the redundancy packet of the third.

## 5. The proofs

Assumptions: `PoolAssumption` (`InitialPool` lists every address once),
`NilAssumption` (a nil slice is no packet), `RegistryAssumption`,
`ConnAssumption`, `SessionAssumption`, `FECAssumption`, `RangeAssumption`
(prefixes are aligned blocks), `ServerAssumption` - types of the constants,
evaluated by TLC on the runs. All sets may be of any size, with two exceptions,
stated in the theorems that count: the handlers are finite in
`GaugeCountsHandlers` and `GaugeAgrees`, the addresses in the two theorems on
`Stats`. Theorems that need `Exclusive` (no administrator, no overlapping
request of one client) say so in their ASSUME.

- **Pool** (`IPPoolProofs`). `PoolInv` is inductive: types and the partition of
  the addresses. The step for `Release` needs that the released address is not
  in the slice, which the partition gives. `PoolImplementsLeases` follows: the
  head of the slice is leased to nobody. `PoolReusesInOrder` compares places in
  the slice before and after each method; that an address lies in one place
  only is the partition again. `StatsStayExact`: what `Stats` reads off the
  slice and the map adds up to the number of addresses in every state.
- **Registry** (`SessionRegistryProofs`). `RegistryInv` is inductive for every
  interleaving: types, `PoolPartition`, `RoutesAreServed`, `NoStaleAssignment`,
  `NoAddressLeak`. None needs the others except the types; the work is in
  showing that a cleanup takes away what it invalidates, of its own handler and
  of any other. The registry refines the pool's own specification, so the
  pool's refinement carries over (`ServerPoolImplementsLeases`,
  `ServerReusesInOrder`).
- **Isolation** (`IsolationProofs`), under `Exclusive`: `LeaseIsKept` needs
  `OneHandlerPerClient` and the registry's invariant; from it follow
  `UniqueAddress`, `NoConnLeak` and the refinement of `AddressLeases`. With
  `ServingIsRouted` (a serving handler is the one its address is routed to) it
  gives `StatusIsTruthful`. `registry_conflict` shows that the assumption is
  needed; `ConflictNeedsEarlyRelease` says what happens without it: an address
  has two clients only where somebody released it behind a running handler.
- **Core** (`CoreProofs`). Every step of ServerCore is one of the registry or
  leaves it alone, so ServerCore refines the registry
  (`CoreImplementsRegistry`) and what was proved of it carries over:
  `CoreKeepsRoutesAndAddresses`, the pool's leases, order and statistics in any
  environment, `CoreKeepsLeases` and `CoreImplementsLeases` under `Exclusive`.
  `CoreTypeOK` ties a session in `processPackets`' hand to its handler and
  address. `LateInv` says that a proxy of a closed session that has written late
  cannot start another read: the close is seen at the next `ReadPacket`. Both
  hold for any administrators and overlaps, and so does `GaugeCountsHandlers`:
  the gauge is the number of handlers between their two calls of the metrics.
  Under `Exclusive`, an open connection belongs to a serving handler
  (`NoConnLeak`) that is routed (`ServingIsRouted`), which gives
  `SourceIsLeased` and `StaleLookupIsHarmless`; that the served addresses and
  the serving handlers are in bijection gives `GaugeAgreesWithStatus`.
- **Connection** (`MASQUEConnProofs`). `ConnTypeOK` is inductive (closing order,
  one closer between the two closes). The refinement maps `inFlight` to
  `readChan \o held \o writeChan`: every step appends, takes the head, removes
  one element or leaves the concatenation alone. Its lemmas are about sequences.
  `WritersKeepOrder` does not follow from the tunnel, which may accept a packet
  twice. `OrderInv` adds what a writer owes: everything in flight or received
  carries a number its writer has used, in order among what is in flight and
  behind what was received, and the packet about to be sent carries none of
  them. `PanicNeedsClose`: `NoPanic` fails only after a `Close`.
- **Session** (`SessionProofs`). `SessionTypeOK` counts the reports: while the
  handler waits, `errChan` holds exactly one per ended proxy, so capacity two
  suffices, also for a proxy that outlives its handler
  (`ProxiesNeverBlockReporting`). `HeadersAreComplete` and
  `LoopNeverMultiplies` are proved with it, for every set of packets. For the
  latter `LoopInv` adds that all that is in `processPackets`' hand or in the
  tunnel is addressed to the client: the source test then leaves only packets
  the client sent to itself, and every step that makes one number of the sum
  larger makes another smaller or counts a packet taken. `ParsersAgree`: the
  server's two parsers and the library's accept the same packets and return the same
  addresses. `SessionUsesTunnel` closes the gap between the two levels: a
  session does with its connection what `PacketTunnel` describes, and
  `MASQUEConnImplementsTunnel` says that the channels provide it. Three more
  theorems say what sessions do not do: `proxyTunToClient` sends nothing
  (`TunProxySendsNothing`), a session with FEC sends nothing at all
  (`FECSessionsAreSilent`), and nothing but the unrecognised read timeout ends a
  session without a cause (`OnlyIdleSessionsEndUncaused`, by an invariant that
  traces every report back to a cause).
- **FEC codec** (`XorFECProofs`). `FullBlocksComeBack` states
  `FullBlocksRecover` for every block size, number and length of packets and
  pattern of losses. `FECInv` says that what is decoded is what was encoded,
  less the losses; the rest is about the operators: the arithmetic of blocks
  (`Division`, `Quotient`, `BlockOfIndex`), what lies where after `Encode`
  (`FullBlocksEncoded`), and that a parity without one member of its set gives
  that member back (`BlockParity`, `LostBit`). With full blocks nothing is
  invented (`FullBlocksInventNothing`), and `PartialBlockStaysLost` gives the
  other half of what `fec_partial` shows: `RedundancyShifted` computes that
  `Decode` looks for every redundancy packet one place too far, so nothing of a
  last block that is not full ever comes back.
- **Client** (`SystemProofs`, first part). `ClientInv` adds to `ClientTypeOK`
  and `CleanExit` that no device exists before it is configured.
  `ClientProxiesNeverBlockReporting`: as in the session, counted over `errChan`
  and the proxies still running.
- **Both processes** (`SystemProofs`). The composition refines each of its
  parts, fairness included (`SystemImplementsClient`, `SystemImplementsServer`),
  so what holds of the client or the server alone holds of them together.
  `ListInv` is the invariant of the loop of `NewIPPool`: the list is the ramp of
  the hosts before `ip`. It is claimed only for networks that end before the
  last address; for the others the loop's condition never fails
  (`LoopNeverEnds`), and the server never serves, however often it is restarted
  (`LastNetworkNeverServes`). `PoolListsHosts` follows for a family of any size;
  `HostsAreAssignable` shows that the list meets what IPPool assumes of its
  pool. `ServerTypeOK` is inductive, and a server's steps leave the client's
  variables alone, so `ClientInv` carries over to a client beside a server that
  crashes and restarts.

Every invariant and action property, and every refinement, that a passing run
checks is proved. Only model-checked are the liveness properties, which TLAPS
cannot prove: `AddressReturned`, `SlowReaderNeverBlocksWriters`,
`CloseWakesReader`, `CloseEndsRelay`, `CloseEndsHandler`, `ClientProxyEnds`,
`TunProxyEnds`, `SignalStopsTunnel`, `ProxyFailureStopsClient`,
`SignalStopsServer`, `NoDeadServer`, `ServerStopEndsClient`. Of the properties
that are violated, four come with a theorem that says under what condition they
hold: `UniqueAddress`, `NoPanic`, `EndsForCause` and `NothingInvented`.
`TunProxySendsNothing` says that `TunPacketsReachClient` is violated by every
packet it speaks of. `GracefulShutdown` is a liveness property.

## 6. Not modelled

- `encodeAndSendBlock`: no line creates an `Encoder`, so with FEC enabled a
  session buffers without end and sends nothing. That is modelled; the sending
  of blocks, which no state reaches, is not.
- `common/errors.go` (classification and recovery strategies of errors): no
  other code of the repository uses it, so there is no behaviour it takes part
  in.
- Connection logs of the API: nothing writes one. The configuration, health and
  metrics endpoints read constants and counters.
- The goroutine of the API server: its error is logged and changes nothing.
  `NewAPIServer` never fails, so the branch of `New` for it is left out.
- The Darwin and Windows drivers, routes, what certificates and configuration
  files contain, logging, the web interface, monitoring: input and output.
- The client before it dials: `main` panics or goes on, nothing is open yet.
- Panics other than those of the connection and those `Crash` stands for.

## 7. Plan

Done, in this order: pool, registry, connection, session, client, FEC codec;
then the server core, packet parsing, address arithmetic, the server process,
the two processes together, and the proofs about them, those of the FEC codec
and of the composition of the two processes last.

What is left, should the code grow into it:

1. A `FECPath` over `XorFEC` and `PacketTunnel`, when sessions get an encoder:
   nothing counted as forwarded is kept for ever, no packet is sent twice after
   a failed send.
2. A client that reconnects: VPNSystem then has a behaviour after
   `ServerStopEndsClient`, and the registry's `MayOverlap` a cause.
