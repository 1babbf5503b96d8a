# TLA+ models and proofs for jiejie-masque

jiejie-masque is a CONNECT-IP server: clients authenticate with a P-256
certificate, open one HTTP/3 request that becomes an IP tunnel, and the server
moves packets between those tunnels and one TUN device. This directory models
the parts of it whose correctness depends on the order of steps of several
goroutines, on failures, or on all cases of a table or a loop, checks the models
with TLC and proves the most important properties with TLAPS.

Paths below are relative to the repository; `manager.go` is
`internal/connectip/session/manager.go`, `main.go` is
`cmd/jiejie-masque/main.go`, `config.go` is
`internal/connectip/config/config.go`, `parse.go` and `ipv4.go` are in
`internal/connectip/packet`.

## Inventory

| Component | State | Operations | Hard behaviour |
|---|---|---|---|
| session manager (`manager.go`) | `sessions4`, `sessions6`, `nextGeneration`, the lock; per session its context, `closeOnce`, `removed`, `manager` | `Replace`, `RemoveIfCurrent`, `Lookup`, `Snapshot`, `Len`, `Session.Close` | two tables that must agree; takeover against late teardown; `Close` called by four kinds of goroutine, waiting on each other; work outside the lock |
| CONNECT-IP server (`main.go`) | one handler and one reader goroutine per session, one dispatcher, the main goroutine, the `fatal` channel | `handleRequest`, `sessionReaderWithAddresses`, `tunDispatcher`, shutdown | stale sessions after a lookup, registration during shutdown, one dispatcher for all clients |
| start-up (`serveConnectIPArgs`, the systemd unit) | what has been acquired so far; the process and its unit | load, open, configure, listen, serve, return; restart | failures and kills between any two calls, a dispatcher that fails before anyone listens to it |
| TUN device and its check (`tunnel/tun_linux.go`, `health_linux.go`) | a descriptor, the kernel's interface | `Open`, `ConfigureAddresses`, `CheckInterface`, `Read`, `Write` | partial configuration, ownership of the descriptor, left-overs on a persistent interface |
| client access (`config.go`, `auth.go`, `main.go`, `quic_cc.go`) | the file's settings, the certificate and request of each connection, its tunnel | `Load`, `Validate`, `VerifyConnection`, `handleRequest` before the session, `connectIPRoutes`, `prepareSessionPacket` | checks made far from where they are relied on; a tunnel without a session to close it |
| client configuration (`config.go`, `mihomo_config.go`) | client list, `seenIP`, `seenKeyIP`, `byKey` | `ResolvedClients`, lookups by key | duplicates across families and entries; two lookups with opposite tie-breaking |
| packet parser (`parse.go`, `ipv4.go`) | offset and flags of one walk | `Parse`, `IsTCPOrUDPDestinationPort` | bounds and limits on chained headers chosen by the sender; contradicting fragments |
| server key generation (`server_keygen.go`) | two files | `generateServerCertificate`, `writePEM` | partial failure, crash, two runs on the same paths |
| mihomo output, command line, scripts | none that outlives a call | | |

How they interact. `serveConnectIPArgs` resolves the configuration, builds the
map `byKey`, opens the device, starts the dispatcher and then the HTTP/3 server.
A handler authenticates the client by its key, takes its addresses from `byKey`,
builds a `Session`, registers it with `Manager.Replace` (which closes the sessions
it displaced), starts the reader and waits for the request or the session
context to end. The dispatcher looks the destination of each packet up in the
manager and writes it to the session found. Reader, dispatcher, a newer handler
of the same client and the shutdown loop may each call `Close` on a session
they hold. Configuration feeds the server with two facts: clients share no
address, and the session limit is the number of clients. It feeds the packet filter
with a third: client addresses lie inside the server's prefixes.

What makes each part correct:

- *manager*: one session per client, found at all its addresses or none; a
  teardown takes nothing from a newer session; the limit holds and refuses
  nobody because of its own old session; `Close` ends and unmaps; takeovers stay
  within a client.
- *server*: a packet reaches only the client that owns its destination; a
  replaced reader stops; a stop request or a device failure ends the program.
- *start-up*: the interface comes up configured; a listening server has an open device
  and the interface that one undisturbed start would have made, whatever earlier
  processes left; the unit comes back.
- *access*: only configured keys get tunnels; no way leads from client to client;
  routes are announced where there is egress; a request leaves no tunnel.
- *configuration*: accepted clients share neither addresses nor keys, lie inside
  the tunnel network, and are found by both lookups; refusals have a cause.
- *parser*: never leaves the buffer, reports no transport header that is not there.
- *key generation*: success is a matching pair, failure leaves no key, no run
  touches another's files.

`PROJECT.json` lists the hazards by line and the property that watches each.

## Modules

| Module | Models | Variables and the code's state |
|---|---|---|
| `SessionRegistry` | the promise of the manager: one owner per identity, replaced atomically | `owner`, `spent` (sessions that have been an owner) |
| `SessionManager` | `manager.go` and the handler around it | `sessions4`, `sessions6`, `nextGeneration`, `mu` are the manager's fields; `generation`, `manager`, `ctxDone`, `closing`, `removed` the session's; `pc` and `victims` the handler's position and its `oldSet` |
| `ConnectIPServer` | `handleRequest`, reader, dispatcher and shutdown of `main.go`; extends `SessionManager` | `admitted`, `reader`, `dispatcher` with `dst` and `target`, `fatal`, `main` with `snapshot` and `victim` |
| `TunDevice` | `Open`, `ConfigureAddresses`, `CheckInterface` | `step` is the next call, `fd` the descriptor and its owner, `iface` the kernel's interface, `setup` the configured addresses |
| `Startup` | `serveConnectIPArgs` and the systemd unit; extends `TunDevice` | `unit`, `dispatcher`, `fatal`, `signalled`, `stopAsked` |
| `ClientConfig` | `ResolvedClients` and the lookups by key | `clients`, `out`, `seenIP`, `seenKeyIP`, `result` |
| `ClientAccess` | `Load`, `Validate`, the handshake, `handleRequest` up to the session, `prepareSessionPacket`; extends `ClientConfig` | `controller`, `advertise`, `usable` are the file's settings; `cert`, `stage`, `tunnel`, `announced` belong to a connection; `packet` is the last one written to the device |
| `PacketParser` | `Parse`, the IPv6 extension walk, the port check | `offset`, `next`, `first`, ... are the locals of the walk and the fields of `Info` |
| `ServerKeygen` | the files of `server-keygen` | `key`, `cert`, `pc` per run |
| `SessionConstants` | what the manager is given: address sets, client table, limit; assumed by the two modules above it, proved in `ClientAccessProofs` | |
| `MC*` | constants of the TLC runs | |
| `*Proofs` | the theorems about the module of that name; `SessionProgressProofs` about handing over and coming to rest, `ServerProofs` about `ConnectIPServer` | |

### Session manager

An element of `Session` is a session object with the goroutine that serves its
request. `Replace` reads and writes shared state only under the lock, so its
critical section is one step (`ReplaceReject` or `ReplaceInstall`) that ends with
the unlock, after `ReplaceLock` has taken the lock. After it the displaced
sessions are closed one at a time (`EvictClose`, `EvictClosed`). `Close` is split
where other goroutines can interleave: cancel the context (`StartClose`), return
of `Conn.Close` (`ConnClose`), the compare-and-swap on `removed` (`RemoveClaim`), the
critical section of `RemoveIfCurrent`. Whoever starts the body of `closeOnce`,
its steps are the same; a caller that comes second waits until `closing` is
"closed". `OtherClose` lets anybody who could have found the session in the
tables call `Close`, which makes the manager's properties independent of what
`main.go` does. `onClose` is nil in production and left out. `RLock` sections
(`Lookup`, `Snapshot`, `Len`) are single reads of the tables.

`SessionManager` implements `SessionRegistry` under the mapping `OwnerOf(i)`, the
session of identity i that the tables name (run *manager*, property
`ImplementsRegistry`): `ReplaceInstall` is `Establish`, `RemoveIfCurrent` of the
current session is `Retire`, everything else is a stutter. `LookupAgrees` adds
that `Lookup` returns the owner that holds the address.

### Server

`ConnectIPServer` runs the same handlers and teardown steps, with `OtherClose`
replaced by the goroutines that do call `Close`. `Admit` stands for the path
through `handleRequest` up to `NewWithAddresses`, which changes no state that
these goroutines share; `ClientAccess` has its steps. Packets are represented by
their destination: the dispatcher holds `dst` and the session it found. A reader's
packet is either accepted by `prepareSessionPacket` or dropped, and dropping
changes nothing. `ReadPacket`, `WritePacket` and `tun.Write` may fail at any time;
an error that `normalSessionError` recognises ends the reader without closing the
session. `ConfigAssumption` is what the configuration gives the server: equal addresses
for equal keys, disjoint ones for different keys, and `NewManager(len(clients))`.
`SessionConstants` states it, so that `ClientAccessProofs` can prove it of the program.
`lastSeen` is a history variable that remembers `nextGeneration` at the snapshot.

### Start-up and TUN device

`TunDevice` has one step per system call of `Open` and `ConfigureAddresses`; each may
fail, and the `ip` command may be killed before or after it has set the address.
The interface belongs to the kernel. Without preparation it comes and goes with the
descriptor; a persistent one starts as any interface a deployment could have made
(`setup.deployed`) and keeps everything between processes.
What the calls do to it is the kernel's and is stated in the comments. `SIOCSIFADDR` on a
point-to-point interface replaces the address and sets the full mask, and leaves
everything alone if the address is already there. `ip -6 addr replace` looks the address
up without its prefix length: it adds an address that is not there, and leaves one that
is there with the length it has and succeeds (`WithServer`). The model is restricted to
interfaces with one IPv4 address at most. `test-connect-ip-dual-stack-netns.sh:111-112`
makes one with two; there the ioctls act on the first one, which may be the wrong one.

`CheckInterface`, which no command calls, is the repository's own statement of a
configured interface. `ListeningIsConfigured` says exactly when it passes for a
listening server: always for the IPv4 prefix, and for the IPv6 prefix unless the
deployment has set that address with another length (`LengthKept`). `StartsConverge`
compares the interface with `OneStart`, what a single start without failures makes of
the deployed one: a failed start may leave any prefix of the sequence behind, with the
`ip` command done or not, and the next one completes it and leaves the other addresses
alone. `ComesUpConfigured` is about the order within one start, which the two families
go through by different code.

`Startup` runs the function to its return under `Restart=on-failure`: failing calls,
a process killed anywhere, `systemctl stop` at any time (before `signal.Notify` the
signal ends the process), and the dispatcher, which starts before the listener and
may fail before the select waits for `fatal`. Serving and shutting down is one step
here and `ConnectIPServer` there. Deferred `Close` calls and the end of the process
release the same things and are one step.

### Client access

`ClientAccess` continues the client list of `ClientConfig`: the checks of the file,
then for each connection the certificate at the handshake, the congestion
controller, the handler's own look at the certificate, `Proxy`, `AssignAddresses`,
`AdvertiseRoute` and the session, and the filter of the reader. A certificate is a
point of the curve or `Foreign`; a key in the file is a string, of which a point has
several (base64 ignores line breaks and spare bits), and `PublicKeyBytes` writes the
canonical one. `usable` says whether the server's IPv6 prefix is outside the reserved
ranges. The stage "unauthorised" is the handler's 401 and "dropped" a connection
closed because its controller is unknown; that neither occurs (`HandshakeDecides`) is
proved and has no run. `ReplaceFails` is the error path of `Replace`, which closes the
tunnel; that the server's configuration never leads there is `RegistrationNeverFails`.
`ClientsIsolated` is about the other clients only: services on the server's own
tunnel addresses are discussed under *Findings*.

### Configuration, parser and key generation

`ClientConfig` takes every list of at most `MaxClients` entries as its initial
state and resolves one entry per step. What `optionalPrefix`, the prefix length
and the key decoder refuse is the value `Malformed` or `BadKey`. `Network` is the
set of addresses inside the server's prefixes.

`PacketParser` chooses the bytes of a header when the walk reads them, which is
sound because the walk only moves forward. `touched` is one more than the
highest index the code has used; reading it against `len` is what Go's bounds
check does. The limits are those of the code, 8 headers and 256 bytes. The loop
refuses a packet after eight iterations, and the iteration that finds the end
of the chain counts, so seven headers are the longest chain accepted; fragment
headers are not held to the byte limit. The history variable `later` records
that some fragment header had an offset.

`ServerKeygen` lets every `OpenFile`, write and removal fail, whether or not the file
exists, and every run be killed. An incomplete file after a failed write stays, as in the
code, and makes later runs fail. An error of the deferred `Close`, which the code drops,
is not modelled. The complete key of a killed run may stay beside a certificate that was
there before; `PairsMatch` names that case and excludes every other.

## Runs

| Run | Config | Bounds | Shows |
|---|---|---|---|
| manager | `MCSessionManager.cfg` | 4 sessions of 2 clients, 2+2 addresses, no limit | atomic two-family registration, no stale owner (and so one session per client), late teardown harmless, closed means unmapped, takeover within a client; where everybody waits nothing is left to do; the tables implement the registry |
| manager_liveness | `MCSessionLive.cfg` | 3 sessions of 2 clients, limit 1 | limit and justified refusals; registrations do not wait for teardowns (`manager.go:114-117`); replaced sessions get closed, ended requests return unmapped |
| manager_overlap | `MCSessionOverlap.cfg` | 3 sessions of 1 client | finding: two active sessions of one client |
| server | `MCConnectIPServer.cfg` | 3 sessions of 2 clients, limit 2, before shutdown | delivery within a client, no refusals |
| server_liveness | `MCConnectIPLive.cfg` | 2 sessions of 1 client, with shutdown | the server is an environment of the manager, replaced readers are silent, the snapshot is closed, a stop or a device failure ends the program, the dispatcher never blocks for good, readers of ended sessions end |
| startup | `MCStartup.cfg` | 2 faults, 2 IPv4 and 1 IPv6 prefix, deployed addresses of both families, the server's with another length among them | comes up configured, check passes when listening, every start ends with the same interface, exact check, dispatcher loss noticed, recovery |
| access | `MCClientAccess.cfg` | 2 entries, 3 key strings of 2 points, 3 IPv4 and 2 IPv6 addresses, 2 connections, 3 controllers | no shared address, lookups agree, refusals have a cause; access by certificate, clients isolated from each other, egress, no tunnel left |
| access_keys | `MCClientAccessKeys.cfg` | the same | finding: one key for two clients |
| parser | `MCPacketParser.cfg` | lengths around every limit, up to 8 headers | reads inside the buffer, sound transport offsets |
| parser_transport, parser_port | `MCPacketTransport.cfg`, `MCPacketPort.cfg` | the same | two findings |
| server_keygen | `MCServerKeygen.cfg` | 3 runs, files from before | pairs, cleanup, ownership of files |

Why the bounds are enough. The manager's addresses are chosen so that client a
comes back once with an address set that shares nothing with its former one and
once with the original set, which needs three sessions, and client b asks for
an address that a has held in each of them and for one that is its own; takeover, conflict, scan
by identity, a teardown that outlives two takeovers and a refusal at the limit all
occur. In `manager` the first and third session of client a are interchangeable
(`SameClient`), and its properties are all safety properties; the two CHOOSEs
it evaluates have one candidate in every reachable state.

In *manager_liveness* three sessions at a limit of one give a takeover at the limit, a
refusal for the other client, and a registration that becomes possible when a
session ends.

Three sessions in the run *server* give a reconnecting client and a bystander. Its
constraint `TakeoverBesideBystander` keeps to states before shutdown in which the
bystander sends nothing: the properties speak of the dispatcher and of
registrations, to which a bystander's reader and the shutdown add nothing but
closings that the handler can bring about too. Shutdown is explored in full, for
one client, by *server_liveness*, where nothing is constrained. The two sessions of
client a in *server* are interchangeable, so `Symmetric` is sound for its safety
properties; the liveness runs use no symmetry. The theorems below hold without any of
these bounds; a client that connects three times, for whose readers the finding
*manager_overlap* matters, is covered by `ReplacedReadersAreSilent`.

In `startup` two faults suffice for a process that fails over what the one before
has left, or fails twice; the deployed interface may carry another IPv4 address or the
server's with another mask, the server's IPv6 address with the wanted length, with
another one or not at all, and a mapped IPv6 address. `MaxFaults` bounds the failing
calls and the kills. In `access` two entries can repeat a point, a string or an address within an entry and
across entries and families, and the two connections can be of one client or of two;
longer lists are covered by the theorems of `ClientConfigProofs`. In `parser` the
length bytes give headers of 8 to 2048 bytes, and lengths reach beyond
40 + 256 + 8 * 8. `MaxClients` and `MaxFaults` are the only bounds in the modules' own
definitions; nothing else is counted without end, since every session is registered
once at most.

Deadlock is checked in every run: when all requests have been served, the
process has ended, or a parse or a key generation is over, the module has an
explicit stuttering step for it.

### Findings

- `parse.go:9-10` says that `TransportOffset` is zero when there is no
  trustworthy TCP or UDP header. For IPv4, line 45 sets it to the header length
  for every first fragment and the condition on line 46 only repeats the
  assignment, so an ICMP packet, or one without payload, has an offset too.
  (`parser_transport`.)
- `ipv4.go:26` says that `IsTCPOrUDPDestinationPort` only matches a complete
  header. Line 29 measures against the buffer, not against the length the IPv4
  packet declares. A packet that declares fewer than its header and four bytes, in a
  buffer that is longer, is matched in bytes behind its end. (`parser_port`.)
- `manager.go:124-125` says that an identity has one active session. `Replace`
  unmaps the displaced session under the lock and closes it behind it, in the
  goroutine of the handler that displaced it. If a third session of the client
  registers in between, it finds nothing of the first and is served while the first
  is neither closed nor cancelled. (`manager_overlap`; what does hold is
  `ReplacedReaderAcceptsNothing` and, in the end, `SupersededIsClosed`.)
- `config.go:239` refuses a key that is "assigned to multiple tunnel IPs", but compares
  strings, and one key has several accepted strings. The entry with a string that
  is not canonical passes `check-config` and never matches a certificate.
  (`access_keys`.)

No code outside the tests calls `IsTCPOrUDPDestinationPort` or reads
`TransportOffset`, so the first two do not affect the present data path.

More disagreements were met that no run states:

- `docs/OPERATIONS.md:20-21` has the deployment configure the TUN addresses and
  `README.md:26-27` says that the process leaves the network configuration alone;
  `serveConnectIPArgs` sets address, mask, MTU and the UP flag at every start
  (`SetAddress` and what follows it in `TunDevice`).
- `main.go:125`, `README.md:15` and `docs/OPERATIONS.md:20-21` speak of services on the
  tunnel addresses, while `prepareSessionPacket` drops every client packet to an address
  inside the server's prefixes, the server's own included (`ForwardPacket`).
- A deployment that has given the server's IPv6 address another prefix length than the
  configuration keeps that length: `ConfigureAddresses` returns nil and `CheckInterface`
  would fail. `test-connect-ip-dual-stack-netns.sh:115` sets `fd00:200::1/128`, and
  `configs/connect-ip.example.yaml:27` has `fd00:200::1/64`. The exception in
  `ListeningIsConfigured` is exactly this case, and TLC reaches it.

## Fairness

`Fairness` of `SessionManager` is weak fairness of each handler's next step and of
the steps of a running teardown: the Go scheduler runs every runnable goroutine,
and `sync.RWMutex` keeps no waiter out for ever. `mu` is released by the step that
follows its acquisition, so weak fairness for a handler suffices when the number
of competing registrations is finite. `ParentCancel` and `OtherClose` are never
fair: a client may stay connected. `Conn.Close` is a call into connect-ip-go and the
transport, and `LiveSpec` does not make it return, so `RegistrationDecided` holds
while it hangs; `SupersededIsClosed` and `CancelledReturns` have its return
(`ConnsClose`) as an antecedent.

`LiveServerSpec` assumes the same of the handlers and teardowns, of the
dispatcher once it has a packet, of the main goroutine, and of a reader that has
something to do; `ReaderUnblock` states that a blocked `ReadPacket` returns after
`Conn.Close`. Packets, disconnections, device failures and signals have no
fairness. The loop over the snapshot (`main.go:148-150`) is outside the three
seconds of `Shutdown`, so `StopLeadsToExit` needs `Conn.Close` to return.
`DispatcherAdvances` and `ReaderEnds` have the antecedent `Undisturbed`, that nobody
stops the server and its device does not fail: once the program is ending its
goroutines may be cut off by the exit, and an exit shall not excuse them before.

`LiveSpec` of `Startup` is weak fairness of what the program and systemd do by
themselves (`Progress`): the next call returns, a returned error ends the process,
and the unit is started again after `RestartSec`. Faults and stops have none.
`Recovers` exempts two ends after which the unit stays down by design of the code:
a stop, and a `ServeListener` that returns as if the server had been closed
(`main.go:142`), which counts as success.

## Proofs

All theorems hold for any finite set of sessions, any identities, addresses,
prefixes, keys, numbers of runs, entries, connections and faults, and any limits
that satisfy the modules' assumptions; TLC evaluates these for the instances of the
runs.

- `SessionManagerProofs`. The properties are not inductive one by one: that
  `RemoveIfCurrent` frees nothing of a newer session depends on the tables
  agreeing, and that a takeover has one victim depends on one session per
  identity. `IInv` joins type correctness, soundness of the tables (a table entry
  names a registered session that owns the address), atomic registration, one
  session per identity, what is known of a registered session and of a handler
  at each position, that the holder is the newest of its identity, and
  reachability of live sessions. `InstallLookup` and `RemoveLookup` say what the
  two critical sections do to a lookup; every other step leaves the tables alone.
  The invariants of the run *manager*, `CapacityRespected`, and the action properties
  `TakeoverWithinIdentity` and `RefusalJustified` follow. The limit is inductive
  because at most the victims are subtracted and exactly one session is added.
  Under `IInv` the owner of an identity is determined, so installing is `Establish`,
  removing is `Retire` or a stutter, and `Spec => Registry!Spec`; lookups return what
  the registry resolves.
- `SessionProgressProofs`. `EvictInv`: a registered session that is in no table is
  being closed or a victim of a handler (`Handed`), and a session whose immediate
  predecessor is open holds it as its victim. So there is a true form of the comment
  that *manager_overlap* refutes, `OneSuccessorServes`: while a session is served its
  immediate predecessor is cancelled, and any older one that is still open is in the
  hands of a handler inside `Replace`. `WaitInv`: the lock is held only inside the
  critical section, never by somebody who waits, and nobody loses the
  compare-and-swap. With the two, `RestIsSettled`: where every goroutine waits,
  registrations are decided, each running teardown hangs in its `Conn.Close`, and
  if none hangs all work has been done. `EveryStepAdvances`: every step brings a
  session forward and none brings one back. Each session has at most eleven steps to
  take, so the system comes to rest after finitely many, and at rest the two
  conclusions `CancelledReturns` and `SupersededIsClosed` hold.
- `ServerProofs`. Whatever session the dispatcher, a reader or the shutdown loop
  holds has been registered (`HeldAreRegistered`), hence every server step is a
  manager step and `ServerSpec => Spec`: all theorems about the manager hold in the
  server, the registry (`ServerImplementsRegistry`) and the direction of every step
  (`ServerInheritsProgress`) among them. With the assumption on the configuration it
  follows that `Replace` never fails, and that a packet stays with its client. When a
  takeover has returned, the predecessor's context is done (`EvictInv`) and its reader
  passes nothing. `ShutdownInv` says that every session registered before the snapshot
  is still in it or `Handed`. `WorkInv` says who owes what: only admitted requests
  have a running handler or a cancelled context, the shutdown loop waits only for a
  `Close` that has begun, and the end of the dispatcher is on its way to the main
  goroutine. `ServerRestIsSettled` follows: where every goroutine of the server waits,
  none waits for one that waits itself; each waits for a packet, a client, a signal or
  a `Conn.Close`, and a failed device or a stop has not been forgotten.
- `StartupProofs`. `Done` says for every step what the calls before it have
  established of the descriptor and the interface, whatever the interface was at the
  start; `Kept` what no start ever loses of the deployed one: its IPv6 addresses are the
  deployed ones, with or without the server's, and an IPv4 address is touched only by a
  server that has one. `Accounted` says that only a fault leads to "failed" and that the
  dispatcher's message is not lost. `StartsConverge` needs `Done` and `Kept` together,
  because adding the server's address a second time changes nothing
  (`WithServerOnce`); `ListeningIsConfigured` and `ComesUpConfigured` follow too, the
  first by relating `OneStart` to the check.
  `UnitInv` adds what systemd and the operator know: a stop request reaches the
  process or the unit, the unit is down only on purpose or with its listener, and it
  waits for a restart only after a fault. Hence `StartupRestIsSettled`: where neither
  program nor systemd goes on by itself, the server listens with all it needs or the
  unit is down on purpose; and by `StartsAdvance` no step takes a start back.
- `ClientConfigProofs`. `ResolveInv` relates the accepted prefix to the two maps.
  Keys are distinct although the code compares only primary addresses, because
  equal primary addresses would be a duplicate address first. `LimitIsIdentities`
  shows that the entries are as many as their keys.
- `ClientAccessProofs`. `AccessInv` carries the result of each check to the place that
  relies on it: what `Validate` has checked holds while serving, a connection behind
  the handshake has a configured key, what was announced follows from its entry. Every
  step leaves the client list alone or is one of `ClientConfig`, so its theorems apply;
  isolation of the clients follows from `ClientsAreInside` and the filter's test of the
  destination.
  `ManagerGetsClientTable` discharges the assumptions of the manager and the server:
  in every state the sessions that requests may have built, with `len(clients)` for the
  limit, satisfy `AddressSets` and `ClientTable`, the formulas of
  `AddressSetAssumption` and `ConfigAssumption`. `ClientTableIsFixed` adds that from the
  first session on the table and each session's row of it never change, which
  is what makes them constants there.
- `PacketParserProofs`. `WalkInv` bounds the offset by the byte limit plus eight bytes
  for each further iteration and excludes later fragments from the walk. The bound of
  `TransportIPv6IsSound` is reached (256 bytes of options and six fragment headers, 304
  in all), so that one more iteration of the loop would break it.
- `ServerKeygenProofs`. `Holds` says which files are a run's own at each of its
  positions, `Complete` where a run is when a complete file bears its name. `O_EXCL`
  makes them inductive: a run writes or removes only what it holds.

Every safety property and every action property of a passing run is a theorem, and
so are both refinements (`ImplementsRegistry`, `ServerUsesManager`).
Proved and left to the proofs are facts that these properties rest on or imply: type
correctness of the modules (`TypeCorrect`, `ServerTypes`, `StartupTypes`, `ConfigTypes`,
`AccessTypes`, `ParserTypes`), `OneSessionPerIdentity`, `VictimsAreFew`, `LookupAgrees`,
`KeysAreDistinct`, `ClientsInsideNetwork`, `OneSuccessorServes`, `EveryStepAdvances`,
`HandshakeDecides`, `ServerRestIsSettled`, `StartupRestIsSettled`, `StartsAdvance` and
`GivesClientTable`.
TLC confirmed them on the instances of the runs as well.

Only model-checked are the liveness properties (`SupersededIsClosed`,
`CancelledReturns`, `RegistrationDecided`, `DispatcherAdvances`, `ReaderEnds`,
`StopLeadsToExit`, `Recovers`), which with ENABLED are beyond TLAPS. The theorems on
rest and direction are their content up to scheduling: what is waited for
(`HandlerWaits`, `CloseWaits`, `ReaderWaits`, `DispatcherWaits`, `MainWaits`,
`StartupWaits`) is written without ENABLED, and TLC confirmed on the instances that
each is equivalent to the negation of ENABLED of the fair step it stands for. That
equivalence, and the step from "every goroutine that can go on does" to "in the end
none can", are what is not proved. `DispatcherAdvances` has no counterpart among the
theorems, since packets may come for ever.

## Not modelled

The TLS, QUIC and HTTP/3 stacks and connect-ip-go are third-party; their calls are steps
that may fail. The YAML document of `mihomo-config`, the generation of client keys,
certificate encodings and the command line compute one result from their input and keep
no state; the choice of the client in `mihomo-config` is in `ClientConfig`. Prefix
syntax, the list of reserved IPv6 ranges and the other range checks of `Validate` are
data, reduced to well-formed or not. Reading packets into a reused buffer
(`main.go:259`) is safe as long as `WritePacket` keeps no reference, which is a
property of connect-ip-go. The counters of `Device.Stats` and the functions
`Fingerprint` and `Matches` have no reader outside the tests. A file left incomplete by
a failed write of `server-keygen` blocks later runs; the code promises nothing about
it. Logs are left out. Build, release and deployment scripts are tooling.

## What could follow

The modules above cover the parts that keep state or run concurrently. Open points:

1. *server* with two sending clients and shutdown together, beyond what TLC
   explores in minutes; the theorems cover the safety properties of that case.
2. One composed module of `Startup` and `ConnectIPServer`, in which the step "serving"
   is refined; today the two meet at the select of `serveConnectIPArgs`.
