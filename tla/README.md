# A TLA+ model of javs

`javs` is an OpenVPN-compatible server. This directory models the parts of it
that keep state, checks them with TLC on small instances and proves what it can
with TLAPS for all instances. Paths such as `src/src/server.rs` are relative to
the directory that holds `src/` and `tla/`.

## The system

| Part | State | Operations | What makes it hard |
|---|---|---|---|
| Session tables (`server.rs`) | `sessions`, `routes`, `routes_v6`, `peers`, `data_routes`, peer id counter, two address pools | HARD_RESET, PUSH_REQUEST, end of a TCP stream, idle eviction | one UDP loop, a task per stream, a reaper and a worker per session, on several threads; tables change one at a time; the reaper acts on what it read before it unlocked |
| Session state machine (`server.rs`, `session.rs`) | `state`, `last_seen`, `client_cn`, addresses | `drive_control_plane` | failures half-way; a loop that may take several messages from one packet |
| Data keys and rekey (`session.rs`, `server.rs`) | two slots, active index, rekey track, outbound packet ids | soft reset by either side, rekey handshake, promotion | lost, repeated and reordered packets; both sides starting at once; a failed send between install and promotion |
| Replay window (`replay.rs`) | highest id, 64-bit bitmap | `check_and_set` | late, repeated and far-away ids; shift widths |
| NAT guard (`nat.rs`) | three iptables rules, `ip_forward` | `enable_masquerade`, `Drop` | kills and failures between any two commands, then a restart, maybe on another WAN interface |
| Control reliability (`session.rs`, `server.rs`) | `unacked`, `pending_acks`, `received_pids`, packet ids | ACKs, flushes, retransmit timer | retries, lost ACKs, give-up, sends that fail half-way |
| Data plane (`server.rs`) | worker queues, TUN writer | `route_data`, `decrypt_and_forward`, `forward_tun_to_client` | eviction during use, a writer that ends |
| Formats (`protocol.rs`, `control_channel.rs`, `transport.rs`) | the buffer behind TLS | parse, encode, frame | partial input, length limits |
| Envelopes and cryptography (`tls_auth.rs`, `tls_crypt.rs`, `static_key.rs`, `crypto.rs`, `prf.rs`, `tls.rs`) | keys | wrap, seal, derive | what is covered by which key, and in which order it is checked |
| Start-up (`config.rs`, `main.rs`, `tun_dev.rs`) | none | load, create | none |

The UDP loop and the stream tasks call `handle_control_packet`, which finds the
session of an address and works on it under its mutex. PUSH_REQUEST writes the
route tables, which the TUN reader uses to find a session again. The data path
goes by peer id to the session's worker, which finds a key slot by key id and
asks that slot's replay window. The reaper and the end of a stream take all of
this apart again.

## Modules

**ReplayWindow** has the operators of `replay.rs`; the `u64` is a set of bit
numbers below `BITS`. **ReplayFilter** is the state machine of one window with
the history of what it accepted. **AntiReplay** is what such a filter promises:
accept an id that is not 0, was not accepted and is not older than the window.
`ImplementsAntiReplay` says that the first implements the second.
**ReplayFilterProofs** has the proofs.

**SessionTable** is the core. A task's program counter stands between two
operations on the shared tables:

| Action | Code |
|---|---|
| `HardReset`, `InsertSession`, `SpawnDataWorker` | the three parts of the HARD_RESET branch |
| `LookUp`, `Touch` | finding a session; a packet without effect on it |
| `FinalizeKeys`, `KeyMethod2`, `PushStatic`, `PushPool`, `AddRoutes`, `Exit` | the steps of `drive_control_plane`; pc `drive` is its loop, with the mutex held |
| `Accept`, `StreamEof`, `StreamCleanup` | `run_tcp_stream` |
| `ReaperTick` ... `ReaperDone` | the reaper: list, get, read under the mutex, remove the session, remove the rest |
| `DataPacket`, `GoIdle` | a worker sets `last_seen`; the timeout passes |

A session is named by the value `fetch_add` gave it and its peer id is that value
modulo `PeerIdSpace`. When the last reference to an evicted session goes, its
record is `NewSession` again. A TCP address has one task at a time, and may be a
UDP peer's address as well. `peers`, `data_routes` and `routes_v6`
change in the same step as their neighbour: as long as peer ids do not wrap, their keys
belong to one session only.

**SessionTableProofs** has the proofs about sessions and their workers, and
**SessionRoutesProofs**, which extends it, those about addresses, routes and peer ids.

**KeyRotation** is one session's keys. A key is named by the TLS context it was
derived from. Packets to the server form a set from which nothing is removed, so
each may come never, late or often. The client is external: it gets packets once
and in order, takes part in one rekey at a time, never under the key id it uses
already, and sends with the newest key it has. A TLS context accepts one next
record; any other breaks it, as rustls repeats an error for ever.
**KeyRotationProofs** has the proofs.

**ControlReliability** is the reliability layer of one session in both directions.
An item is what one packet carries: a reset, or a chunk of TLS output. Packets to
the client form a set, so each may come never, late or often; the client's own
packets come to the server in any order and any number of times, with ACKs for
anything the client has.

| Action | Code |
|---|---|
| `HandleControlPacket` | `handle_control_packet`: `AckV1`, `SoftReset`, `ControlV1` with `FlushOutgoing` or `FlushRekeyOutgoing`, `NotActedOn` for resets without effect |
| `ServerRekey`, `ShutdownClient` | the rekey timer; `shutdown_clients` for one client |
| `RetransmitTick` | the retransmit task and `stale_unacked` |
| `ClientReceive`, `ClientSend` | external |

`SendAndTrack` lets any send fail and stops there, as `?` does. **ReliableStream** is
what the layer promises: items arrive in order, without gaps, and never before
they were sent. `ImplementsStream` says so, with `produced` for what was sent and
`client.delivered` for what arrived. **ControlReliabilityProofs** has the proofs about
the server's side, and **ControlStreamProofs**, which extends it, those about what arrives.

**Codec** has the formats of `protocol.rs` and `control_channel.rs`, **Envelope** those
of `tls_auth.rs` and `tls_crypt.rs` with the choice between them. A byte string is a
sequence of cells, one for a field of fixed width or for a byte of a variable part.
A MAC is a cell made of its key and of what it covers, so it verifies only for the same
key and the same cells in the same order; a keystream is a prefix that comes
off only with the key and IV that put it on.

**DataPlane** is the inbound data path: `RouteData`, the session's worker
(`DataWorker`, `Forward`) and the TUN writer (`TunWrite`, `TunWriteFails`), three tasks
with a queue between each two. It has the operators of ReplayWindow inside.

**ReceivePath** composes the three with the receive loops and
`drive_control_plane` around one session:

| Action | Code |
|---|---|
| `UdpReceive` | the UDP loop, for a packet as it was sent, damaged or cut short |
| `ReadLength`, `ReadPacket` | the reader of `run_tcp_stream` |
| `Worker`, `Writer` | the tasks of DataPlane |
| `Evict` | the reaper, or the end of the stream |
| `ClientSend`, `ClientRetransmit`, `ClientAck`, `ClientJunk`, `ClientData` | external |

`Receive` is the body of both loops, from the opcode to `route_data` or
`unwrap_control`, `handle_control_packet`, `Feed`, `DriveControlPlane` and
`FlushOutgoing`. A TLS context is the number of the record it waits for, and any other record
breaks it. A mode, chosen in `Init`, has the configured envelope, transport and kind of address,
and what the client does. `Pushed` gives the IPv4 address, routes it and only then asks for
the IPv6 address, so a session may stay in PushPending with an address and a
route when that fails. `AssignIp` has every answer the pool and the other sessions can
lead to; SessionTable has these themselves.

**NatGuard** is `nat.rs` one command at a time, with `Crash` enabled everywhere.
A rule belongs to a WAN interface, which may differ from run to run; `CreateTun` and
`BindTcp` are what can fail in `run()` before its loop, with the guard in place.
A `-D` may fail although the rule is there, for instance while another iptables holds the
lock. `Drop` logs that (`warned`); `enable_masquerade` ignores it (`missed`, a history variable), and
then appends a second copy. `original`, `found` and `left_on` are histories of `ip_forward`.
**NatGuardProofs** has its proofs.

`MCReplayFilter`, `MCSessionTable`, `MCControlReliability` and `MCReceivePath` give the
constants that a configuration file cannot. Definitions called `Mutant of ...` are faulty variants of the one
that follows them, kept to show that the properties notice.

## Runs

| Run | Checks | Shows |
|---|---|---|
| `replay_filter` | `TypeOK`, `WindowInv`, `NeverAcceptedTwice`, `ImplementsAntiReplay` | the bitmap is the history of the window, for every order of arrival |
| `session_table_udp` | `TypeOK`, `RegisteredRouted`, `RegisteredHasWorker`, `PeersOwned` | a session in the table owns its routes and its worker, and no peer id is left behind |
| `session_table_tcp` | `RegisteredRouted`, `RegisteredHasWorker`, `IdleEvicted` | the same with streams that end and reconnect during eviction; silent sessions go |
| `key_rotation` | `TypeOK`, `ClientKeyFound`, `NoncesUnique` | the server always finds the client's key; no nonce repeats before the id wraps |
| `control_reliability` | `TypeOK`, `Accounted`, `AcksAccounted`, `AcksFit`, `EnvelopeFresh`, `ImplementsStream` | the client gets a prefix of what was sent, whatever is lost, given up or fails to be sent; the server forgets neither a packet nor an ACK except where the code gives it up; envelope ids are fresh |
| `receive_path` | `TypeOK`, `HandledInOrder`, `AllHandled`, `OnceAuthentic`, `ClientAgrees`, `InboundOrdered`, `WindowAuthentic`, `Forwarded` | messages cut anywhere are handled in order and once; envelopes let a packet through as it was sent and once; client and server agree on what was pushed, after requests that failed as well; data gets to the TUN device in order and, while the writer lives, at all |
| `nat_guard` | `TypeOK`, `CopiesAccounted`, `UpForwards`, `CleanStop`, `ForwardingRestored` | only a deletion that failed unnoticed doubles a rule; a running server forwards; a clean stop leaves no more than such copies; `ip_forward` is restored, off or on, unless a run could not |
| `reaper_race` | `RoutesOwned` | violated: a route outlives its session |
| `pool_reuse` | `ExhaustedMeansInUse` | violated: freed addresses are not used again |
| `static_in_pool` | `AddressesUnique` | violated: a static address in the pool is given out twice |
| `early_promotion` | `ActiveKeyShared` | violated: the new key is used before the client has it |
| `stale_track` | `TrackIsNew` | violated: a repeated SOFT_RESET leaves a track nothing completes |

The violated properties quote comments and documentation of the repository;
`PROJECT.json` gives the lines under `findings`. Both properties of the tables have a
second way to fail in the same module, which has no run of its own: `RoutesOwned` when the IPv6 pool runs dry
after the IPv4 address was taken, `AddressesUnique` when two streams with the same
certificate name ask at once, as checking for a static address and taking it are two steps.

One more statement of the repository is stronger than the code and has no run: `src/README.md:454-456`
says that a clean Ctrl-C removes the rules. When a killed run left one and the deletion
at the next start fails with the rule in place, the rule is doubled, and a clean
stop leaves one copy without a warning. `CopiesAccounted` and `CleanStop` say how far the statement holds.

### Bounds

* Replay: window and bitmap of 3, ids to 10. Jumps below, at and above the width
  and ids at both edges of the window all occur. The proofs cover the rest.
* UDP: two addresses, three sessions, pools of one address each and a static one.
  An address gets a second session, both pools run dry, and a static address is asked for while
  in use and again after eviction. UDP addresses are symmetric.
* TCP: two UDP addresses, one of which is the TCP peer's too, two sessions, a pool of
  one. A stream's address gets a second session while the reaper still has the first.
* Keys: three key ids, so that ids wrap; three packet ids and four packets per key, so that those wrap
  as well; four TLS contexts and three attempts, so that a rekey meets leftovers of two earlier ones.
* Reliability: two attempts, three items of the server's, up to two in one flush, and three packets of
  the client's besides its HARD_RESET, two of them ControlV1. A flush fails at its first or second send, packets
  are given up, a SOFT_RESET and a ControlV1 meet in either order, and envelope ids
  wrap after seven. The ids of control packets do not wrap: no session comes to 2^32 of them.
  `AckCountSpace` is 4, one above the client's window of 1 and its two resets, and its four packets
  are enough to fill it: with 3, or with a client that ignores its window, TLC finds
  `AcksFit` violated. With a window of 1 the client's packets come first in order, then repeated and late; the
  proofs cover wider windows.
* Receive path: a key-method-2 and five ASCII messages in packets of 0 to 24 cells; over UDP one
  retransmission, every single damaged field and every truncation; over TCP one
  ACK, empty frame or unknown opcode. All four envelopes occur with both
  transports. The pool has two IPv4 addresses and one IPv6 address, either may run dry, and one
  client each has a static address, which may be in use, and one that is refused. Data: two packets over UDP and four over TCP (IPv4, keepalive, neither, IPv6),
  with `QueueMax` packets in the worker's queue at most. Control and data
  are in different modes, as they share no state but the key slot. A string's length
  and an ACK count are small enough for their fields.
* NAT: two WAN interfaces, and at most `MaxMissed` deletions, here one, of each rule that fail unnoticed,
  so that rules have up to two copies. The proofs have any number.

`PeerIdSpace` is larger than the number of sessions, so peer ids do not wrap.
Only the replay and NAT runs check deadlock: in the others the bound on
sessions, rekeys or packets may be spent, and the system stops.

### Fairness

`IdleEvicted` is checked under `FairSpec`: weak fairness of each task's handler
steps, of the clean-up at the end of a stream and of the reaper. The tokio
runtime polls every task that can run, mutexes are held only for the length of
a handler, and the reaper's loop has no exit. Packets, connections, silence and
the end of streams are not fair: a peer owes the server nothing.

`Forwarded` is checked with weak fairness of `Worker` and `Writer`, tasks that wait on
a channel and are woken when there is something in it. No packet has to arrive.
`TunWriteFails` is part of `Writer`, so a writer that ends is a fair one as well.

## Proofs

TLC checks the instances above; TLAPS proves the following for every value of the
constants. Each invariant used for induction was first checked as an invariant
of the same runs.

**ReplayFilterProofs**, from `WindowAssumption` and `MaxPacketIdAssumption`:
`TypeCorrect`, `WindowIsHistory`, `NoReplay` and `Refinement`. The inductive invariant is
`TypeOK /\ WindowInv`: the bitmap has bit `i` exactly when `highest - i` was
accepted. `NeverAcceptedTwice` alone is not inductive, as it says nothing of what
the bitmap remembers. The lemmas follow the code: an id accepted is one the
abstract filter accepts, and both the shift to a higher id and the setting of a
bit for a late one keep bitmap and history in step. `Refinement` maps every
step to a step of `AntiReplay`.

**SessionTableProofs**, from `TableAssumption` (the pools are ranges, the names of
tasks and the absent value are distinct from everything else):

* `TypeCorrect`. The types alone are not inductive: the reaper reads fields of the
  session it holds, so it has to hold one.
* `WorkerReachable`: `NoWrap => (Spec => []RegisteredHasWorker)`, where `NoWrap`
  says that there are more peer ids than sessions. Eviction and the end of a
  stream remove entries by the peer id of a session they took from the table some
  steps ago, so the argument is that such a session never comes back. `IInv` says
  why: `TableInv`, a session is in the table under one address at most;
  `TaskInv`, a task about to insert a session is the only one who knows it, and
  the session of a stream being cleaned up is not in the table; `ReaperInv`, the
  session the reaper holds can be in the table only under the address that
  `EvictSession` removes. `IInv` needs neither `NoWrap` nor that UDP and TCP
  addresses differ. With wrapped peer ids the theorem fails: a new session
  takes an old one's entries over.

**SessionRoutesProofs**, from the same assumption and on top of `IInv`. `FreshInv` says that
a session has no addresses before it is in the table, and that a task works on a
session it found under the address its packet came from.

* `NoPeerLeaks`: `UdpOnly => (Spec => []PeersOwned)`, for a server without TCP. `UdpInv` has the
  reason: with one receive task the session that the reaper has read is still the one under
  its address when `EvictSession` removes it, and a session whose creation is not over
  is not idle. With streams the property fails: when the UDP loop and a
  stream both handle a HARD_RESET from one address, the second insert replaces the first session,
  whose peer id nobody removes.
* `RoutesKept`: `StaticsApart => (Spec => []RegisteredRouted)`. `StaticsApart` says that static
  addresses are outside the pool and that a server with static addresses
  has no TCP listener; it says nothing of a server without static addresses, so the theorem covers
  the configurations of both runs. Without either half TLC finds two sessions
  with one address, of which the first loses its route. The danger is in the
  removals: `StreamCleanup` and `EvictRest` remove routes by the address of a session
  that left the table earlier. `PoolInv` and `PoolV6Inv` say that an address of a pool
  is held by one session, where a task about to store an address and the reaper
  that has read one hold it too. Static addresses come back, so they need another argument,
  `StaticInv`: such an address has no route when it is handed out, and keeps its route from the
  reaper's reading it to the end of the eviction, so `PushStatic` refuses it meanwhile.

**KeyRotationProofs**, from `RotationAssumption` (at least two key ids and packet ids, and the
absent value is none of the values it stands beside):

* `TypeCorrect`.
* `NonceFreshness`: `Spec => NoncesUnique`. `NonceInv` says that as long as a key has
  sealed fewer than `PidSpace` packets, its slot's next id follows from their
  number and the ids used are 1 up to that number; that two slots never hold the
  same key; and that the key of a track without a key-method-2, or of a TLS context
  still to come, has sealed nothing. The last is what makes starting a new
  slot at packet id 1 right. A track that was left after a failed send is exempt: its key is
  in a slot already, and `key_method_sent` keeps it from being installed twice.
* `ClientKeyKept`: `Spec => []ClientKeyFound`, without hypotheses. The client is `InStep` with the
  active slot or `OneBehind` it, in the other slot; the proof is that the server never
  overwrites a slot while the client is one behind, although packets of old attempts can
  come at any time. `ClientInv` ties the messages under way to the rekey they
  belong to: a message in a TLS context was sent by the attempt that chose the context
  (`ContextInv`), the client has chosen it by then and, while the track has it, is still at that attempt
  (`ChosenInv`), and the reply that ends an attempt carries the active slot's key (`ReplyInv`).
  So the server can install a key only for the attempt the client is at, which
  it begins only when it is in step.

**ControlReliabilityProofs**, from `ReliabilityAssumption` (the counts are positive and the script is
a sequence of the three opcodes). What a handler sends is first brought into one of four forms
(`Handled`: nothing, an ACK, some chunks of which a prefix is sent, a reset); each part of an invariant
is then shown to survive each form, the retransmit tick and the client's steps.

* `EnvelopeIdsFresh`: `Spec => []EnvelopeFresh`, over sends that fail half-way and retransmissions. `EnvelopeInv`:
  until the ids are used up they are given out in order, so the next one is new.
* `PacketsAccounted`: `Spec => []Accounted`.

**ControlStreamProofs** extends it, for a session whose packet ids do not wrap: `NoWrap`
is `MaxItems < PacketIdSpace`, and no session comes to 2^32 packets. `WireInv`, a packet id stands
for one packet, and what is unacked was sent, is common to all of them.

* `TypeCorrect`, and `AcksKept`, which is `NoWrap => (Spec => []AcksAccounted)`. `AckInv`: an ACK is owed once, and one that went
  out is for a packet the client sent and will not be pending again.
* `AckCountFits`: `AcksFit` when moreover the client's window and its resets together are fewer than
  the ACK count's byte can say. Nothing in the server bounds the pending ACKs, so the bound is the client's.
* `Refinement`: `NoWrap => (Spec => ImplementsStream)`. Every step maps to `Put`, `Get` or a stutter of
  `ReliableStream`. `StreamInv`: packet ids and items are in step until a send fails, and the packet
  of a send that failed is never on the wire. So the client, which delivers in order of ids and
  without gaps, stops before the first failed one, and what it has is a prefix of the
  items. After a wrap an id would stand for two packets.

**NatGuardProofs**, from `NatAssumption` (the bound is a number, and the absent value is not
Boolean): `TypeCorrect`, `CopiesHaveReasons`, `ServerForwards`, `StopIsClean` and `SettingRestored`, which are
`TypeOK`, `CopiesAccounted`, `UpForwards`, `CleanStop` and `ForwardingRestored` for any set of WAN
interfaces and any number of failing deletions. None of these but the first is inductive: that
`-A` makes no copy without a reason rests on what the deletions before it have been through. `IInv` follows the three
loops: `PurgeInv`, of what has been purged there are no more copies than deletions that failed; `InstallInv`,
what was added is present and the rest as `PurgeInv` left it; `DropInv`, what has been
dropped has no more copies than that again, unless `Drop` warned. `ForwardInv` has that a process runs
with forwarding on, remembers it as it found it, if it could read it, and found it as the
history of the runs before says.

Only model-checked: the properties of `ReceivePath`, and `IdleEvicted` and `Forwarded`, which
are liveness and out of the prover's reach, like everything
that needs fairness or ENABLED. The prover cannot do induction over data, so what the
codecs compute for every input stays with TLC, and it cannot use RECURSIVE operators:
`DriveControlPlane` is one, and no proof reaches its module. The hypotheses `UdpOnly`, `StaticsApart` and
`NoWrap` mark where the properties themselves stop holding, not where the proofs do.

## Not modelled

* Bytes within a field, and so the hex of `static_key.rs`, the text of addresses, options
  and peer info. A damaged field is one with a value no peer sends.
* The algorithms of AES, HMAC, the PRF and TLS. A derived key is the name of the
  secrets it comes from.
* How TCP cuts a stream on arrival: `read_exact` waits for a whole field, so the reader
  cannot tell. The outbound writer task of a stream, which puts the length in
  front, is left out as well; none of the server's packets exceeds its limit.
* Time, other than "idle for the timeout" and "a timer may fire". Backoff is a choice of
  which packets are due.
* The key direction of a tls-auth client. `ClientKeys` mirrors the server's slots, as the
  test at `src/src/tls_auth.rs:198-206` does. A client configured with
  `key-direction 1`, as `src/README.md:439` has it, would send with slot 3 and receive with slot 1.
* The client's packet ids across a rekey: ControlReliability's client counts on in one space, as the
  server's session does. An OpenVPN client has a space for each key state.
* The load of a worker's queue: channels are unbounded in the code.
* Control packets during a rekey in `ReceivePath`: KeyRotation and ControlReliability
  have them.
* Reading the configuration and the TUN device, finding the default route:
  sequential input and output. What a failing start-up leaves behind is in `NatGuard`.

## Plan

1. `InboundOrdered` and `WindowAuthentic` of `ReceivePath` for any number of packets, from a
   form of `DriveControlPlane` that the prover can read.
2. Liveness of a rekey whose packets get through in order.
