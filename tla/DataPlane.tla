------------------------------ MODULE DataPlane ------------------------------
(***************************************************************************)
(* The inbound data path of one session: route_data hands a packet to the  *)
(* session's worker, the worker opens it and checks it for replay          *)
(* (decrypt_and_forward), and one writer task puts the packets of all the  *)
(* sessions on the TUN device (src/src/server.rs, src/src/crypto.rs).      *)
(*                                                                         *)
(* The two queues are unbounded channels.  The worker and the writer are   *)
(* tasks of their own, so each takes its steps when it likes.              *)
(***************************************************************************)
EXTENDS Codec, ReplayWindow

CONSTANT PeerId   \* the session's peer id

VARIABLES
    data_routes,   \* peer ids whose worker has an inlet
    slot,          \* the session's key slot: [key_id, cipher, replay], or None
    queue,         \* raw packets in the worker's channel
    tun_queue,     \* packets in the TUN writer's channel
    tun_writer,    \* the writer task: "running" or "ended"
    written,       \* history: the packets on the TUN device, in order
    first_seen     \* history: ids of genuine packets, as they entered queue

dataVars == <<data_routes, slot, queue, tun_queue, tun_writer, written, first_seen>>

\* A plaintext is known by its first byte; PING_PAYLOAD is a whole packet.
PING_PAYLOAD == 42
IpVersion(payload) == payload \div 16
IsIp(payload) == IpVersion(payload) \in {4, 6}

DataInit ==
    /\ data_routes = {PeerId}
    /\ slot = None
    /\ queue = <<>>
    /\ tun_queue = <<>>
    /\ tun_writer = "running"
    /\ written = <<>>
    /\ first_seen = <<>>

-----------------------------------------------------------------------------
(***************************************************************************)
(* DataCipher.  A sealed packet is a cell made of the key, the packet id   *)
(* of the nonce, the header it authenticates and the plaintext.            *)
(***************************************************************************)
\* from_keymat_server: the client's half of the key material and the server's.
FromKeymatServer(km) == [dec_key |-> 2 * km, enc_key |-> (2 * km) + 1]

Seal(key, packet_id, aad, payload) ==
    <<<<key, packet_id>> \o FlattenSeq(aad) \o <<payload>>>>

Open(cipher, packet_id, aad, wire) ==
    IF wire = <<>> THEN Bad
    ELSE LET payload == Last(wire[1])
         IN  IF wire = Seal(cipher.dec_key, packet_id, aad, payload)
             THEN payload ELSE Bad

\* install_prf_slot(0), with the key derived from the secrets.
NewSlot(key_id, secrets) ==
    [key_id |-> key_id, cipher |-> FromKeymatServer(secrets), replay |-> NewWindow]

-----------------------------------------------------------------------------
\* External: a packet as the client's data channel makes it.
DataPacket(key_id, peer_id, packet_id, secrets, payload) ==
    LET header == Cells(<<First(DataV2, key_id), peer_id, packet_id>>)
    IN  header \o Seal(FromKeymatServer(secrets).dec_key, packet_id, header, payload)

\* route_data.  A genuine packet is noted when it first gets into the queue.
RouteData(pkt, genuine) ==
    LET dp == ParseData(pkt)
        routed == dp # Bad /\ dp.peer_id \in data_routes
    IN  /\ queue' = IF routed THEN Append(queue, pkt) ELSE queue
        /\ first_seen' = IF routed /\ genuine /\ ~Contains(first_seen, dp.packet_id)
                         THEN Append(first_seen, dp.packet_id) ELSE first_seen
        /\ UNCHANGED <<data_routes, slot, tun_queue, tun_writer, written>>

\* Mutant of Forward: replay is checked before the packet is opened.
ForwardReplayFirst(pkt) ==
    LET dp == ParseData(pkt)
        payload == Open(slot.cipher, dp.packet_id, SubSeq(pkt, 1, 3), dp.ciphertext)
        known == slot # None /\ slot.key_id = dp.key_id
    IN  IF known /\ Accepts(slot.replay, dp.packet_id)
        THEN /\ slot' = [slot EXCEPT !.replay = Record(@, dp.packet_id)]
             /\ tun_queue' = IF payload \in {Bad, PING_PAYLOAD} \/ tun_writer = "ended"
                             THEN tun_queue
                             ELSE Append(tun_queue, [packet_id |-> dp.packet_id,
                                                     payload |-> payload])
        ELSE UNCHANGED <<slot, tun_queue>>

\* decrypt_and_forward.  An id enters the replay window only once its packet
\* has been authenticated.  A send to a writer that has ended fails.
Forward(pkt) ==
    LET dp == ParseData(pkt)
        payload == Open(slot.cipher, dp.packet_id, SubSeq(pkt, 1, 3), dp.ciphertext)
    IN  IF /\ slot # None /\ slot.key_id = dp.key_id
           /\ payload # Bad
           /\ Accepts(slot.replay, dp.packet_id)
        THEN /\ slot' = [slot EXCEPT !.replay = Record(@, dp.packet_id)]
             /\ tun_queue' = IF payload = PING_PAYLOAD \/ tun_writer = "ended"
                             THEN tun_queue
                             ELSE Append(tun_queue, [packet_id |-> dp.packet_id,
                                                     payload |-> payload])
        ELSE UNCHANGED <<slot, tun_queue>>

\* Mutant of DataWorker: the packet that came last is taken first.
DataWorkerLatest ==
    /\ queue # <<>>
    /\ queue' = Front(queue)
    /\ Forward(Last(queue))
    /\ UNCHANGED <<data_routes, tun_writer, written, first_seen>>

\* One round of the loop in spawn_data_worker.  After an eviction the worker
\* still empties its channel.
DataWorker ==
    /\ queue # <<>>
    /\ queue' = Tail(queue)
    /\ Forward(Head(queue))
    /\ UNCHANGED <<data_routes, tun_writer, written, first_seen>>

\* Mutant of TunWrite: nothing but an IP packet lets the writer go on.
TunWriteStuck ==
    /\ tun_queue # <<>>
    /\ IsIp(Head(tun_queue).payload)
    /\ tun_queue' = Tail(tun_queue)
    /\ written' = Append(written, Head(tun_queue))
    /\ UNCHANGED <<data_routes, slot, queue, tun_writer, first_seen>>

\* One round of the TUN writer's loop: what is not IP is dropped.
TunWrite ==
    /\ tun_queue # <<>>
    /\ tun_queue' = Tail(tun_queue)
    /\ written' = IF IsIp(Head(tun_queue).payload)
                  THEN Append(written, Head(tun_queue)) ELSE written
    /\ UNCHANGED <<data_routes, slot, queue, tun_writer, first_seen>>

\* A write fails: the task ends and its channel closes with what is in it.
TunWriteFails ==
    /\ tun_queue # <<>>
    /\ IsIp(Head(tun_queue).payload)
    /\ tun_writer' = "ended"
    /\ tun_queue' = <<>>
    /\ UNCHANGED <<data_routes, slot, queue, written, first_seen>>
=============================================================================
