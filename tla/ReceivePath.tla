----------------------------- MODULE ReceivePath -----------------------------
(***************************************************************************)
(* What happens to a packet that arrives: the UDP loop and the reader of a *)
(* TCP stream, the control envelope, the control packet, TLS, the control  *)
(* messages inside it (drive_control_plane) and the data path.  It         *)
(* composes Envelope and DataPlane around one session, which exists since  *)
(* the HARD_RESET; how it got into the tables is SessionTable's subject.   *)
(*                                                                         *)
(* The client is external.  It cuts its control messages into packets      *)
(* anywhere.  Over UDP packets are lost, repeated, reordered and damaged,  *)
(* and the client sends again what it takes for lost.  TLS is external     *)
(* too: a record is a cell that begins with its number, and a record out   *)
(* of turn breaks the connection for good.  The server's packets are taken *)
(* to arrive; losing them is ControlReliability's subject.                 *)
(***************************************************************************)
EXTENDS Envelope, DataPlane

CONSTANTS
    Modes,          \* the transports and envelopes, with the client's doings
    PushRoutes,     \* push_routes of the configuration
    ExtraRoutes,    \* push_routes of the client's own configuration
    Addresses,      \* the pool of IPv4 addresses
    AddressesV6,    \* the pool of IPv6 addresses
    StreamMax,      \* bound: cells of unread stream that stop the client
    QueueMax,       \* bound: packets in the worker's channel
    MaxData         \* bound: data packets of the client

VARIABLES
    mode,        \* transport, envelope, and what the client is to send
    air,         \* UDP packets sent to the server; none is ever removed
    stream,      \* cells of the TCP stream that have not been read
    frame,       \* length of the frame being read, 0 between frames
    registered,  \* the session is in the sessions table
    sess,        \* the session
    routes,      \* addresses that routes and routes_v6 have for the session
    handled,     \* history: the control messages taken from TLS
    taken,       \* history: envelope ids of the control packets let through
    client       \* the client

vars == <<mode, air, stream, frame, registered, sess, routes, handled, taken, client, dataVars>>

-----------------------------------------------------------------------------
(***************************************************************************)
(* Texts.  A word is one cell, a number is formatted apart from the bytes  *)
(* of the protocol, so that none of them is a NUL.                         *)
(***************************************************************************)
PUSH_REQUEST == <<300>>
EXIT == <<301>>
CC_EXIT == <<307>>    \* anything that starts with it
PUSH_REPLY == 302
IFCONFIG == 303
IFCONFIG_IPV6 == 308
ROUTE == 304
REDIRECT_GATEWAY == 305
PEER_ID == 306
Formatted(n) == 1000 + n

DefaultRoute == 400   \* 0.0.0.0/0
BadCidr == 401

ClientSid == 11
ServerSid == 12
Time == 7
Noise == 999          \* what damage leaves in a cell
ServerSecrets == 51

\* The directive for a route; what is no CIDR has none.
CidrToRoute(r) == IF r = BadCidr THEN <<>> ELSE <<ROUTE, r>>

\* Mutant of BuildPushReply: redirect-gateway is pushed for every default route.
BuildPushReplyRepeats(ip, ip6, peer_id) ==
    LET pushed == PushRoutes \o ExtraRoutes
    IN  Cells(<<PUSH_REPLY, IFCONFIG, Formatted(ip)>>
               \o (IF ip6 = None THEN <<>> ELSE <<IFCONFIG_IPV6, Formatted(ip6)>>)
               \o FlattenSeq([i \in DOMAIN pushed |->
                     IF pushed[i] = DefaultRoute THEN <<REDIRECT_GATEWAY>>
                     ELSE CidrToRoute(pushed[i])])
               \o <<PEER_ID, Formatted(peer_id)>>) \o <<NUL>>

\* build_push_reply, of which the parts that depend on the lists of routes and
\* on the session are kept.
BuildPushReply(ip, ip6, peer_id) ==
    LET pushed == PushRoutes \o ExtraRoutes
    IN  Cells(<<PUSH_REPLY, IFCONFIG, Formatted(ip)>>
               \o (IF ip6 = None THEN <<>> ELSE <<IFCONFIG_IPV6, Formatted(ip6)>>)
               \o FlattenSeq([i \in DOMAIN pushed |->
                     IF pushed[i] = DefaultRoute THEN <<>>
                     ELSE CidrToRoute(pushed[i])])
               \o (IF Contains(pushed, DefaultRoute)
                   THEN <<REDIRECT_GATEWAY>> ELSE <<>>)
               \o <<PEER_ID, Formatted(peer_id)>>) \o <<NUL>>

\* A mode has the transport and the envelope of the configuration, the client's
\* assign_ip (None if it has none, Bad if it is an IPv6 address) and whether
\* there is an IPv6 pool, and bounds what the client does: its control messages,
\* how many cells of them go into a packet, its data packets, and how often it
\* repeats a packet or sends junk.
Script == mode.script
DataPayloads == mode.payloads

\* The client's messages as cells, one after the other.
Encoded(m) ==
    IF m.kind = "KeyMethod2" THEN EncodeKeyMethod2(m.secrets, m.strings)
    ELSE m.text \o <<NUL>>
EncodedTo(j) == FlattenSeq([i \in 1 .. j |-> Encoded(Script[i])])
Plaintext == EncodedTo(Len(Script))
Secrets == Script[1].secrets

Init ==
    /\ mode \in Modes
    /\ air = {}
    /\ stream = <<>>
    /\ frame = 0
    /\ registered = TRUE
    /\ sess = [state |-> "Handshaking", tls |-> 1, plaintext_in |-> <<>>,
               out |-> <<>>, bailed |-> FALSE,
               assigned_ip |-> None, assigned_ip_v6 |-> None,
               tls_auth_replay |-> CheckAndSet(NewWindow, 1),
               received_pids |-> {}, pending_acks |-> <<>>,
               next_packet_id |-> 1, tls_auth_pid_out |-> 2]
    /\ routes = {}
    /\ handled = <<>>
    /\ taken = <<>>
    /\ client = [packets |-> 0, from |-> 0, sent |-> 0, envelope_pid |-> 2,
                 retransmits |-> 0, junk |-> 0, data |-> 0, received |-> <<>>]
    /\ DataInit

-----------------------------------------------------------------------------
(***************************************************************************)
(* The session's TLS and the control messages in it.  The operators work   *)
(* on a record r of the session, its key slot, its routes and the messages *)
(* handled.                                                                *)
(***************************************************************************)
\* TlsSession::feed.  Anything but the next record breaks the connection.  The
\* first record holds the client's Finished, so the handshake is over.
Feed(s, payload) ==
    IF payload = <<>> THEN s
    ELSE IF Len(payload) > 1 \/ Num(payload[1]) # s.tls THEN [s EXCEPT !.tls = Bad]
    ELSE [s EXCEPT !.tls = @ + 1,
                   !.plaintext_in = @ \o Cells(Tail(payload[1])),
                   !.state = IF @ = "Handshaking" THEN "KeyExchange" ELSE @]

Drain(r, n, m) ==
    [r EXCEPT !.s.plaintext_in = From(@, n + 1), !.handled = Append(@, m)]

\* State::KeyExchange with a whole key-method-2 message in the buffer.
KeyExchanged(r, km) ==
    LET d == Drain(r, km.used, [kind |-> "KeyMethod2", secrets |-> km.secrets,
                                strings |-> km.strings])
    IN  [d EXCEPT !.slot = NewSlot(0, km.secrets),
                  !.s.out = @ \o EncodeKeyMethod2(ServerSecrets, <<<<>>, <<>>, <<>>, <<>>>>),
                  !.s.state = "PushPending"]

Popped(r, msg) == Drain(r, msg.used, [kind |-> "ascii", text |-> msg.text])

Bail(r) == [r EXCEPT !.s.bailed = TRUE]

\* What a PUSH_REQUEST may be given for an IPv4 address: the client's assign_ip,
\* unless it is routed already, or the next of the pool, whose cursor never goes
\* back to one this session had.  None is an error: assign_ip is an IPv6 address
\* or in use, also by another session, which may leave later; or the pool is
\* exhausted, and then a later address is more than the code gives.
AssignIp ==
    LET own == CASE mode.assign_ip = None -> Addresses
                 [] mode.assign_ip = Bad -> {}
                 [] OTHER -> {mode.assign_ip}
    IN  (own \ routes) \cup {None}

\* allocate_ip_v6: None without an IPv6 pool, Bad when it is exhausted.  It stays
\* exhausted: a session that has a route and asks again has met that before.
AllocateIpV6 ==
    CASE ~mode.pool_v6 -> {None}
      [] mode.pool_v6 /\ routes = {} -> AddressesV6 \cup {Bad}
      [] mode.pool_v6 /\ routes # {} -> {Bad}

\* Mutant of Pushed: the session is Established although allocation failed.
PushedAnyway(r, ip, ip6) ==
    [r EXCEPT !.s.assigned_ip = ip,
              !.s.assigned_ip_v6 = ip6,
              !.routes = @ \cup {ip, ip6},
              !.s.out = @ \o BuildPushReply(IF ip = None THEN 0 ELSE ip, None, PeerId),
              !.s.state = "Established"]

\* A PUSH_REQUEST.  The IPv4 address is taken and routed before the IPv6 pool is
\* asked, and stays so when that fails.
Pushed(r, ip, ip6) ==
    LET routed == [r EXCEPT !.s.assigned_ip = ip, !.routes = @ \cup {ip}]
    IN  IF ip = None THEN Bail(r)
        ELSE IF ip6 = Bad THEN Bail(routed)
        ELSE [routed EXCEPT !.s.assigned_ip_v6 = ip6,
                            !.routes = @ \cup ({ip6} \ {None}),
                            !.s.out = @ \o BuildPushReply(ip, ip6, PeerId),
                            !.s.state = "Established"]

\* Mutant of DriveControlPlane: one message for each packet.
DriveControlPlaneOnce(r, ip, ip6) ==
    LET km == TryParseKeyMethod2(r.s.plaintext_in)
        msg == TryPopAscii(r.s.plaintext_in)
    IN  CASE r.s.state = "KeyExchange" ->
               IF km = Bad THEN Bail(r)
               ELSE IF km = NeedMore THEN r ELSE KeyExchanged(r, km)
          [] r.s.state = "PushPending" /\ msg # NeedMore ->
               IF msg.text = Cells(PUSH_REQUEST) THEN Pushed(Popped(r, msg), ip, ip6)
               ELSE Popped(r, msg)
          [] r.s.state = "Established" /\ msg # NeedMore ->
               IF msg.text \in {Cells(EXIT), Cells(CC_EXIT)}
               THEN [Popped(r, msg) EXCEPT !.s.state = "Closed"] ELSE Popped(r, msg)
          [] OTHER -> r

\* drive_control_plane: message after message until one is incomplete, the
\* session is closed or an error returns.
RECURSIVE DriveControlPlane(_, _, _)
DriveControlPlane(r, ip, ip6) ==
    LET km == TryParseKeyMethod2(r.s.plaintext_in)
        msg == TryPopAscii(r.s.plaintext_in)
    IN  CASE r.s.state = "KeyExchange" ->
               IF km = Bad THEN Bail(r)
               ELSE IF km = NeedMore THEN r
               ELSE DriveControlPlane(KeyExchanged(r, km), ip, ip6)
          [] r.s.state = "PushPending" /\ msg # NeedMore ->
               IF msg.text # Cells(PUSH_REQUEST) THEN DriveControlPlane(Popped(r, msg), ip, ip6)
               ELSE LET pushed == Pushed(Popped(r, msg), ip, ip6)
                    IN  IF pushed.s.bailed THEN pushed
                        ELSE DriveControlPlane(pushed, ip, ip6)
          [] r.s.state = "Established" /\ msg # NeedMore ->
               IF msg.text \in {Cells(EXIT), Cells(CC_EXIT)}
               THEN [Popped(r, msg) EXCEPT !.s.state = "Closed"]
               ELSE DriveControlPlane(Popped(r, msg), ip, ip6)
          [] OTHER -> r

-----------------------------------------------------------------------------
(***************************************************************************)
(* Sending: make_control, make_ack, flush_outgoing.                        *)
(***************************************************************************)
MakeControl(s) ==
    [op |-> ControlV1, key_id |-> 0, session_id |-> ServerSid,
     acks |-> s.pending_acks,
     remote_session_id |-> IF s.pending_acks = <<>> THEN None ELSE ClientSid,
     packet_id |-> s.next_packet_id,
     payload |-> <<<<s.next_packet_id>> \o FlattenSeq(s.out)>>]

MakeAck(s) ==
    [op |-> AckV1, key_id |-> 0, session_id |-> ServerSid, acks |-> s.pending_acks,
     remote_session_id |-> ClientSid, packet_id |-> None, payload |-> <<>>]

\* External: the client adds what a control packet of the server's holds to
\* what it has received.
ClientTakes(wire) ==
    LET u == UnwrapControl(mode.envelope, ClientKeys(mode.envelope), wire)
        p == ParseControl(u.inner)
    IN  IF u = Bad \/ p = Bad \/ p.payload = <<>> THEN client
        ELSE [client EXCEPT !.received = @ \o Cells(Tail(p.payload[1]))]

FlushOutgoing(s) ==
    LET packet == IF s.out # <<>> THEN MakeControl(s) ELSE MakeAck(s)
        wire == Wrap(mode.envelope, ServerKeys(mode.envelope),
                     EncodeControl(packet), s.tls_auth_pid_out, Time)
        n == IF s.out # <<>> THEN 1 ELSE 0
    IN  IF s.out = <<>> /\ s.pending_acks = <<>>
        THEN sess' = s /\ UNCHANGED client
        ELSE /\ sess' = [s EXCEPT !.out = <<>>, !.pending_acks = <<>>,
                                  !.next_packet_id = @ + n,
                                  !.tls_auth_pid_out =
                                      IF mode.envelope = "none" THEN @ ELSE @ + 1]
             /\ client' = ClientTakes(wire)

-----------------------------------------------------------------------------
(***************************************************************************)
(* Receiving.                                                              *)
(***************************************************************************)
\* note_received
NoteReceived(s, pid) ==
    IF pid = None \/ pid \in s.received_pids THEN s
    ELSE [s EXCEPT !.received_pids = @ \cup {pid}, !.pending_acks = Append(@, pid)]

\* The window of the envelope's ids after it has let pid through.
CheckReplay(s, pid) ==
    IF pid = None THEN s ELSE [s EXCEPT !.tls_auth_replay = Record(@, pid)]

\* handle_control_packet for a ControlV1 or AckV1; no other is sent here.  An
\* error returns at once, so after one nothing is flushed; bailed says that the
\* last ControlV1 ended so.  The packets that wait for an ACK are
\* ControlReliability's subject.
HandleControlPacket(p, replay_pid) ==
    LET checked == CheckReplay(sess, replay_pid)
        noted == NoteReceived(checked, p.packet_id)
        fed == Feed([noted EXCEPT !.bailed = FALSE], p.payload)
        failed == p.payload # <<>> /\ fed.tls = Bad
    IN  IF p.op # ControlV1 \/ failed
        THEN /\ sess' = IF p.op = ControlV1 THEN [fed EXCEPT !.bailed = TRUE] ELSE noted
             /\ UNCHANGED <<slot, routes, handled, client>>
        ELSE \E ip \in AssignIp, ip6 \in AllocateIpV6 :
               LET r == DriveControlPlane([s |-> fed, slot |-> slot, routes |-> routes,
                                           handled |-> handled], ip, ip6)
               IN  /\ slot' = r.slot
                   /\ routes' = r.routes
                   /\ handled' = r.handled
                   /\ IF r.s.bailed THEN sess' = r.s /\ UNCHANGED client
                      ELSE FlushOutgoing(r.s)

Refused(p, replay_pid) ==
    \/ p = Bad
    \/ ~registered
    \/ replay_pid # None /\ ~Accepts(sess.tls_auth_replay, replay_pid)

\* unwrap_control and handle_control_packet.
ReceiveControl(pkt, genuine) ==
    LET u == UnwrapControl(mode.envelope, ServerKeys(mode.envelope), pkt)
        p == ParseControl(u.inner)
    IN  IF u = Bad THEN UNCHANGED <<sess, routes, slot, handled, taken, client>>
        ELSE IF Refused(p, u.pid) THEN UNCHANGED <<sess, routes, slot, handled, taken, client>>
        ELSE /\ HandleControlPacket(p, u.pid)
             /\ taken' = IF u.pid = None THEN taken
                         ELSE Append(taken, IF genuine THEN u.pid ELSE Bad)

\* The body of both receive loops, from the opcode on.
Receive(pkt, genuine) ==
    LET op == OpOf(Num(pkt[1]))
    IN  CASE op \notin OpCode -> UNCHANGED <<sess, routes, handled, taken, client, dataVars>>
          [] IsData(op) -> /\ RouteData(pkt, genuine)
                           /\ UNCHANGED <<sess, routes, handled, taken, client>>
          [] OTHER -> /\ ReceiveControl(pkt, genuine)
                      /\ UNCHANGED <<data_routes, queue, tun_queue, tun_writer,
                                     written, first_seen>>

Damaged(pkt) ==
    {[pkt EXCEPT ![i] = <<Noise>>] : i \in DOMAIN pkt}
      \cup {SubSeq(pkt, 1, n) : n \in 1 .. Len(pkt) - 1}

\* The UDP loop.
UdpReceive(pkt) ==
    /\ Len(queue) < QueueMax
    /\ Receive(pkt, pkt \in air)
    /\ UNCHANGED <<mode, air, stream, frame, registered>>

\* The reader of a TCP stream: read_exact of a length, ...
ReadLength ==
    /\ frame = 0
    /\ stream # <<>>
    /\ frame' = Num(Head(stream))
    /\ stream' = Tail(stream)
    /\ UNCHANGED <<mode, air, registered, sess, routes, handled, taken, client, dataVars>>

\* ... and of a packet.
ReadPacket ==
    /\ frame > 0
    /\ Len(stream) >= frame
    /\ Len(queue) < QueueMax
    /\ Receive(SubSeq(stream, 1, frame), TRUE)
    /\ stream' = From(stream, frame + 1)
    /\ frame' = 0
    /\ UNCHANGED <<mode, air, registered>>

\* The reaper evicts the session, or the stream ends, with what is still in it.
Evict ==
    /\ registered
    /\ registered' = FALSE
    /\ routes' = routes \ {sess.assigned_ip, sess.assigned_ip_v6}
    /\ data_routes' = {}
    /\ stream' = <<>>
    /\ frame' = 0
    /\ UNCHANGED <<mode, air, sess, handled, taken, client, slot, queue, tun_queue,
                   tun_writer, written, first_seen>>

-----------------------------------------------------------------------------
(***************************************************************************)
(* External: the client.                                                   *)
(***************************************************************************)
\* On TCP a packet goes out behind its length.
Put(pkt) ==
    IF mode.transport = "udp"
    THEN air' = air \cup {pkt} /\ UNCHANGED stream
    ELSE /\ registered /\ Len(stream) < StreamMax
         /\ stream' = stream \o <<<<Len(pkt)>>>> \o pkt
         /\ UNCHANGED air

\* Packet number n, with the cells after from up to to.  Every other packet
\* has an ACK.
ClientPacket(n, from, to) ==
    LET acked == n % 2 = 0
    IN  Wrap(mode.envelope, ClientKeys(mode.envelope),
             EncodeControl([op |-> ControlV1, key_id |-> 0, session_id |-> ClientSid,
                            acks |-> IF acked THEN <<0>> ELSE <<>>,
                            remote_session_id |-> IF acked THEN ServerSid ELSE None,
                            packet_id |-> n,
                            payload |-> <<<<n>> \o FlattenSeq(SubSeq(Plaintext, from + 1, to))>>]),
             client.envelope_pid, Time)

\* The first packet ends the handshake, with or without messages behind it.
ClientSend ==
    /\ client.packets = 0 \/ client.sent < Len(Plaintext)
    /\ \E k \in mode.chunks :
         LET n == client.packets + 1
             to == IF client.sent + k > Len(Plaintext) THEN Len(Plaintext)
                   ELSE client.sent + k
         IN  /\ k = 0 => client.packets = 0
             /\ Put(ClientPacket(n, client.sent, to))
             /\ client' = [client EXCEPT !.packets = n, !.from = client.sent, !.sent = to,
                                         !.envelope_pid = @ + 1]
    /\ UNCHANGED <<mode, frame, registered, sess, routes, handled, taken, dataVars>>

\* The last packet once more, in a new envelope.
ClientRetransmit ==
    /\ client.packets > 0
    /\ client.retransmits < mode.retransmits
    /\ Put(ClientPacket(client.packets, client.from, client.sent))
    /\ client' = [client EXCEPT !.retransmits = @ + 1, !.envelope_pid = @ + 1]
    /\ UNCHANGED <<mode, frame, registered, sess, routes, handled, taken, dataVars>>

\* An empty frame, or one with an opcode the server does not know.
ClientJunk ==
    /\ registered
    /\ client.junk < mode.junk
    /\ \E f \in {<<0>>, <<1, Noise>>} : stream' = stream \o Cells(f)
    /\ client' = [client EXCEPT !.junk = @ + 1]
    /\ UNCHANGED <<mode, air, frame, registered, sess, routes, handled, taken, dataVars>>

\* A pure ACK of the server's first packet.
ClientAck ==
    /\ client.junk < mode.junk
    /\ Put(Wrap(mode.envelope, ClientKeys(mode.envelope),
                EncodeControl([op |-> AckV1, key_id |-> 0, session_id |-> ClientSid,
                               acks |-> <<0>>, remote_session_id |-> ServerSid,
                               packet_id |-> None, payload |-> <<>>]),
                client.envelope_pid, Time))
    /\ client' = [client EXCEPT !.junk = @ + 1, !.envelope_pid = @ + 1]
    /\ UNCHANGED <<mode, frame, registered, sess, routes, handled, taken, dataVars>>

\* The PUSH_REPLY behind the server's key-method-2 message, once it is there.
ClientPush ==
    LET km == TryParseKeyMethod2(client.received)
    IN  IF km \in {Bad, NeedMore} THEN NeedMore
        ELSE TryPopAscii(From(client.received, km.used + 1))

\* The value behind a word of a text, and how often the word is there.
Occurs(text, word) == {i \in DOMAIN text : text[i] = <<word>>}
Value(text, word) == text[1 + CHOOSE i \in Occurs(text, word) : TRUE]

ClientData ==
    /\ client.data < MaxData
    /\ client.data < Len(DataPayloads)
    /\ ClientPush # NeedMore
    /\ LET n == client.data + 1
           peer_id == Num(Value(ClientPush.text, PEER_ID)) - Formatted(0)
       IN  /\ Put(DataPacket(0, peer_id, n, Secrets, DataPayloads[n]))
           /\ client' = [client EXCEPT !.data = n]
    /\ UNCHANGED <<mode, frame, registered, sess, routes, handled, taken, dataVars>>

-----------------------------------------------------------------------------
Unchanged == UNCHANGED <<mode, air, stream, frame, registered, sess, routes, handled, taken, client>>

Worker == DataWorker /\ Unchanged
Writer == (TunWrite \/ TunWriteFails) /\ Unchanged

Next ==
    \/ \E pkt \in air : \/ UdpReceive(pkt)
                        \/ \E d \in Damaged(pkt) : UdpReceive(d)
    \/ ReadLength
    \/ ReadPacket
    \/ Evict
    \/ Worker
    \/ Writer
    \/ ClientSend
    \/ ClientRetransmit
    \/ ClientJunk
    \/ ClientAck
    \/ ClientData

\* The worker and the writer are tokio tasks that are woken when there is
\* something in their channel.
Spec == Init /\ [][Next]_vars /\ WF_vars(Worker) /\ WF_vars(Writer)

-----------------------------------------------------------------------------
(***************************************************************************)
(* Properties.                                                             *)
(***************************************************************************)
\* The variables have values of their kind; what is on the TUN device and on
\* its way there are payloads, never the result of a failed decryption.
TypeOK ==
    /\ mode \in Modes
    /\ frame \in Nat
    /\ sess.state \in {"Handshaking", "KeyExchange", "PushPending", "Established", "Closed"}
    /\ sess.assigned_ip # None => sess.state \in {"PushPending", "Established", "Closed"}
    /\ sess.state \in {"Established", "Closed"} =>
         sess.assigned_ip # None /\ (mode.pool_v6 <=> sess.assigned_ip_v6 # None)
    /\ sess.state \in {"Handshaking", "KeyExchange"} <=> slot = None
    /\ Len(queue) <= QueueMax
    /\ \A x \in Range(tun_queue) \cup Range(written) : x.payload \in Range(DataPayloads)

\* However the client's messages are cut into packets, and whatever happens to
\* the packets on the way, drive_control_plane takes out exactly the messages
\* that were put in, in order and none twice.
HandledInOrder == IsPrefix(handled, Script)

\* Over TCP nothing stays behind: once the stream has been read and the last
\* ControlV1 was handled without an error, every message that is complete
\* has been handled, unless an EXIT has closed the session.
AllHandled ==
    mode.transport = "tcp" /\ registered /\ stream = <<>> /\ frame = 0 /\ ~sess.bailed
      => \/ sess.state = "Closed" /\ Last(handled).text = Cells(EXIT)
         \/ \A j \in DOMAIN Script : Len(EncodedTo(j)) <= client.sent => j <= Len(handled)

\* With tls-auth or tls-crypt a control packet gets past unwrap_control and the
\* replay window only as the client sent it, and at most once.
OnceAuthentic ==
    /\ Bad \notin Range(taken)
    /\ IsInjective(taken)

\* What the client reads from the server's packets is what the session holds,
\* however many PUSH_REQUESTs failed before: its addresses, which are routed to
\* it, its peer id, and one redirect-gateway when a default route is in either
\* list.
ClientAgrees ==
    ClientPush # NeedMore =>
      LET text == ClientPush.text
          gateways == Occurs(text, REDIRECT_GATEWAY)
          addresses == {sess.assigned_ip, sess.assigned_ip_v6} \ {None}
      IN  /\ Value(text, IFCONFIG) = <<Formatted(sess.assigned_ip)>>
          /\ IF sess.assigned_ip_v6 = None THEN Occurs(text, IFCONFIG_IPV6) = {}
             ELSE Value(text, IFCONFIG_IPV6) = <<Formatted(sess.assigned_ip_v6)>>
          /\ registered => addresses \subseteq routes
          /\ Value(text, PEER_ID) = <<Formatted(PeerId)>>
          /\ IF Contains(PushRoutes \o ExtraRoutes, DefaultRoute)
             THEN \E i \in gateways : gateways = {i}
             ELSE gateways = {}

\* The TUN device gets the client's IP packets unchanged, each at most once and
\* in the order in which they reached the session's queue, although two tasks
\* lie between; keepalives and what is not IP do not get there.
InboundOrdered ==
    /\ \A i \in DOMAIN written :
         /\ IsIp(written[i].payload)
         /\ written[i].payload = DataPayloads[written[i].packet_id]
         /\ Contains(first_seen, written[i].packet_id)
    /\ \A i, j \in DOMAIN written :
         i < j => \E m, n \in DOMAIN first_seen :
                    /\ m < n
                    /\ first_seen[m] = written[i].packet_id
                    /\ first_seen[n] = written[j].packet_id

\* A packet that was damaged on the way leaves no trace in the data channel's
\* replay window, whatever id it claims.
WindowAuthentic ==
    slot # None =>
      \A n \in slot.replay.bitmap : Contains(first_seen, slot.replay.highest - n)

\* An IP packet that the replay window has let through gets to the TUN device,
\* unless the writer task has ended.
Accepted(n) ==
    /\ slot # None
    /\ n <= slot.replay.highest
    /\ slot.replay.highest - n \in slot.replay.bitmap
OnTun(n) == \E i \in DOMAIN written : written[i].packet_id = n
Forwarded ==
    \A n \in 1 .. MaxData :
      Accepted(n) /\ IsIp(DataPayloads[n]) ~> OnTun(n) \/ tun_writer = "ended"
=============================================================================
