------------------------- MODULE ControlReliability -------------------------
(***************************************************************************)
(* The reliability layer of one session's control channel (session.rs, and *)
(* its users in server.rs): packet ids, the ACKs owed to the client, the   *)
(* unacked queue, the retransmit timer, and the flushes that cut the       *)
(* output of the two TLS contexts into packets.                            *)
(*                                                                         *)
(* The session's mutex is held for a whole handler, so a handler is one    *)
(* step.  Any send may fail.  The network loses, repeats, delays and       *)
(* reorders: a packet once sent may be received at any time, any number of *)
(* times, or never.  So the copies that the retransmit task sends, after   *)
(* it has released the mutex, add nothing to to_client.                    *)
(*                                                                         *)
(* A TLS context is external: it accepts what it is fed or fails, and has  *)
(* any number of chunks of output when it is flushed.  An item is what one *)
(* packet carries: a chunk of TLS output, or a reset.  Items are numbered  *)
(* in the order in which they are taken to be sent, those that a failed    *)
(* send loses included.                                                    *)
(*                                                                         *)
(* The client is external.  It has one window of packets of its own, gives *)
(* items to its TLS in the order of their packet ids, and acknowledges     *)
(* each packet every time it gets it, in ACKs of their own or with packets *)
(* it sends or sends again, so a packet may arrive with ACKs for anything  *)
(* the client has.  Its packets are those of ClientScript, in that order.  *)
(***************************************************************************)
EXTENDS Integers, Sequences, FiniteSets, Functions

CONSTANTS
    CONTROL_MAX_ATTEMPTS,
    PacketIdSpace,      \* 2^32 in the code; control packet ids
    EnvelopeMax,        \* u32::MAX in the code; ids of the outer envelope
    AckCountSpace,      \* 256 in the code; the ACK count is one byte
    MaxItems,           \* bound: items the server sends
    MaxChunks,          \* bound: chunks of output in one flush
    ClientScript,       \* what the client's packets 1, 2, ... are
    Window,             \* packets the client has outstanding at most
    None

ASSUME ReliabilityAssumption ==
    /\ CONTROL_MAX_ATTEMPTS \in Nat \ {0}
    /\ PacketIdSpace \in Nat \ {0, 1}
    /\ EnvelopeMax \in Nat \ {0, 1}
    /\ AckCountSpace \in Nat
    /\ MaxItems \in Nat \ {0}
    /\ MaxChunks \in Nat \ {0}
    /\ ClientScript \in Seq({"ControlV1", "SoftResetV1", "HardResetV2"})
    /\ Window \in Nat \ {0}
    /\ None \notin Nat

VARIABLES
    next_packet_id,
    unacked,            \* sent packets with their attempts, as a set
    pending_acks,       \* client packet ids to acknowledge, in order
    received_pids,
    tls_auth_pid_out,
    client,
    to_client,
    produced,           \* history: items taken to be sent
    given_up,           \* history: ids dropped after the last attempt
    failed,             \* history: ids whose first send failed
    untracked,          \* history: client ids whose ACK no unacked packet has
    wrapped,            \* history: packets put into an envelope
    wire_ids            \* history: the envelope ids they got

server == <<next_packet_id, unacked, pending_acks, received_pids>>
envelope == <<tls_auth_pid_out, wrapped, wire_ids>>
history == <<produced, given_up, failed, untracked>>
vars == <<server, envelope, client, to_client, history>>

PacketId == 0 .. (PacketIdSpace - 1)
ClientPid == 0 .. Len(ClientScript)
Item == 1 .. MaxItems

\* A packet of the server's; packet_id and item are None in a pure ACK.
Packet == [packet_id : PacketId \cup {None},
           item : Item \cup {None},
           acks : Seq(ClientPid)]

Unacked == [packet : Packet, attempts : 1 .. CONTROL_MAX_ATTEMPTS]

\* What the client's packet pid is: a ControlV1 or a reset.
OpOf(pid) == IF pid = 0 THEN "HardResetV2" ELSE ClientScript[pid]

PidsOf(entries) == {u.packet.packet_id : u \in entries}
AcksOf(entries) == UNION {Range(u.packet.acks) : u \in entries}

TypeOK ==
    /\ next_packet_id \in PacketId
    /\ unacked \subseteq Unacked
    /\ \A u, v \in unacked : u.packet.packet_id = v.packet.packet_id => u = v
    /\ IsInjective(pending_acks)
    /\ Range(pending_acks) \subseteq received_pids
    /\ received_pids \subseteq ClientPid
    /\ tls_auth_pid_out \in 1 .. EnvelopeMax
    /\ to_client \subseteq Packet

-----------------------------------------------------------------------------
HardResetReply == [packet_id |-> 0, item |-> 1, acks |-> <<0>>]

\* The session exists: the client's HARD_RESET, its packet 0, was answered by
\* make_hard_reset_reply.
Init ==
    /\ next_packet_id = 1
    /\ unacked = {[packet |-> HardResetReply, attempts |-> 1]}
    /\ pending_acks = <<>>
    /\ received_pids = {}
    /\ tls_auth_pid_out = 2
    /\ client = [next_pid |-> 1, acked |-> {}, got |-> {}, delivered |-> <<>>]
    /\ to_client = {HardResetReply}
    /\ produced = 1
    /\ given_up = {} /\ failed = {} /\ untracked = {}
    /\ wrapped = 1
    /\ wire_ids = {1}

\* Mutant of EnvelopeAfter: the counter wraps to 0.
EnvelopeAfterZero(n) == (tls_auth_pid_out + n) % (EnvelopeMax + 1)

\* tls_auth_pid_out after n more calls; after the last id comes 1.
EnvelopeAfter(n) == ((tls_auth_pid_out + n - 1) % EnvelopeMax) + 1

\* next_tls_auth_pid for each of n packets, whether they get sent or not.
Wrap(n) ==
    /\ tls_auth_pid_out' = EnvelopeAfter(n)
    /\ wrapped' = wrapped + n
    /\ wire_ids' = wire_ids \cup {EnvelopeAfter(i) : i \in 0 .. (n - 1)}

-----------------------------------------------------------------------------
\* The packets for the next n items, the first of which carries acks.
Packets(n, acks) ==
    [i \in 1 .. n |->
        [packet_id |-> (next_packet_id + i - 1) % PacketIdSpace,
         item |-> produced + i,
         acks |-> IF i = 1 THEN acks ELSE <<>>]]

RecordSent(entries, ps) ==
    entries \cup {[packet |-> p, attempts |-> 1] : p \in Range(ps)}

\* Mutant of Made: a packet whose send failed gives its id back.
MadeAsSent(ok, n) == ok

\* How many of n packets are made when the first ok sends succeed and the next
\* one, if there is one, fails.
Made(ok, n) == IF ok < n THEN ok + 1 ELSE ok

\* send_and_track for each of ps in turn, until one send fails: that packet
\* has used up its ids, and those after it are not made at all.
SendAndTrack(entries, ps) ==
    \E ok \in 0 .. Len(ps) :
       LET made == Made(ok, Len(ps))
           sent == SubSeq(ps, 1, ok)
           lost == SubSeq(ps, ok + 1, made)
       IN  /\ unacked' = RecordSent(entries, sent)
           /\ to_client' = to_client \cup Range(sent)
           /\ next_packet_id' = (next_packet_id + made) % PacketIdSpace
           /\ failed' = failed \cup {lost[i].packet_id : i \in DOMAIN lost}
           /\ untracked' = untracked
                 \cup UNION {Range(lost[i].acks) : i \in DOMAIN lost}
           /\ produced' = produced + Len(ps)
           /\ Wrap(made)

MakeAck(acks) == [packet_id |-> None, item |-> None, acks |-> acks]

\* An ACK of its own, which is not tracked.  As it is the last thing the
\* handler does, one whose send fails is like one that gets lost.
SendAck(acks) ==
    /\ to_client' = to_client \cup {MakeAck(acks)}
    /\ untracked' = untracked \cup Range(acks)
    /\ Wrap(1)

Nothing == UNCHANGED <<next_packet_id, to_client, failed, untracked,
                       produced, envelope>>

\* flush_outgoing: the n chunks of the main context, or else an ACK of its own
\* if one is pending.
FlushOutgoing(entries, pending, n) ==
    /\ pending_acks' = <<>>
    /\ produced + n <= MaxItems
    /\ IF n > 0 THEN SendAndTrack(entries, Packets(n, pending))
       ELSE /\ unacked' = entries
            /\ IF pending = <<>> THEN Nothing
               ELSE /\ SendAck(pending)
                    /\ UNCHANGED <<next_packet_id, failed, produced>>

\* Mutant of FlushRekeyOutgoing: the pending ACKs are taken before there is a
\* packet for them.
FlushRekeyTakesAcks(entries, pending, n) ==
    /\ produced + n <= MaxItems
    /\ pending_acks' = <<>>
    /\ IF n > 0 THEN SendAndTrack(entries, Packets(n, pending))
       ELSE unacked' = entries /\ Nothing

\* flush_rekey_outgoing: the same for the rekey context, but no ACK without
\* output.
FlushRekeyOutgoing(entries, pending, n) ==
    /\ produced + n <= MaxItems
    /\ IF n > 0
       THEN pending_acks' = <<>> /\ SendAndTrack(entries, Packets(n, pending))
       ELSE pending_acks' = pending /\ unacked' = entries /\ Nothing

-----------------------------------------------------------------------------
\* Mutant of ProcessAcks: an ACK covers the packets before it as well.
ProcessAcksCumulative(acks) ==
    {u \in unacked : \A a \in acks : a < u.packet.packet_id}

ProcessAcks(acks) == {u \in unacked : u.packet.packet_id \notin acks}

\* Mutant of NoteReceived: a repeated packet is acknowledged again.
NoteReceivedAlways(pid) == Append(pending_acks, pid)

\* pending_acks after note_received
NoteReceived(pid) ==
    IF pid \in received_pids THEN pending_acks ELSE Append(pending_acks, pid)

\* A pure ACK
AckV1(acks) ==
    /\ unacked' = ProcessAcks(acks)
    /\ Nothing
    /\ UNCHANGED <<pending_acks, received_pids>>

\* A SOFT_RESET while a rekey is on or before the session is established, and
\* a HARD_RESET from the session's own address: the packet's ACKs count and
\* its id is noted, and that is all.
NotActedOn(pid, acks) ==
    /\ OpOf(pid) \in {"SoftResetV1", "HardResetV2"}
    /\ unacked' = ProcessAcks(acks)
    /\ pending_acks' = NoteReceived(pid)
    /\ Nothing

MakeSoftResetReply(ack_pid) == Packets(1, <<ack_pid>>)
MakeSoftResetInit == Packets(1, <<>>)

\* SOFT_RESET starts a rekey; the reply acknowledges it on top of the ACK that
\* stays pending.
SoftReset(pid, acks) ==
    /\ OpOf(pid) = "SoftResetV1"
    /\ produced < MaxItems
    /\ pending_acks' = NoteReceived(pid)
    /\ SendAndTrack(ProcessAcks(acks), MakeSoftResetReply(pid))

\* A context is fed a record: the rekey context if there is one with the key
\* id of the packet at that time, or else the main one.  The handler fails (the
\* feed or the control plane returned an error) or comes to the flush.
ControlV1(pid, acks) ==
    /\ OpOf(pid) = "ControlV1"
    /\ LET entries == ProcessAcks(acks)
           pending == NoteReceived(pid)
       IN  \/ unacked' = entries /\ pending_acks' = pending /\ Nothing
           \/ \E n \in 0 .. MaxChunks :
                 \/ FlushOutgoing(entries, pending, n)
                 \/ FlushRekeyOutgoing(entries, pending, n)

HandleControlPacket(acks) ==
    /\ \/ AckV1(acks)
       \/ \E pid \in 0 .. (client.next_pid - 1) :
             /\ NotActedOn(pid, acks) \/ SoftReset(pid, acks) \/ ControlV1(pid, acks)
             /\ received_pids' = received_pids \cup {pid}
    /\ UNCHANGED <<given_up, client>>

\* The rekey timer sends make_soft_reset_init.
ServerRekey ==
    /\ produced < MaxItems
    /\ SendAndTrack(unacked, MakeSoftResetInit)
    /\ UNCHANGED <<pending_acks, received_pids, given_up, client>>

\* shutdown_clients puts RESTART into the main context and flushes.
ShutdownClient ==
    /\ \E n \in 1 .. MaxChunks : FlushOutgoing(unacked, pending_acks, n)
    /\ UNCHANGED <<received_pids, given_up, client>>

-----------------------------------------------------------------------------
\* Mutant of HasAttempts: one attempt too many.
HasAttemptsOneMore(u) == u.attempts <= CONTROL_MAX_ATTEMPTS

HasAttempts(u) == u.attempts < CONTROL_MAX_ATTEMPTS

\* stale_unacked drops what has had its attempts and takes what is due for
\* another.  Which packets are due is up to the clock.
StaleUnacked(due) ==
    LET kept == {u \in unacked : HasAttempts(u)}
    IN  [kept |-> kept, stale |-> {u \in kept : u.packet.packet_id \in due}]

\* The retransmit task: each packet to be repeated gets a fresh envelope.
RetransmitTick(due) ==
    LET now == StaleUnacked(due)
    IN  /\ unacked' = (now.kept \ now.stale) \cup
                         {[u EXCEPT !.attempts = @ + 1] : u \in now.stale}
        /\ given_up' = given_up \cup PidsOf(unacked \ now.kept)
        /\ untracked' = untracked \cup AcksOf(unacked \ now.kept)
        /\ Wrap(Cardinality(now.stale))
        /\ UNCHANGED <<next_packet_id, pending_acks, received_pids, client,
                       to_client, produced, failed>>

-----------------------------------------------------------------------------
\* The items the client's TLS has, in the order of their packet ids, once the
\* client holds the packets ps.
InOrder(ps) ==
    LET ids == {p.packet_id : p \in ps}
        n == CHOOSE k \in 0 .. PacketIdSpace :
                0 .. (k - 1) \subseteq ids /\ k \notin ids
    IN  [i \in 1 .. n |-> (CHOOSE p \in ps : p.packet_id = i - 1).item]

\* Of two packets with one id the client keeps the first.
ClientReceive(p) ==
    LET new == p.packet_id # None
                  /\ \A q \in client.got : q.packet_id # p.packet_id
        got == IF new THEN client.got \cup {p} ELSE client.got
    IN  /\ client' = [client EXCEPT !.acked = @ \cup Range(p.acks),
                                    !.got = got,
                                    !.delivered = InOrder(got)]
        /\ UNCHANGED <<server, envelope, to_client, history>>

ClientSend ==
    /\ client.next_pid \in DOMAIN ClientScript
    /\ client.next_pid - Cardinality(client.acked) < Window
    /\ client' = [client EXCEPT !.next_pid = @ + 1]
    /\ UNCHANGED <<server, envelope, to_client, history>>

Next ==
    \/ \E acks \in SUBSET {p.packet_id : p \in client.got} :
          HandleControlPacket(acks)
    \/ ServerRekey
    \/ ShutdownClient
    \/ \E due \in SUBSET PidsOf(unacked) : RetransmitTick(due)
    \/ \E p \in to_client : ClientReceive(p)
    \/ ClientSend

Spec == Init /\ [][Next]_vars

-----------------------------------------------------------------------------
\* The items the client gets are the items the server took to be sent, in
\* order and without a gap, whatever is lost, repeated or given up and
\* whichever sends fail: a packet that is lost for good stops the stream
\* rather than leave a hole in it.
Stream == INSTANCE ReliableStream WITH
              Burst <- MaxChunks,
              sent <- produced,
              delivered <- client.delivered
ImplementsStream == Stream!Spec

\* The server forgets a packet only when the client has it, when it gave up
\* after the last attempt, or when its first send failed.
Accounted ==
    \A p \in 0 .. (next_packet_id - 1) :
       \/ p \in PidsOf(unacked)
       \/ \E q \in client.got : q.packet_id = p
       \/ p \in given_up \cup failed

\* The ACK of every packet received is still owed, on a packet that will be
\* sent again, or known to the client, unless it went out on a packet that is
\* not repeated: note_received will not ask for it again.
AcksAccounted ==
    received_pids \subseteq Range(pending_acks) \cup AcksOf(unacked)
                              \cup client.acked \cup untracked

\* The ACK count of a packet fits its byte, as long as the client's window
\* and the number of its resets do: repeated packets do not add to it.
AcksFit == \A p \in to_client : Len(p.acks) < AckCountSpace

\* No packet, retransmitted ones included, has the envelope id of another
\* before the ids are used up, and none has id 0, which receivers reject.
EnvelopeFresh ==
    /\ 0 \notin wire_ids
    /\ wrapped <= EnvelopeMax => Cardinality(wire_ids) = wrapped

=============================================================================
