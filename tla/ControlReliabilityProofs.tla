----------------------- MODULE ControlReliabilityProofs -----------------------
(***************************************************************************)
(* Proofs about ControlReliability, for every window, every script of the  *)
(* client's, every number of attempts and every width of the ids.          *)
(*                                                                         *)
(* What a handler sends is brought into one of four forms first (Handled); *)
(* each part of the invariant is then shown to survive each of the four,   *)
(* the retransmit tick and the client's steps.                             *)
(***************************************************************************)
EXTENDS ControlReliability, FiniteSetTheorems, TLAPS

\* The session makes fewer packets than there are packet ids (2^32).
NoWrap == MaxItems < PacketIdSpace

\* The client's packets that a packet of the session's may acknowledge while
\* their ACK stays pending.
Resets == {pid \in ClientPid : OpOf(pid) # "ControlV1"}

\* The client's packets so far.
ClientSent == 0 .. (client.next_pid - 1)

\* The variables have their types.
Types ==
    /\ next_packet_id \in PacketId
    /\ unacked \subseteq Unacked /\ IsFiniteSet(unacked)
    /\ pending_acks \in Seq(ClientPid)
    /\ received_pids \subseteq ClientPid
    /\ tls_auth_pid_out \in 1 .. EnvelopeMax
    /\ to_client \subseteq Packet
    /\ client \in [next_pid : 1 .. (Len(ClientScript) + 1),
                   acked : SUBSET ClientPid,
                   got : SUBSET to_client,
                   delivered : {InOrder(client.got)}]
    /\ produced \in Item
    /\ failed \subseteq PacketId
    /\ wrapped \in Nat
    /\ wire_ids \subseteq 1 .. EnvelopeMax

\* Until the envelope ids are used up they are given out in order.
EnvelopeInv ==
    wrapped <= EnvelopeMax =>
       /\ wire_ids = 1 .. wrapped
       /\ wrapped < EnvelopeMax => tls_auth_pid_out = wrapped + 1

\* A packet id stands for one packet, and the unacked packets are packets that
\* were sent.
WireInv ==
    /\ next_packet_id <= produced
    /\ \A p \in to_client : p.packet_id # None => p.packet_id < next_packet_id
    /\ \A p, q \in to_client :
          p.packet_id # None /\ p.packet_id = q.packet_id => p = q
    /\ \A u \in unacked : u.packet \in to_client /\ u.packet.packet_id # None
    /\ \A u, v \in unacked : u.packet.packet_id = v.packet.packet_id => u = v
    /\ \A q \in client.got : q.packet_id # None

-----------------------------------------------------------------------------
(***************************************************************************)
(* The forms of a handler's step.                                          *)
(***************************************************************************)
\* The i-th packet of a flush.
Pkt(i, acks) ==
    [packet_id |-> (next_packet_id + i - 1) % PacketIdSpace,
     item |-> produced + i,
     acks |-> IF i = 1 THEN acks ELSE <<>>]

\* send_and_track for n packets, of which ok get sent.
Sent(entries, acks, n, ok) ==
    /\ unacked' = entries \cup {[packet |-> Pkt(i, acks), attempts |-> 1] : i \in 1 .. ok}
    /\ to_client' = to_client \cup {Pkt(i, acks) : i \in 1 .. ok}
    /\ next_packet_id' = (next_packet_id + Made(ok, n)) % PacketIdSpace
    /\ failed' = failed \cup {Pkt(i, acks).packet_id : i \in (ok + 1) .. Made(ok, n)}
    /\ untracked' = untracked \cup (IF ok = 0 THEN Range(acks) ELSE {})
    /\ produced' = produced + n
    /\ Wrap(Made(ok, n))

\* Of the unacked packets, only some that the client has are forgotten.
Kept(entries) ==
    /\ entries \subseteq unacked
    /\ \A u \in unacked \ entries :
          \E q \in client.got : q.packet_id = u.packet.packet_id

\* pending_acks with what is new among the packets pids.
Noted(pids, noted) ==
    /\ pids \subseteq ClientSent
    /\ received_pids' = received_pids \cup pids
    /\ noted \in Seq(ClientPid)
    /\ Range(noted) = Range(pending_acks) \cup (pids \ received_pids)
    /\ IsInjective(pending_acks) /\ Range(pending_acks) \subseteq received_pids
          => IsInjective(noted)

\* Nothing is sent.
Quiet(entries, noted) ==
    unacked' = entries /\ pending_acks' = noted /\ Nothing

\* An ACK of its own.
AckOnly(entries, noted) ==
    /\ unacked' = entries /\ pending_acks' = <<>>
    /\ SendAck(noted)
    /\ UNCHANGED <<next_packet_id, failed, produced>>

\* Chunks, the first with the pending ACKs.
Chunks(entries, noted) ==
    /\ pending_acks' = <<>>
    /\ \E n \in 1 .. MaxChunks : \E ok \in 0 .. n :
          produced + n <= MaxItems /\ Sent(entries, noted, n, ok)

\* A reset, which may acknowledge a reset.
ResetSent(entries, noted) ==
    /\ pending_acks' = noted
    /\ produced < MaxItems
    /\ \E ok \in 0 .. 1 :
          \/ Sent(entries, <<>>, 1, ok)
          \/ \E pid \in Resets \cap received_pids' : Sent(entries, <<pid>>, 1, ok)

Handled ==
    \E entries \in SUBSET unacked, pids \in SUBSET ClientPid, noted \in Seq(ClientPid) :
       /\ Kept(entries) /\ Noted(pids, noted)
       /\ UNCHANGED <<given_up, client>>
       /\ \/ Quiet(entries, noted) \/ AckOnly(entries, noted)
          \/ Chunks(entries, noted) \/ ResetSent(entries, noted)

-----------------------------------------------------------------------------
\* What Append does to the elements of a sequence, and when they stay distinct.
LEMMA AppendFacts ==
    ASSUME NEW S, NEW s \in Seq(S), NEW e \in S
    PROVE  /\ Range(Append(s, e)) = Range(s) \cup {e}
           /\ IsInjective(s) /\ e \notin Range(s) => IsInjective(Append(s, e))
<1> DEFINE t == Append(s, e)
<1>1. /\ t \in Seq(S) /\ Len(t) = Len(s) + 1 /\ t[Len(s) + 1] = e
      /\ \A i \in 1 .. Len(s) : t[i] = s[i]
  OBVIOUS
<1>2. DOMAIN t = 1 .. (Len(s) + 1) /\ DOMAIN s = 1 .. Len(s) /\ Len(s) \in Nat
  BY <1>1
<1> HIDE DEF t
<1>3. Range(t) = Range(s) \cup {e}
  <2>1. ASSUME NEW x \in Range(t) PROVE x \in Range(s) \cup {e}
    BY <1>1, <1>2, <2>1 DEF Range
  <2>2. Range(s) \subseteq Range(t)
    BY <1>1, <1>2 DEF Range
  <2>3. e \in Range(t)
    BY <1>1, <1>2 DEF Range
  <2> QED BY <2>1, <2>2, <2>3
<1>4. ASSUME IsInjective(s), e \notin Range(s) PROVE IsInjective(t)
  <2> SUFFICES ASSUME NEW a \in 1 .. (Len(s) + 1), NEW b \in 1 .. (Len(s) + 1),
                      t[a] = t[b]
               PROVE  a = b
    BY <1>2 DEF IsInjective
  <2>1. \A i \in 1 .. Len(s) : s[i] # e
    BY <1>2, <1>4 DEF Range
  <2>2. CASE a \in 1 .. Len(s) /\ b \in 1 .. Len(s)
    BY <1>1, <1>2, <1>4, <2>2 DEF IsInjective
  <2>3. CASE a = Len(s) + 1 \/ b = Len(s) + 1
    BY <1>1, <1>2, <2>1, <2>3
  <2> QED BY <1>2, <2>2, <2>3
<1> QED BY <1>3, <1>4 DEF t

\* send_and_track in terms of the packets' positions in the flush.
LEMMA SendForm ==
    ASSUME NEW n \in Nat \ {0}, NEW entries, NEW acks,
           SendAndTrack(entries, Packets(n, acks))
    PROVE  \E ok \in 0 .. n : Sent(entries, acks, n, ok)
<1> DEFINE ps == Packets(n, acks)
           P == {Pkt(i, acks) : i \in 1 .. n}
<1>1. ps \in [1 .. n -> P] /\ \A i \in 1 .. n : ps[i] = Pkt(i, acks)
  BY DEF Packets, Pkt
<1> HIDE DEF ps, P
<1>2. ps \in Seq(P) /\ Len(ps) = n
  BY <1>1
<1>3. PICK ok \in 0 .. n :
         LET made == Made(ok, n)
             sent == SubSeq(ps, 1, ok)
             lost == SubSeq(ps, ok + 1, made)
         IN  /\ unacked' = RecordSent(entries, sent)
             /\ to_client' = to_client \cup Range(sent)
             /\ next_packet_id' = (next_packet_id + made) % PacketIdSpace
             /\ failed' = failed \cup {lost[i].packet_id : i \in DOMAIN lost}
             /\ untracked' = untracked
                   \cup UNION {Range(lost[i].acks) : i \in DOMAIN lost}
             /\ produced' = produced + n
             /\ Wrap(made)
  BY <1>2 DEF SendAndTrack, ps
<1> DEFINE made == Made(ok, n)
           sent == SubSeq(ps, 1, ok)
           lost == SubSeq(ps, ok + 1, made)
<1>4. made \in 0 .. n /\ ((ok = n /\ made = ok) \/ (ok < n /\ made = ok + 1))
  BY DEF Made
<1> HIDE DEF made
<1>5. /\ sent \in Seq(P) /\ DOMAIN sent = 1 .. ok
      /\ \A i \in 1 .. ok : sent[i] = Pkt(i, acks)
  BY <1>1, <1>2
<1>6. /\ DOMAIN lost = 1 .. (made - ok)
      /\ \A i \in 1 .. (made - ok) : lost[i] = Pkt(ok + i, acks)
  BY <1>1, <1>2, <1>4
<1> HIDE DEF sent, lost
<1>7. Range(sent) = {Pkt(i, acks) : i \in 1 .. ok}
  BY <1>5 DEF Range
<1>8. unacked' = entries \cup {[packet |-> Pkt(i, acks), attempts |-> 1] : i \in 1 .. ok}
  BY <1>3, <1>7 DEF RecordSent, sent
<1>9. {lost[i].packet_id : i \in DOMAIN lost}
         = {Pkt(i, acks).packet_id : i \in (ok + 1) .. made}
  BY <1>4, <1>6
<1>10. UNION {Range(lost[i].acks) : i \in DOMAIN lost}
          = IF ok = 0 THEN Range(acks) ELSE {}
  <2>1. CASE made = ok
    BY <1>4, <1>6, <2>1
  <2>2. CASE made = ok + 1
    <3>1. DOMAIN lost = {1} /\ lost[1] = Pkt(ok + 1, acks)
      BY <1>6, <2>2
    <3>2. lost[1].acks = IF ok = 0 THEN acks ELSE <<>>
      BY <3>1 DEF Pkt
    <3>3. Range(<<>>) = {}
      BY DEF Range
    <3>4. UNION {Range(lost[i].acks) : i \in DOMAIN lost} = Range(lost[1].acks)
      BY <3>1
    <3> QED BY <3>2, <3>3, <3>4
  <2> QED BY <1>4, <2>1, <2>2
<1> QED BY <1>3, <1>7, <1>8, <1>9, <1>10 DEF Sent, made, sent, lost

\* note_received owes an ACK for a packet that is new and only for that.
LEMMA NoteFacts ==
    ASSUME Types, NEW pid \in ClientSent,
           received_pids' = received_pids \cup {pid}
    PROVE  Noted({pid}, NoteReceived(pid))
<1>1. pid \in ClientPid
  BY ReliabilityAssumption DEF Types, ClientSent, ClientPid
<1>2. pending_acks \in Seq(ClientPid)
  BY DEF Types
<1>3. CASE pid \in received_pids
  <2>1. NoteReceived(pid) = pending_acks /\ {pid} \ received_pids = {}
    BY <1>3 DEF NoteReceived
  <2> QED BY <1>2, <2>1 DEF Noted
<1>4. CASE pid \notin received_pids
  <2>1. NoteReceived(pid) = Append(pending_acks, pid)
    BY <1>4 DEF NoteReceived
  <2>2. Append(pending_acks, pid) \in Seq(ClientPid)
    BY <1>1, <1>2
  <2>3. /\ Range(Append(pending_acks, pid)) = Range(pending_acks) \cup {pid}
        /\ IsInjective(pending_acks) /\ pid \notin Range(pending_acks)
              => IsInjective(Append(pending_acks, pid))
    BY <1>1, <1>2, AppendFacts
  <2>4. {pid} \ received_pids = {pid}
    BY <1>4
  <2>5. Range(pending_acks) \subseteq received_pids => pid \notin Range(pending_acks)
    BY <1>4
  <2> QED BY <2>1, <2>2, <2>3, <2>4, <2>5 DEF Noted
<1> QED BY <1>3, <1>4

\* process_acks forgets packets that the client has and no others.
LEMMA ProcessAcksKeeps ==
    ASSUME NEW acks \in SUBSET {p.packet_id : p \in client.got}
    PROVE  Kept(ProcessAcks(acks))
<1>1. ProcessAcks(acks) \subseteq unacked
  BY DEF ProcessAcks
<1>2. ASSUME NEW u \in unacked \ ProcessAcks(acks)
      PROVE  \E q \in client.got : q.packet_id = u.packet.packet_id
  <2>1. u.packet.packet_id \in acks
    BY DEF ProcessAcks
  <2> QED BY <2>1
<1> QED BY <1>1, <1>2 DEF Kept

\* One packet from the client is handled in one of the four forms.
LEMMA PacketHandled ==
    ASSUME Types, NEW acks \in SUBSET {p.packet_id : p \in client.got},
           HandleControlPacket(acks)
    PROVE  Handled
<1> DEFINE entries == ProcessAcks(acks)
<1>1. Kept(entries) /\ entries \in SUBSET unacked
  BY ProcessAcksKeeps DEF Kept
<1>2. UNCHANGED <<given_up, client>>
  BY DEF HandleControlPacket
<1>3. CASE AckV1(acks)
  <2>1. Quiet(entries, pending_acks) /\ received_pids' = received_pids
    BY <1>3 DEF AckV1, Quiet
  <2>2. Noted({}, pending_acks) /\ pending_acks \in Seq(ClientPid)
    BY <2>1 DEF Noted, Types
  <2> QED BY <1>1, <1>2, <2>1, <2>2 DEF Handled
<1>4. ASSUME NEW pid \in 0 .. (client.next_pid - 1),
             NotActedOn(pid, acks) \/ SoftReset(pid, acks) \/ ControlV1(pid, acks),
             received_pids' = received_pids \cup {pid}
      PROVE  Handled
  <2> DEFINE noted == NoteReceived(pid)
  <2>1. Noted({pid}, noted) /\ noted \in Seq(ClientPid)
    BY <1>4, NoteFacts DEF ClientSent, Noted
  <2>2. pid \in ClientPid
    BY ReliabilityAssumption DEF Types, ClientPid
  <2> HIDE DEF entries, noted
  <2>3. SUFFICES \/ Quiet(entries, noted) \/ AckOnly(entries, noted)
                 \/ Chunks(entries, noted) \/ ResetSent(entries, noted)
    BY <1>1, <1>2, <2>1, <2>2 DEF Handled
  <2>4. CASE NotActedOn(pid, acks)
    BY <2>4 DEF NotActedOn, Quiet, entries, noted
  <2>5. CASE SoftReset(pid, acks)
    <3>1. SendAndTrack(entries, Packets(1, <<pid>>))
      BY <2>5 DEF SoftReset, MakeSoftResetReply, entries
    <3>2. PICK ok \in 0 .. 1 : Sent(entries, <<pid>>, 1, ok)
      BY <3>1, SendForm
    <3>3. pid \in Resets \cap received_pids'
      BY <1>4, <2>2, <2>5 DEF SoftReset, Resets
    <3> QED BY <2>5, <3>2, <3>3 DEF SoftReset, ResetSent, noted
  <2>6. CASE ControlV1(pid, acks)
    <3>1. CASE unacked' = entries /\ pending_acks' = noted /\ Nothing
      BY <3>1 DEF Quiet
    <3>2. ASSUME NEW n \in 0 .. MaxChunks, FlushOutgoing(entries, noted, n)
          PROVE  Quiet(entries, noted) \/ AckOnly(entries, noted) \/ Chunks(entries, noted)
      <4>1. CASE n > 0
        <5>1. PICK ok \in 0 .. n : Sent(entries, noted, n, ok)
          BY <3>2, <4>1, SendForm DEF FlushOutgoing
        <5> QED BY <3>2, <4>1, <5>1, ReliabilityAssumption DEF FlushOutgoing, Chunks
      <4>2. CASE n = 0
        BY <3>2, <4>2 DEF FlushOutgoing, Quiet, AckOnly
      <4> QED BY <4>1, <4>2, ReliabilityAssumption
    <3>3. ASSUME NEW n \in 0 .. MaxChunks, FlushRekeyOutgoing(entries, noted, n)
          PROVE  Quiet(entries, noted) \/ Chunks(entries, noted)
      <4>1. CASE n > 0
        <5>1. PICK ok \in 0 .. n : Sent(entries, noted, n, ok)
          BY <3>3, <4>1, SendForm DEF FlushRekeyOutgoing
        <5> QED BY <3>3, <4>1, <5>1, ReliabilityAssumption DEF FlushRekeyOutgoing, Chunks
      <4>2. CASE n = 0
        BY <3>3, <4>2 DEF FlushRekeyOutgoing, Quiet
      <4> QED BY <4>1, <4>2, ReliabilityAssumption
    <3> QED BY <2>6, <3>1, <3>2, <3>3 DEF ControlV1, entries, noted
  <2> QED BY <1>4, <2>4, <2>5, <2>6
<1> QED BY <1>3, <1>4 DEF HandleControlPacket

\* So are the steps that the server takes of itself.
LEMMA OwnStepsHandled ==
    ASSUME Types, ServerRekey \/ ShutdownClient
    PROVE  Handled
<1>1. received_pids' = received_pids /\ UNCHANGED <<given_up, client>>
  BY DEF ServerRekey, ShutdownClient
<1>2. Kept(unacked) /\ Noted({}, pending_acks) /\ pending_acks \in Seq(ClientPid)
  BY <1>1 DEF Kept, Noted, Types
<1>3. CASE ServerRekey
  <2>1. PICK ok \in 0 .. 1 : Sent(unacked, <<>>, 1, ok)
    BY <1>3, SendForm DEF ServerRekey, MakeSoftResetInit
  <2>2. ResetSent(unacked, pending_acks)
    BY <1>3, <2>1 DEF ServerRekey, ResetSent
  <2> QED BY <1>1, <1>2, <2>2 DEF Handled
<1>4. CASE ShutdownClient
  <2>1. PICK n \in 1 .. MaxChunks : FlushOutgoing(unacked, pending_acks, n)
    BY <1>4 DEF ShutdownClient
  <2>2. PICK ok \in 0 .. n : Sent(unacked, pending_acks, n, ok)
    BY <2>1, SendForm, ReliabilityAssumption DEF FlushOutgoing
  <2>3. Chunks(unacked, pending_acks)
    BY <2>1, <2>2, ReliabilityAssumption DEF FlushOutgoing, Chunks
  <2> QED BY <1>1, <1>2, <2>3 DEF Handled
<1> QED BY <1>3, <1>4

-----------------------------------------------------------------------------
(***************************************************************************)
(* Types and envelope ids.                                                 *)
(***************************************************************************)
\* The remainder is below the modulus, and below it nothing changes.
LEMMA ModFact ==
    ASSUME NEW a \in Nat, NEW m \in Nat \ {0}
    PROVE  a % m \in 0 .. (m - 1) /\ (a < m => a % m = a)
OBVIOUS

\* next_tls_auth_pid stays in its range and gives out fresh ids in order.
LEMMA WrapFacts ==
    ASSUME Types, EnvelopeInv, NEW n \in Nat, Wrap(n)
    PROVE  /\ tls_auth_pid_out' \in 1 .. EnvelopeMax
           /\ wrapped' \in Nat
           /\ wire_ids' \subseteq 1 .. EnvelopeMax
           /\ EnvelopeInv'
<1> DEFINE t == tls_auth_pid_out
           w == wrapped
<1>1. /\ t \in 1 .. EnvelopeMax /\ w \in Nat /\ wire_ids \subseteq 1 .. EnvelopeMax
      /\ EnvelopeMax \in Nat \ {0}
  BY ReliabilityAssumption DEF Types
<1>2. /\ tls_auth_pid_out' = EnvelopeAfter(n)
      /\ wrapped' = w + n
      /\ wire_ids' = wire_ids \cup {EnvelopeAfter(i) : i \in 0 .. (n - 1)}
  BY DEF Wrap
<1>3. \A i \in Nat : EnvelopeAfter(i) = ((t + i - 1) % EnvelopeMax) + 1
  BY DEF EnvelopeAfter
<1>4. EnvelopeInv
  OBVIOUS
<1> HIDE DEF t, w
<1>5. \A i \in Nat : /\ EnvelopeAfter(i) \in 1 .. EnvelopeMax
                     /\ t + i <= EnvelopeMax => EnvelopeAfter(i) = t + i
  <2> TAKE i \in Nat
  <2>1. t + i - 1 \in Nat
    BY <1>1
  <2> DEFINE r == (t + i - 1) % EnvelopeMax
  <2>2. /\ r \in 0 .. (EnvelopeMax - 1)
        /\ t + i - 1 < EnvelopeMax => r = t + i - 1
    BY <1>1, <2>1, ModFact
  <2>3. EnvelopeAfter(i) = r + 1
    BY <1>3
  <2> HIDE DEF r
  <2> QED BY <1>1, <2>2, <2>3
<1>6. wire_ids' \subseteq 1 .. EnvelopeMax
  <2>1. ASSUME NEW i \in 0 .. (n - 1) PROVE EnvelopeAfter(i) \in 1 .. EnvelopeMax
    BY <1>5
  <2> QED BY <1>1, <1>2, <2>1
<1>7. ASSUME w + n <= EnvelopeMax
      PROVE  /\ wire_ids' = 1 .. (w + n)
             /\ w + n < EnvelopeMax => tls_auth_pid_out' = w + n + 1
  <2>1. /\ wire_ids = 1 .. w
        /\ w < EnvelopeMax => t = w + 1
    BY <1>1, <1>4, <1>7 DEF EnvelopeInv, t, w
  <2>2. CASE n = 0
    <3>1. {EnvelopeAfter(i) : i \in 0 .. (n - 1)} = {}
      BY <2>2
    <3>2. EnvelopeAfter(0) = t
      BY <1>1, <1>5
    <3> QED BY <1>1, <1>2, <2>1, <2>2, <3>1, <3>2
  <2>3. CASE n > 0
    <3>1. t = w + 1
      BY <1>1, <1>7, <2>1, <2>3
    <3>2. \A i \in 0 .. (n - 1) : EnvelopeAfter(i) = w + 1 + i
      BY <1>1, <1>5, <1>7, <3>1
    <3>3. {EnvelopeAfter(i) : i \in 0 .. (n - 1)} = (w + 1) .. (w + n)
      <4>1. ASSUME NEW x \in (w + 1) .. (w + n)
            PROVE  x \in {EnvelopeAfter(i) : i \in 0 .. (n - 1)}
        <5>1. x - (w + 1) \in 0 .. (n - 1)
          BY <1>1
        <5>2. EnvelopeAfter(x - (w + 1)) = x
          BY <1>1, <3>2, <5>1
        <5> QED BY <5>1, <5>2
      <4>2. ASSUME NEW i \in 0 .. (n - 1)
            PROVE  EnvelopeAfter(i) \in (w + 1) .. (w + n)
        BY <1>1, <3>2
      <4> QED BY <4>1, <4>2
    <3>4. wire_ids' = 1 .. (w + n)
      BY <1>1, <1>2, <2>1, <3>3
    <3>5. w + n < EnvelopeMax => tls_auth_pid_out' = w + n + 1
      BY <1>1, <1>2, <1>5, <3>1
    <3> QED BY <3>4, <3>5
  <2> QED BY <2>2, <2>3
<1>8. EnvelopeInv'
  BY <1>1, <1>2, <1>7 DEF EnvelopeInv, w
<1> QED BY <1>1, <1>2, <1>5, <1>6, <1>8 DEF w

\* A flush adds finitely many unacked packets.
LEMMA SentFinite ==
    ASSUME NEW entries, IsFiniteSet(entries), NEW acks, NEW n \in Nat, NEW ok \in 0 .. n,
           Sent(entries, acks, n, ok)
    PROVE  IsFiniteSet(unacked')
<1> DEFINE T == {[packet |-> Pkt(i, acks), attempts |-> 1] : i \in 1 .. ok}
           f == [i \in 1 .. ok |-> [packet |-> Pkt(i, acks), attempts |-> 1]]
<1>1. f \in Surjection(1 .. ok, T)
  BY DEF Surjection
<1>2. IsFiniteSet(T)
  <2> HIDE DEF f, T
  <2>1. IsFiniteSet(1 .. ok)
    BY FS_Interval
  <2> QED BY <1>1, <2>1, FS_Surjection
<1>3. unacked' = entries \cup T
  BY DEF Sent
<1> HIDE DEF T
<1>4. IsFiniteSet(entries \cup T)
  BY <1>2, FS_Union
<1> QED BY <1>3, <1>4

\* A retransmit keeps as many packets as there are at most.
LEMMA TickFinite ==
    ASSUME NEW due, IsFiniteSet(unacked), RetransmitTick(due)
    PROVE  /\ IsFiniteSet(unacked')
           /\ IsFiniteSet(StaleUnacked(due).stale)
<1> DEFINE kept == StaleUnacked(due).kept
           stale == StaleUnacked(due).stale
           T == {[u EXCEPT !.attempts = @ + 1] : u \in stale}
           f == [u \in stale |-> [u EXCEPT !.attempts = @ + 1]]
<1>1. kept \subseteq unacked /\ stale \subseteq unacked /\ kept \ stale \subseteq unacked
  BY DEF StaleUnacked
<1>2. unacked' = (kept \ stale) \cup T
  BY DEF RetransmitTick
<1>3. f \in Surjection(stale, T)
  BY DEF Surjection
<1> HIDE DEF kept, stale, T, f
<1>4. IsFiniteSet(stale) /\ IsFiniteSet(kept \ stale)
  BY <1>1, FS_Subset
<1>5. IsFiniteSet(T)
  BY <1>3, <1>4, FS_Surjection
<1>6. IsFiniteSet((kept \ stale) \cup T)
  BY <1>4, <1>5, FS_Union
<1> QED BY <1>2, <1>4, <1>6 DEF stale

\* What the types say of the numbers.
LEMMA TypeFacts ==
    ASSUME Types
    PROVE  /\ next_packet_id \in Nat /\ produced \in Nat /\ failed \subseteq Nat
           /\ \A p \in to_client : p.packet_id # None => p.packet_id \in PacketId
           /\ PacketIdSpace \in Nat \ {0} /\ PacketId \subseteq Nat /\ None \notin Nat
<1>1. PacketIdSpace \in Nat \ {0} /\ None \notin Nat /\ MaxItems \in Nat
  BY ReliabilityAssumption
<1>2. PacketId \subseteq Nat /\ Item \subseteq Nat
  BY <1>1 DEF PacketId, Item
<1>3. next_packet_id \in PacketId /\ produced \in Item /\ failed \subseteq PacketId
  BY DEF Types
<1>4. \A p \in to_client : p.packet_id \in PacketId \cup {None}
  BY DEF Types, Packet
<1> QED BY <1>1, <1>2, <1>3, <1>4

\* The packets of a flush are packets.
LEMMA PktType ==
    ASSUME Types, NEW acks \in Seq(ClientPid), NEW n \in Nat, produced + n <= MaxItems,
           NEW i \in 1 .. n
    PROVE  /\ Pkt(i, acks) \in Packet
           /\ Pkt(i, acks).packet_id \in PacketId
           /\ Pkt(i, acks).packet_id = (next_packet_id + i - 1) % PacketIdSpace
           /\ Pkt(i, acks).item = produced + i
<1>1. next_packet_id + i - 1 \in Nat /\ PacketIdSpace \in Nat \ {0}
  BY ReliabilityAssumption DEF Types, PacketId
<1>2. (next_packet_id + i - 1) % PacketIdSpace \in PacketId
  BY <1>1, ModFact DEF PacketId
<1>3. produced + i \in Item
  BY ReliabilityAssumption DEF Types, Item
<1>4. <<>> \in Seq(ClientPid)
  OBVIOUS
<1> HIDE DEF PacketId, Item, ClientPid
<1> QED BY <1>2, <1>3, <1>4 DEF Pkt, Packet

\* The variables that a flush changes keep their types.
LEMMA SentTypes ==
    ASSUME Types, NEW entries \in SUBSET unacked, NEW acks \in Seq(ClientPid),
           NEW n \in Nat \ {0}, NEW ok \in 0 .. n, produced + n <= MaxItems,
           Sent(entries, acks, n, ok)
    PROVE  /\ next_packet_id' \in PacketId
           /\ unacked' \subseteq Unacked /\ IsFiniteSet(unacked')
           /\ to_client' \subseteq Packet /\ to_client \subseteq to_client'
           /\ produced' \in Item
           /\ failed' \subseteq PacketId
<1>1. \A i \in 1 .. n : Pkt(i, acks) \in Packet /\ Pkt(i, acks).packet_id \in PacketId
  BY PktType
<1>2. Made(ok, n) \in 0 .. n
  BY DEF Made
<1>3. next_packet_id' \in PacketId
  <2>1. next_packet_id + Made(ok, n) \in Nat /\ PacketIdSpace \in Nat \ {0}
    BY <1>2, ReliabilityAssumption DEF Types, PacketId
  <2>2. next_packet_id' = (next_packet_id + Made(ok, n)) % PacketIdSpace
    BY DEF Sent
  <2> HIDE DEF Made
  <2> QED BY <2>1, <2>2, ModFact DEF PacketId
<1>4. unacked' \subseteq Unacked
  <2>1. \A i \in 1 .. ok : [packet |-> Pkt(i, acks), attempts |-> 1] \in Unacked
    BY <1>1, ReliabilityAssumption DEF Unacked
  <2>2. entries \subseteq Unacked
    BY DEF Types
  <2> QED BY <2>1, <2>2 DEF Sent
<1>5. IsFiniteSet(unacked')
  <2>1. IsFiniteSet(entries)
    BY FS_Subset DEF Types
  <2> QED BY <2>1, SentFinite
<1>6. to_client' \subseteq Packet /\ to_client \subseteq to_client'
  <2>1. \A i \in 1 .. ok : Pkt(i, acks) \in Packet
    BY <1>1
  <2>2. to_client' = to_client \cup {Pkt(i, acks) : i \in 1 .. ok}
    BY DEF Sent
  <2> QED BY <2>1, <2>2 DEF Types
<1>7. produced' \in Item
  BY ReliabilityAssumption DEF Sent, Types, Item
<1>8. failed' \subseteq PacketId
  <2>1. \A i \in (ok + 1) .. Made(ok, n) : Pkt(i, acks).packet_id \in PacketId
    BY <1>1, <1>2
  <2> QED BY <2>1 DEF Sent, Types
<1> QED BY <1>3, <1>4, <1>5, <1>6, <1>7, <1>8

\* A reset carries a sequence of ACKs.
LEMMA ResetAcks ==
    ASSUME NEW entries, NEW noted, ResetSent(entries, noted)
    PROVE  \E acks \in Seq(ClientPid), ok \in 0 .. 1 : Sent(entries, acks, 1, ok)
<1>1. PICK ok \in 0 .. 1 :
         \/ Sent(entries, <<>>, 1, ok)
         \/ \E pid \in Resets \cap received_pids' : Sent(entries, <<pid>>, 1, ok)
  BY DEF ResetSent
<1>2. <<>> \in Seq(ClientPid) /\ \A pid \in Resets : <<pid>> \in Seq(ClientPid)
  BY DEF Resets
<1> QED BY <1>1, <1>2, Zenon

\* A handler keeps the types and the order of the envelope ids.
LEMMA HandledTypes ==
    ASSUME Types, EnvelopeInv, Handled
    PROVE  Types' /\ EnvelopeInv'
<1>1. PICK entries \in SUBSET unacked, pids \in SUBSET ClientPid,
           noted \in Seq(ClientPid) :
         /\ Kept(entries) /\ Noted(pids, noted)
         /\ UNCHANGED <<given_up, client>>
         /\ \/ Quiet(entries, noted) \/ AckOnly(entries, noted)
            \/ Chunks(entries, noted) \/ ResetSent(entries, noted)
  BY DEF Handled
<1>2. received_pids' \subseteq ClientPid /\ client' = client
  BY <1>1 DEF Noted, Types
<1>3. IsFiniteSet(entries) /\ entries \subseteq Unacked
  BY FS_Subset DEF Types
<1>4. ASSUME to_client \subseteq to_client'
      PROVE  client' \in [next_pid : 1 .. (Len(ClientScript) + 1),
                          acked : SUBSET ClientPid,
                          got : SUBSET to_client',
                          delivered : {InOrder(client.got)'}]
  <2>1. InOrder(client.got)' = InOrder(client.got)
    BY <1>2 DEF InOrder
  <2>2. SUBSET to_client \subseteq SUBSET to_client'
    BY <1>4
  <2> HIDE DEF InOrder
  <2> QED BY <1>2, <2>1, <2>2 DEF Types
<1>5. <<>> \in Seq(ClientPid)
  OBVIOUS
<1>6. CASE Quiet(entries, noted)
  <2>1. /\ unacked' = entries /\ pending_acks' = noted
        /\ UNCHANGED <<next_packet_id, to_client, failed, produced>>
        /\ UNCHANGED <<tls_auth_pid_out, wrapped, wire_ids>>
    BY <1>6 DEF Quiet, Nothing, envelope
  <2>2. EnvelopeInv'
    BY <2>1 DEF EnvelopeInv
  <2> QED BY <1>2, <1>3, <1>4, <2>1, <2>2 DEF Types
<1>7. CASE AckOnly(entries, noted)
  <2>1. /\ unacked' = entries /\ pending_acks' = <<>>
        /\ to_client' = to_client \cup {MakeAck(noted)}
        /\ UNCHANGED <<next_packet_id, failed, produced>>
        /\ Wrap(1)
    BY <1>7 DEF AckOnly, SendAck
  <2>2. MakeAck(noted) \in Packet
    BY DEF MakeAck, Packet
  <2>3. /\ tls_auth_pid_out' \in 1 .. EnvelopeMax /\ wrapped' \in Nat
        /\ wire_ids' \subseteq 1 .. EnvelopeMax /\ EnvelopeInv'
    BY <2>1, WrapFacts
  <2>4. to_client' \subseteq Packet /\ to_client \subseteq to_client'
    BY <2>1, <2>2 DEF Types
  <2> QED BY <1>2, <1>3, <1>4, <1>5, <2>1, <2>3, <2>4 DEF Types
<1>8. ASSUME NEW acks \in Seq(ClientPid), NEW n \in Nat \ {0}, NEW ok \in 0 .. n,
             produced + n <= MaxItems, Sent(entries, acks, n, ok),
             pending_acks' \in Seq(ClientPid)
      PROVE  Types' /\ EnvelopeInv'
  <2>1. /\ next_packet_id' \in PacketId
        /\ unacked' \subseteq Unacked /\ IsFiniteSet(unacked')
        /\ to_client' \subseteq Packet /\ to_client \subseteq to_client'
        /\ produced' \in Item
        /\ failed' \subseteq PacketId
    BY <1>8, SentTypes
  <2>2. Made(ok, n) \in Nat /\ Wrap(Made(ok, n))
    BY <1>8 DEF Made, Sent
  <2>3. /\ tls_auth_pid_out' \in 1 .. EnvelopeMax /\ wrapped' \in Nat
        /\ wire_ids' \subseteq 1 .. EnvelopeMax /\ EnvelopeInv'
    BY <2>2, WrapFacts
  <2> QED BY <1>2, <1>4, <1>8, <2>1, <2>3 DEF Types
<1>9. CASE Chunks(entries, noted)
  BY <1>5, <1>8, <1>9 DEF Chunks
<1>10. CASE ResetSent(entries, noted)
  <2>1. produced + 1 <= MaxItems /\ 1 \in Nat \ {0}
    BY <1>10, ReliabilityAssumption DEF ResetSent, Types, Item
  <2>2. PICK acks \in Seq(ClientPid), ok \in 0 .. 1 : Sent(entries, acks, 1, ok)
    BY <1>10, ResetAcks
  <2>3. pending_acks' \in Seq(ClientPid)
    BY <1>10 DEF ResetSent
  <2> QED BY <1>8, <2>1, <2>2, <2>3, Zenon
<1> QED BY <1>1, <1>6, <1>7, <1>9, <1>10

\* What the client gets and sends keeps the types.
LEMMA ClientTypes ==
    ASSUME Types, \/ \E p \in to_client : ClientReceive(p)
                  \/ ClientSend
    PROVE  Types'
<1>1. UNCHANGED <<server, envelope, to_client, history>>
  BY DEF ClientReceive, ClientSend
<1>2. /\ UNCHANGED <<next_packet_id, unacked, pending_acks, received_pids>>
      /\ UNCHANGED <<tls_auth_pid_out, wrapped, wire_ids>>
      /\ UNCHANGED <<to_client, produced, failed>>
  BY <1>1 DEF server, envelope, history
<1> SUFFICES client' \in [next_pid : 1 .. (Len(ClientScript) + 1),
                          acked : SUBSET ClientPid,
                          got : SUBSET to_client,
                          delivered : {InOrder(client'.got)}]
  <2>1. InOrder(client.got)' = InOrder(client'.got)
    BY DEF InOrder
  <2> HIDE DEF InOrder
  <2> QED BY <1>2, <2>1 DEF Types
<1>3. CASE \E p \in to_client : ClientReceive(p)
  <2>1. PICK p \in to_client : ClientReceive(p)
    BY <1>3
  <2> DEFINE new == p.packet_id # None
                       /\ \A q \in client.got : q.packet_id # p.packet_id
             got == IF new THEN client.got \cup {p} ELSE client.got
  <2>2. client' = [client EXCEPT !.acked = @ \cup Range(p.acks),
                                 !.got = got,
                                 !.delivered = InOrder(got)]
    BY <2>1 DEF ClientReceive
  <2>3. Range(p.acks) \subseteq ClientPid
    <3>1. p.acks \in Seq(ClientPid)
      BY DEF Types, Packet
    <3> QED BY <3>1 DEF Range
  <2>4. got \in SUBSET to_client
    BY DEF Types
  <2>5. client.acked \cup Range(p.acks) \in SUBSET ClientPid
    BY <2>3 DEF Types
  <2> HIDE DEF got, InOrder
  <2> QED BY <2>2, <2>4, <2>5 DEF Types
<1>4. CASE ClientSend
  <2>1. client' = [client EXCEPT !.next_pid = @ + 1] /\ client.next_pid \in DOMAIN ClientScript
    BY <1>4 DEF ClientSend
  <2>2. client.next_pid + 1 \in 1 .. (Len(ClientScript) + 1)
    BY <2>1, ReliabilityAssumption
  <2> HIDE DEF InOrder
  <2> QED BY <2>1, <2>2 DEF Types
<1> QED BY <1>3, <1>4

\* The client forgets neither packets nor ACKs.
LEMMA ClientGrows ==
    ASSUME Types, \/ \E p \in to_client : ClientReceive(p)
                  \/ ClientSend
    PROVE  client.got \subseteq client'.got /\ client.acked \subseteq client'.acked
<1>1. CASE \E p \in to_client : ClientReceive(p)
  <2>1. PICK p \in to_client : ClientReceive(p)
    BY <1>1
  <2> QED BY <2>1 DEF ClientReceive, Types
<1>2. CASE ClientSend
  BY <1>2 DEF ClientSend, Types
<1> QED BY <1>1, <1>2

\* So does the retransmit task, which moves attempts up to their limit at most.
LEMMA TickTypes ==
    ASSUME Types, EnvelopeInv, NEW due, RetransmitTick(due)
    PROVE  Types' /\ EnvelopeInv'
<1> DEFINE kept == StaleUnacked(due).kept
           stale == StaleUnacked(due).stale
<1>1. /\ unacked' = (kept \ stale) \cup {[u EXCEPT !.attempts = @ + 1] : u \in stale}
      /\ Wrap(Cardinality(stale))
      /\ UNCHANGED <<next_packet_id, pending_acks, received_pids, client>>
      /\ UNCHANGED <<to_client, produced, failed>>
  BY DEF RetransmitTick
<1>2. IsFiniteSet(unacked') /\ IsFiniteSet(stale)
  BY TickFinite DEF Types
<1>3. Cardinality(stale) \in Nat
  BY <1>2, FS_CardinalityType
<1>4. /\ tls_auth_pid_out' \in 1 .. EnvelopeMax /\ wrapped' \in Nat
      /\ wire_ids' \subseteq 1 .. EnvelopeMax /\ EnvelopeInv'
  BY <1>1, <1>3, WrapFacts
<1>5. unacked' \subseteq Unacked
  <2>1. kept \subseteq Unacked
    BY DEF StaleUnacked, Types
  <2>2. ASSUME NEW u \in stale PROVE [u EXCEPT !.attempts = @ + 1] \in Unacked
    <3>1. u \in Unacked /\ u.attempts < CONTROL_MAX_ATTEMPTS
      BY DEF StaleUnacked, HasAttempts, Types
    <3>2. u.attempts + 1 \in 1 .. CONTROL_MAX_ATTEMPTS
      BY <3>1, ReliabilityAssumption DEF Unacked
    <3> QED BY <3>1, <3>2 DEF Unacked
  <2> QED BY <1>1, <2>1, <2>2
<1>6. InOrder(client.got)' = InOrder(client.got)
  BY <1>1 DEF InOrder
<1> HIDE DEF InOrder
<1> QED BY <1>1, <1>2, <1>4, <1>5, <1>6 DEF Types

\* The session starts with these.
LEMMA InitTypes ==
    ASSUME Init
    PROVE  Types /\ EnvelopeInv
<1>1. <<>> \in Seq(ClientPid) /\ <<0>> \in Seq(ClientPid)
  BY ReliabilityAssumption DEF ClientPid
<1>2. HardResetReply \in Packet
  BY <1>1, ReliabilityAssumption DEF HardResetReply, Packet, PacketId, Item
<1>3. [packet |-> HardResetReply, attempts |-> 1] \in Unacked
  BY <1>2, ReliabilityAssumption DEF Unacked
<1>4. IsFiniteSet(unacked)
  BY FS_Singleton DEF Init
<1>5. InOrder({}) = <<>>
  <2>1. {p.packet_id : p \in {}} = {}
    OBVIOUS
  <2> DEFINE n == CHOOSE k \in 0 .. PacketIdSpace : 0 .. (k - 1) \subseteq {} /\ k \notin {}
  <2>2. 0 \in 0 .. PacketIdSpace /\ 0 .. (0 - 1) \subseteq {} /\ 0 \notin {}
    BY ReliabilityAssumption
  <2>3. n \in 0 .. PacketIdSpace /\ 0 .. (n - 1) \subseteq {}
    BY <2>2
  <2>4. n = 0
    BY <2>3, ReliabilityAssumption
  <2> HIDE DEF n
  <2>5. InOrder({}) = [i \in 1 .. n |-> (CHOOSE p \in {} : p.packet_id = i - 1).item]
    BY <2>1 DEF InOrder, n
  <2>6. 1 .. n = {}
    BY <2>4
  <2>7. InOrder({}) \in [1 .. 0 -> {}]
    BY <2>4, <2>5, <2>6
  <2> HIDE DEF InOrder
  <2>8. InOrder({}) \in Seq({}) /\ Len(InOrder({})) = 0
    BY <2>7
  <2> QED BY <2>8
<1>6. client \in [next_pid : 1 .. (Len(ClientScript) + 1),
                  acked : SUBSET ClientPid,
                  got : SUBSET to_client,
                  delivered : {InOrder(client.got)}]
  <2>1. 1 \in 1 .. (Len(ClientScript) + 1)
    BY ReliabilityAssumption
  <2> HIDE DEF InOrder
  <2> QED BY <1>5, <2>1 DEF Init
<1> HIDE DEF InOrder
<1>7. Types
  BY <1>1, <1>2, <1>3, <1>4, <1>6, ReliabilityAssumption DEF Types, Init, PacketId, Item
<1>8. EnvelopeInv
  BY ReliabilityAssumption DEF EnvelopeInv, Init
<1> QED BY <1>7, <1>8

\* Every step is a handler's, the retransmit task's or the client's.
LEMMA StepCases ==
    ASSUME Types, [Next]_vars
    PROVE  \/ Handled
           \/ \E due \in SUBSET PidsOf(unacked) : RetransmitTick(due)
           \/ \E p \in to_client : ClientReceive(p)
           \/ ClientSend
           \/ UNCHANGED vars
BY PacketHandled, OwnStepsHandled DEF Next

\* Every step keeps the types and the order of the envelope ids.
LEMMA NextTypes ==
    ASSUME Types, EnvelopeInv, [Next]_vars
    PROVE  Types' /\ EnvelopeInv'
<1>1. CASE Handled
  BY <1>1, HandledTypes
<1>2. CASE \E due \in SUBSET PidsOf(unacked) : RetransmitTick(due)
  BY <1>2, TickTypes
<1>3. CASE (\E p \in to_client : ClientReceive(p)) \/ ClientSend
  <2>1. Types'
    BY <1>3, ClientTypes
  <2>2. EnvelopeInv'
    BY <1>3 DEF ClientReceive, ClientSend, envelope, EnvelopeInv
  <2> QED BY <2>1, <2>2
<1>4. CASE UNCHANGED vars
  <2>1. /\ UNCHANGED <<next_packet_id, unacked, pending_acks, received_pids>>
        /\ UNCHANGED <<tls_auth_pid_out, wrapped, wire_ids, client>>
        /\ UNCHANGED <<to_client, produced, failed>>
    BY <1>4 DEF vars, server, envelope, history
  <2>2. InOrder(client.got)' = InOrder(client.got)
    BY <2>1 DEF InOrder
  <2> HIDE DEF InOrder
  <2> QED BY <2>1, <2>2 DEF Types, EnvelopeInv
<1> QED BY <1>1, <1>2, <1>3, <1>4, StepCases

\* The envelope ids are never repeated before they are used up and never 0,
\* for any number of retransmits: next_tls_auth_pid is the only place that
\* hands them out.
THEOREM EnvelopeIdsFresh == Spec => []EnvelopeFresh
<1>1. Init => Types /\ EnvelopeInv
  BY InitTypes
<1>2. Types /\ EnvelopeInv /\ [Next]_vars => Types' /\ EnvelopeInv'
  BY NextTypes
<1>3. Types /\ EnvelopeInv => EnvelopeFresh
  <2> SUFFICES ASSUME Types, EnvelopeInv PROVE EnvelopeFresh
    OBVIOUS
  <2>1. 0 \notin wire_ids
    BY DEF Types
  <2>2. ASSUME wrapped <= EnvelopeMax PROVE Cardinality(wire_ids) = wrapped
    <3>1. wire_ids = 1 .. wrapped /\ wrapped \in Nat
      BY <2>2 DEF EnvelopeInv, Types
    <3> QED BY <3>1, FS_Interval
  <2> QED BY <2>1, <2>2 DEF EnvelopeFresh
<1> QED BY <1>1, <1>2, <1>3, PTL DEF Spec

-----------------------------------------------------------------------------
(***************************************************************************)
(* Packets are accounted for.                                              *)
(***************************************************************************)
\* A flush accounts for every packet id that it uses, also when the ids wrap.
LEMMA SentAccounted ==
    ASSUME Types, Accounted, NEW entries \in SUBSET unacked, Kept(entries),
           NEW acks \in Seq(ClientPid), NEW n \in Nat \ {0}, NEW ok \in 0 .. n,
           produced + n <= MaxItems, Sent(entries, acks, n, ok),
           UNCHANGED <<given_up, client>>
    PROVE  Accounted'
<1> DEFINE made == Made(ok, n)
<1>1. made \in 0 .. n /\ ok <= made /\ made <= ok + 1
  BY DEF Made
<1>2. /\ unacked' = entries \cup {[packet |-> Pkt(i, acks), attempts |-> 1] : i \in 1 .. ok}
      /\ next_packet_id' = (next_packet_id + made) % PacketIdSpace
      /\ failed' = failed \cup {Pkt(i, acks).packet_id : i \in (ok + 1) .. made}
  BY DEF Sent
<1>3. \A i \in 1 .. n : Pkt(i, acks).packet_id = (next_packet_id + i - 1) % PacketIdSpace
  BY PktType
<1>4. next_packet_id \in 0 .. (PacketIdSpace - 1) /\ PacketIdSpace \in Nat \ {0}
  BY ReliabilityAssumption DEF Types, PacketId
<1> HIDE DEF made
<1> SUFFICES ASSUME NEW p \in 0 .. (next_packet_id' - 1)
             PROVE  \/ p \in PidsOf(unacked')
                    \/ \E q \in client.got : q.packet_id = p
                    \/ p \in given_up \cup failed'
  BY DEF Accounted, PidsOf
<1>5. CASE p < next_packet_id
  <2>1. \/ p \in PidsOf(unacked)
        \/ \E q \in client.got : q.packet_id = p
        \/ p \in given_up \cup failed
    BY <1>4, <1>5 DEF Accounted
  <2>2. ASSUME NEW u \in unacked, u.packet.packet_id = p
        PROVE  p \in PidsOf(unacked') \/ \E q \in client.got : q.packet_id = p
    <3>1. CASE u \in entries
      BY <1>2, <2>2, <3>1 DEF PidsOf
    <3>2. CASE u \notin entries
      BY <2>2, <3>2 DEF Kept
    <3> QED BY <3>1, <3>2
  <2> QED BY <1>2, <2>1, <2>2 DEF PidsOf
<1>6. CASE p >= next_packet_id
  <2> DEFINE m == next_packet_id + made
             i == p - next_packet_id + 1
  <2>1. /\ m \in Nat
        /\ m % PacketIdSpace \in 0 .. (PacketIdSpace - 1)
        /\ m < PacketIdSpace => m % PacketIdSpace = m
    <3>1. m \in Nat
      BY <1>1, <1>4
    <3> HIDE DEF m
    <3> QED BY <1>4, <3>1, ModFact
  <2>2. next_packet_id' = m % PacketIdSpace
    BY <1>2
  <2>3. p \in Nat /\ p < PacketIdSpace /\ p < m
    <3> HIDE DEF m
    <3> QED BY <1>4, <2>1, <2>2
  <2>4. i \in 1 .. made /\ next_packet_id + i - 1 = p
    BY <1>1, <1>4, <1>6, <2>3
  <2>5. Pkt(i, acks).packet_id = p
    <3>1. i \in 1 .. n
      BY <1>1, <2>4
    <3>2. p % PacketIdSpace = p
      BY <1>4, <2>3, ModFact
    <3> HIDE DEF i
    <3> QED BY <1>3, <2>4, <3>1, <3>2
  <2> HIDE DEF i
  <2>6. CASE i \in 1 .. ok
    <3>1. [packet |-> Pkt(i, acks), attempts |-> 1] \in unacked'
      BY <1>2, <2>6
    <3> DEFINE u == [packet |-> Pkt(i, acks), attempts |-> 1]
    <3>2. u.packet.packet_id = p
      BY <2>5
    <3> QED BY <3>1, <3>2 DEF PidsOf
  <2>7. CASE i \in (ok + 1) .. made
    BY <1>2, <2>5, <2>7
  <2> QED BY <1>1, <2>4, <2>6, <2>7
<1> QED BY <1>4, <1>5, <1>6

\* A handler forgets no packet that is not accounted for.
LEMMA HandledAccounted ==
    ASSUME Types, Accounted, Handled
    PROVE  Accounted'
<1>1. PICK entries \in SUBSET unacked, pids \in SUBSET ClientPid,
           noted \in Seq(ClientPid) :
         /\ Kept(entries) /\ Noted(pids, noted)
         /\ UNCHANGED <<given_up, client>>
         /\ \/ Quiet(entries, noted) \/ AckOnly(entries, noted)
            \/ Chunks(entries, noted) \/ ResetSent(entries, noted)
  BY DEF Handled
<1>2. CASE Quiet(entries, noted) \/ AckOnly(entries, noted)
  <2>1. unacked' = entries /\ UNCHANGED <<next_packet_id, failed>>
    BY <1>2 DEF Quiet, AckOnly, Nothing
  <2>2. ASSUME NEW p \in PidsOf(unacked)
        PROVE  p \in PidsOf(entries) \/ \E q \in client.got : q.packet_id = p
    BY <1>1 DEF PidsOf, Kept
  <2> QED BY <1>1, <2>1, <2>2 DEF Accounted, PidsOf
<1>3. ASSUME NEW acks \in Seq(ClientPid), NEW n \in Nat \ {0}, NEW ok \in 0 .. n,
             produced + n <= MaxItems, Sent(entries, acks, n, ok)
      PROVE  Accounted'
  BY <1>1, <1>3, SentAccounted
<1>4. CASE Chunks(entries, noted)
  BY <1>3, <1>4 DEF Chunks
<1>5. CASE ResetSent(entries, noted)
  <2>1. produced + 1 <= MaxItems /\ 1 \in Nat \ {0}
    BY <1>5, ReliabilityAssumption DEF ResetSent, Types, Item
  <2>2. PICK acks \in Seq(ClientPid), ok \in 0 .. 1 : Sent(entries, acks, 1, ok)
    BY <1>5, ResetAcks
  <2> QED BY <1>3, <2>1, <2>2, Zenon
<1> QED BY <1>1, <1>2, <1>4, <1>5

\* The retransmit task gives up or keeps every packet.
LEMMA TickAccounted ==
    ASSUME Types, Accounted, NEW due, RetransmitTick(due)
    PROVE  Accounted'
<1> DEFINE kept == StaleUnacked(due).kept
           stale == StaleUnacked(due).stale
<1>1. /\ unacked' = (kept \ stale) \cup {[u EXCEPT !.attempts = @ + 1] : u \in stale}
      /\ given_up' = given_up \cup PidsOf(unacked \ kept)
      /\ UNCHANGED <<next_packet_id, client, failed>>
  BY DEF RetransmitTick
<1> HIDE DEF kept, stale
<1>2. ASSUME NEW u \in unacked
      PROVE  u.packet.packet_id \in PidsOf(unacked') \cup given_up'
  <2>1. CASE u \notin kept
    BY <1>1, <2>1 DEF PidsOf
  <2>2. CASE u \in kept \ stale
    BY <1>1, <2>2 DEF PidsOf
  <2>3. CASE u \in stale
    <3> DEFINE v == [u EXCEPT !.attempts = @ + 1]
    <3>1. v \in unacked'
      BY <1>1, <2>3
    <3>2. v.packet = u.packet
      BY DEF Types, Unacked
    <3> HIDE DEF v
    <3> QED BY <3>1, <3>2 DEF PidsOf
  <2> QED BY <2>1, <2>2, <2>3
<1>3. PidsOf(unacked) \subseteq PidsOf(unacked') \cup given_up'
  BY <1>2 DEF PidsOf
<1>4. given_up \subseteq given_up'
  BY <1>1
<1>5. PidsOf(unacked)' = PidsOf(unacked')
  BY DEF PidsOf
<1> QED BY <1>1, <1>3, <1>4, <1>5 DEF Accounted

\* Every step keeps the packets accounted for.
LEMMA NextAccounted ==
    ASSUME Types, Accounted, [Next]_vars
    PROVE  Accounted'
<1>1. CASE Handled
  BY <1>1, HandledAccounted
<1>2. CASE \E due \in SUBSET PidsOf(unacked) : RetransmitTick(due)
  BY <1>2, TickAccounted
<1>3. CASE (\E p \in to_client : ClientReceive(p)) \/ ClientSend
  <2>1. UNCHANGED <<next_packet_id, unacked, given_up, failed>>
    BY <1>3 DEF ClientReceive, ClientSend, server, history
  <2>2. client.got \subseteq client'.got
    BY <1>3, ClientGrows
  <2> QED BY <2>1, <2>2 DEF Accounted, PidsOf
<1>4. CASE UNCHANGED vars
  BY <1>4 DEF vars, server, history, Accounted, PidsOf
<1> QED BY <1>1, <1>2, <1>3, <1>4, StepCases

\* Every packet the server made is still waiting to be acknowledged, has
\* reached the client, was given up after its last attempt or failed to be
\* sent; that holds across a wrap of the packet ids as well.
THEOREM PacketsAccounted == Spec => []Accounted
<1>1. Init => Types /\ EnvelopeInv /\ Accounted
  <2>1. Init => Accounted
    <3> SUFFICES ASSUME Init PROVE 0 \in PidsOf(unacked)
      BY DEF Init, Accounted
    <3> DEFINE u == [packet |-> HardResetReply, attempts |-> 1]
    <3>1. u \in unacked /\ u.packet.packet_id = 0
      BY DEF Init, HardResetReply
    <3> QED BY <3>1 DEF PidsOf
  <2> QED BY <2>1, InitTypes
<1>2. Types /\ EnvelopeInv /\ Accounted /\ [Next]_vars
         => Types' /\ EnvelopeInv' /\ Accounted'
  BY NextTypes, NextAccounted
<1> QED BY <1>1, <1>2, PTL DEF Spec

-----------------------------------------------------------------------------
(***************************************************************************)
(* A packet id stands for one packet.                                      *)
(***************************************************************************)
\* Without a wrap the ids of a flush follow one another.
LEMMA SentIds ==
    ASSUME NoWrap, Types, WireInv, NEW acks \in Seq(ClientPid), NEW entries,
           NEW n \in Nat \ {0}, NEW ok \in 0 .. n, produced + n <= MaxItems,
           Sent(entries, acks, n, ok)
    PROVE  /\ \A i \in 1 .. n : /\ Pkt(i, acks).packet_id = next_packet_id + i - 1
                                /\ Pkt(i, acks).packet_id # None
                                /\ Pkt(i, acks).item = produced + i
           /\ next_packet_id' = next_packet_id + Made(ok, n)
           /\ Made(ok, n) \in 0 .. n /\ ok <= Made(ok, n)
           /\ next_packet_id' <= produced'
<1>1. /\ next_packet_id \in Nat /\ produced \in Nat /\ next_packet_id <= produced
      /\ PacketIdSpace \in Nat \ {0} /\ MaxItems \in Nat /\ MaxItems < PacketIdSpace
      /\ None \notin Nat
  BY ReliabilityAssumption DEF Types, PacketId, Item, WireInv, NoWrap
<1>2. Made(ok, n) \in 0 .. n /\ ok <= Made(ok, n)
  BY DEF Made
<1>3. ASSUME NEW i \in 1 .. n
      PROVE  Pkt(i, acks).packet_id = next_packet_id + i - 1
             /\ Pkt(i, acks).item = produced + i
  <2>1. Pkt(i, acks).packet_id = (next_packet_id + i - 1) % PacketIdSpace
        /\ Pkt(i, acks).item = produced + i
    BY PktType
  <2> DEFINE m == next_packet_id + i - 1
  <2>2. m \in Nat /\ m < PacketIdSpace
    BY <1>1
  <2> HIDE DEF m
  <2>3. m % PacketIdSpace = m
    BY <1>1, <2>2, ModFact
  <2> QED BY <2>1, <2>3 DEF m
<1>4. next_packet_id' = next_packet_id + Made(ok, n)
  <2> DEFINE m == next_packet_id + Made(ok, n)
  <2>1. next_packet_id' = m % PacketIdSpace
    BY DEF Sent
  <2>2. m \in Nat /\ m < PacketIdSpace
    BY <1>1, <1>2
  <2> HIDE DEF m
  <2>3. m % PacketIdSpace = m
    BY <1>1, <2>2, ModFact
  <2> QED BY <2>1, <2>3 DEF m
<1>5. produced' = produced + n
  BY DEF Sent
<1>6. \A i \in 1 .. n : next_packet_id + i - 1 \in Nat
  BY <1>1
<1> QED BY <1>1, <1>2, <1>3, <1>4, <1>5, <1>6

\* A flush gives its packets ids of their own.
LEMMA SentWire ==
    ASSUME NoWrap, Types, WireInv, NEW entries \in SUBSET unacked,
           NEW acks \in Seq(ClientPid), NEW n \in Nat \ {0}, NEW ok \in 0 .. n,
           produced + n <= MaxItems, Sent(entries, acks, n, ok), client' = client
    PROVE  WireInv'
<1> DEFINE made == Made(ok, n)
           P == {Pkt(i, acks) : i \in 1 .. ok}
<1>1. /\ \A i \in 1 .. n : /\ Pkt(i, acks).packet_id = next_packet_id + i - 1
                           /\ Pkt(i, acks).packet_id # None
      /\ next_packet_id' = next_packet_id + made
      /\ made \in 0 .. n /\ ok <= made
      /\ next_packet_id' <= produced'
  BY SentIds
<1>2. /\ unacked' = entries \cup {[packet |-> Pkt(i, acks), attempts |-> 1] : i \in 1 .. ok}
      /\ to_client' = to_client \cup P
  BY DEF Sent
<1>3. next_packet_id \in Nat /\ to_client \subseteq Packet
  BY DEF Types, PacketId
<1> HIDE DEF made
<1>4. ASSUME NEW p \in P
      PROVE  \E i \in 1 .. ok : p = Pkt(i, acks) /\ p.packet_id = next_packet_id + i - 1
                                   /\ p.packet_id # None
  BY <1>1
<1> HIDE DEF P
<1>5. ASSUME NEW p \in to_client', p.packet_id # None
      PROVE  p.packet_id < next_packet_id'
  <2>1. CASE p \in to_client
    <3>1. p.packet_id \in Nat /\ p.packet_id < next_packet_id
      BY <1>5, <2>1, TypeFacts DEF WireInv
    <3> QED BY <1>1, <1>3, <3>1
  <2>2. CASE p \in P
    BY <1>1, <1>3, <1>4, <2>2
  <2> QED BY <1>2, <2>1, <2>2
<1>6. ASSUME NEW p \in to_client', NEW q \in to_client',
             p.packet_id # None, p.packet_id = q.packet_id
      PROVE  p = q
  <2>1. \A r \in to_client : r.packet_id # None => r.packet_id \in Nat /\ r.packet_id < next_packet_id
    BY <1>3 DEF WireInv, Packet, PacketId
  <2>2. CASE p \in to_client /\ q \in to_client
    BY <1>6, <2>2 DEF WireInv
  <2>3. CASE p \in P /\ q \in to_client
    BY <1>3, <1>4, <1>6, <2>1, <2>3
  <2>4. CASE p \in to_client /\ q \in P
    BY <1>3, <1>4, <1>6, <2>1, <2>4
  <2>5. CASE p \in P /\ q \in P
    <3>1. PICK i \in 1 .. ok : p = Pkt(i, acks) /\ p.packet_id = next_packet_id + i - 1
      BY <1>4, <2>5
    <3>2. PICK j \in 1 .. ok : q = Pkt(j, acks) /\ q.packet_id = next_packet_id + j - 1
      BY <1>4, <2>5
    <3>3. i = j
      BY <1>3, <1>6, <3>1, <3>2
    <3> QED BY <3>1, <3>2, <3>3
  <2> QED BY <1>2, <2>2, <2>3, <2>4, <2>5
<1>7. ASSUME NEW u \in unacked'
      PROVE  /\ u.packet \in to_client' /\ u.packet.packet_id # None
             /\ \/ u \in unacked /\ u.packet.packet_id \in Nat
                     /\ u.packet.packet_id < next_packet_id
                \/ \E i \in 1 .. ok : u = [packet |-> Pkt(i, acks), attempts |-> 1]
                                         /\ u.packet.packet_id = next_packet_id + i - 1
  <2>1. CASE u \in entries
    <3>1. u \in unacked /\ u.packet \in to_client /\ u.packet.packet_id # None
      BY <2>1 DEF WireInv
    <3>2. u.packet.packet_id < next_packet_id /\ u.packet.packet_id \in Nat
      BY <1>3, <3>1 DEF WireInv, Packet, PacketId
    <3> QED BY <1>2, <3>1, <3>2
  <2>2. CASE u \notin entries
    <3>1. PICK i \in 1 .. ok : u = [packet |-> Pkt(i, acks), attempts |-> 1]
      BY <1>2, <2>2
    <3>2. u.packet = Pkt(i, acks) /\ i \in 1 .. n
      BY <3>1
    <3>3. Pkt(i, acks) \in to_client'
      BY <1>2 DEF P
    <3> QED BY <1>1, <3>1, <3>2, <3>3
  <2> QED BY <2>1, <2>2
<1>8. ASSUME NEW u \in unacked', NEW v \in unacked',
             u.packet.packet_id = v.packet.packet_id
      PROVE  u = v
  <2>1. CASE u \in unacked /\ v \in unacked
    BY <1>8, <2>1 DEF WireInv
  <2>2. CASE u \notin unacked /\ v \notin unacked
    <3>1. PICK i \in 1 .. ok : u = [packet |-> Pkt(i, acks), attempts |-> 1]
                                  /\ u.packet.packet_id = next_packet_id + i - 1
      BY <1>7, <2>2
    <3>2. PICK j \in 1 .. ok : v = [packet |-> Pkt(j, acks), attempts |-> 1]
                                  /\ v.packet.packet_id = next_packet_id + j - 1
      BY <1>7, <2>2
    <3>3. i = j
      BY <1>3, <1>8, <3>1, <3>2
    <3> QED BY <3>1, <3>2, <3>3
  <2>3. CASE u \in unacked /\ v \notin unacked
    <3>1. PICK i \in 1 .. ok : v.packet.packet_id = next_packet_id + i - 1
      BY <1>7, <2>3
    <3>2. u.packet.packet_id # next_packet_id + i - 1
      <4>1. u.packet.packet_id \in Nat /\ u.packet.packet_id < next_packet_id
        BY <2>3, <1>3 DEF WireInv, Packet, PacketId
      <4> QED BY <1>3, <4>1
    <3> QED BY <1>8, <3>1, <3>2
  <2>4. CASE u \notin unacked /\ v \in unacked
    <3>1. PICK i \in 1 .. ok : u.packet.packet_id = next_packet_id + i - 1
      BY <1>7, <2>4
    <3>2. v.packet.packet_id # next_packet_id + i - 1
      <4>1. v.packet.packet_id \in Nat /\ v.packet.packet_id < next_packet_id
        BY <2>4, <1>3 DEF WireInv, Packet, PacketId
      <4> QED BY <1>3, <4>1
    <3> QED BY <1>8, <3>1, <3>2
  <2> QED BY <2>1, <2>2, <2>3, <2>4
<1>9. \A q \in client'.got : q.packet_id # None
  BY DEF WireInv
<1> QED BY <1>1, <1>5, <1>6, <1>7, <1>8, <1>9 DEF WireInv

\* A handler keeps packets and ids in step.
LEMMA HandledWire ==
    ASSUME NoWrap, Types, WireInv, Handled
    PROVE  WireInv'
<1>1. PICK entries \in SUBSET unacked, pids \in SUBSET ClientPid,
           noted \in Seq(ClientPid) :
         /\ UNCHANGED <<given_up, client>>
         /\ \/ Quiet(entries, noted) \/ AckOnly(entries, noted)
            \/ Chunks(entries, noted) \/ ResetSent(entries, noted)
  BY DEF Handled
<1>2. CASE Quiet(entries, noted) \/ AckOnly(entries, noted)
  <2>1. unacked' = entries /\ UNCHANGED <<next_packet_id, produced>>
    BY <1>2 DEF Quiet, AckOnly, Nothing
  <2>2. to_client \subseteq to_client' /\ to_client' \subseteq to_client \cup {MakeAck(noted)}
    BY <1>2 DEF Quiet, AckOnly, Nothing, SendAck
  <2>3. MakeAck(noted).packet_id = None
    BY DEF MakeAck
  <2>4. \A p \in to_client' : p.packet_id # None => p \in to_client
    BY <2>2, <2>3
  <2> QED BY <1>1, <2>1, <2>2, <2>4 DEF WireInv
<1>3. ASSUME NEW acks \in Seq(ClientPid), NEW n \in Nat \ {0}, NEW ok \in 0 .. n,
             produced + n <= MaxItems, Sent(entries, acks, n, ok)
      PROVE  WireInv'
  BY <1>1, <1>3, SentWire
<1>4. CASE Chunks(entries, noted)
  BY <1>3, <1>4 DEF Chunks
<1>5. CASE ResetSent(entries, noted)
  <2>1. produced + 1 <= MaxItems /\ 1 \in Nat \ {0}
    BY <1>5, ReliabilityAssumption DEF ResetSent, Types, Item
  <2>2. PICK acks \in Seq(ClientPid), ok \in 0 .. 1 : Sent(entries, acks, 1, ok)
    BY <1>5, ResetAcks
  <2> QED BY <1>3, <2>1, <2>2, Zenon
<1> QED BY <1>1, <1>2, <1>4, <1>5

\* What is unacked after a tick was unacked before it, as the same packet.
LEMMA TickPackets ==
    ASSUME Types, NEW due, RetransmitTick(due), NEW v \in unacked'
    PROVE  \E u \in unacked :
              /\ u.packet = v.packet
              /\ v = u \/ v = [u EXCEPT !.attempts = @ + 1]
              /\ v = u => u \notin StaleUnacked(due).stale
              /\ v # u => u \in StaleUnacked(due).stale
<1> DEFINE kept == StaleUnacked(due).kept
           stale == StaleUnacked(due).stale
<1>1. unacked' = (kept \ stale) \cup {[u EXCEPT !.attempts = @ + 1] : u \in stale}
  BY DEF RetransmitTick
<1>2. kept \subseteq unacked /\ stale \subseteq unacked
  BY DEF StaleUnacked
<1> HIDE DEF kept, stale
<1>3. CASE v \in kept \ stale
  BY <1>2, <1>3 DEF stale
<1>4. ASSUME NEW u \in stale, v = [u EXCEPT !.attempts = @ + 1]
      PROVE  u \in unacked /\ u.packet = v.packet /\ v # u
  <2>1. u \in unacked /\ u \in Unacked
    BY <1>2 DEF Types
  <2>2. v.attempts = u.attempts + 1 /\ u.attempts \in Nat /\ u.packet = v.packet
    BY <1>4, <2>1, ReliabilityAssumption DEF Unacked
  <2> QED BY <2>1, <2>2
<1> QED BY <1>1, <1>3, <1>4 DEF stale

\* The other steps send no new packet.
LEMMA NextWire ==
    ASSUME NoWrap, Types, WireInv, [Next]_vars
    PROVE  WireInv'
<1>1. CASE Handled
  BY <1>1, HandledWire
<1>2. ASSUME NEW due, RetransmitTick(due) PROVE WireInv'
  <2>1. UNCHANGED <<next_packet_id, produced, to_client, client>>
    BY <1>2 DEF RetransmitTick
  <2>2. \A v \in unacked' : v.packet \in to_client' /\ v.packet.packet_id # None
    BY <1>2, <2>1, TickPackets DEF WireInv
  <2>3. ASSUME NEW v \in unacked', NEW w \in unacked',
               v.packet.packet_id = w.packet.packet_id
        PROVE  v = w
    <3> DEFINE stale == StaleUnacked(due).stale
    <3>1. PICK u \in unacked :
             /\ u.packet = v.packet
             /\ v = u \/ v = [u EXCEPT !.attempts = @ + 1]
             /\ v = u => u \notin stale
             /\ v # u => u \in stale
      BY <1>2, TickPackets
    <3>2. PICK x \in unacked :
             /\ x.packet = w.packet
             /\ w = x \/ w = [x EXCEPT !.attempts = @ + 1]
             /\ w = x => x \notin stale
             /\ w # x => x \in stale
      BY <1>2, TickPackets
    <3> HIDE DEF stale
    <3>3. u = x
      BY <2>3, <3>1, <3>2 DEF WireInv
    <3> QED BY <3>1, <3>2, <3>3
  <2> QED BY <2>1, <2>2, <2>3 DEF WireInv
<1>3. CASE (\E p \in to_client : ClientReceive(p)) \/ ClientSend
  <2>1. UNCHANGED <<next_packet_id, unacked, produced, to_client>>
    BY <1>3 DEF ClientReceive, ClientSend, server, history
  <2>2. \A q \in client'.got : q.packet_id # None
    <3>1. CASE \E p \in to_client : ClientReceive(p)
      <4>1. PICK p \in to_client : ClientReceive(p)
        BY <3>1
      <4>2. client'.got \subseteq client.got \cup {p}
            /\ (p.packet_id = None => client'.got = client.got)
        BY <4>1 DEF ClientReceive, Types
      <4> QED BY <4>2 DEF WireInv
    <3>2. CASE ClientSend
      <4>1. client'.got = client.got
        BY <3>2 DEF ClientSend, Types
      <4> QED BY <4>1 DEF WireInv
    <3> QED BY <1>3, <3>1, <3>2
  <2> QED BY <2>1, <2>2 DEF WireInv
<1>4. CASE UNCHANGED vars
  BY <1>4 DEF vars, server, history, WireInv
<1> QED BY <1>1, <1>2, <1>3, <1>4, StepCases

=============================================================================
