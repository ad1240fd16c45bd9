-------------------------- MODULE ControlStreamProofs --------------------------
(***************************************************************************)
(* Proofs about ControlReliability, continued: the ACKs the session owes,  *)
(* and the stream its packets make up.  The first part is in               *)
(* ControlReliabilityProofs.                                               *)
(***************************************************************************)
EXTENDS ControlReliabilityProofs

\* An ACK is for a packet the client sent, and unless that was a reset the ACK
\* was taken from pending_acks, where it will not be again.
Settled(a) ==
    /\ a \in ClientSent
    /\ OpOf(a) = "ControlV1" => a \in received_pids \ Range(pending_acks)

\* ACKs are owed once, and those that went out are settled; the client keeps to
\* its window.
AckInv ==
    /\ IsInjective(pending_acks)
    /\ Range(pending_acks) \subseteq received_pids
    /\ received_pids \subseteq ClientSent
    /\ \A p \in to_client : \A a \in Range(p.acks) : Settled(a)
    /\ \A a \in client.acked : Settled(a)
    /\ \A q \in client.got : Range(q.acks) \subseteq client.acked
    /\ client.next_pid - Cardinality(client.acked) <= Window

\* Items and packet ids go together until a send fails; a packet whose send
\* failed is never on the wire.
StreamInv ==
    /\ failed = {} => next_packet_id = produced
    /\ \A f \in failed : f < next_packet_id
                            /\ \A p \in to_client : p.packet_id # f
    /\ \A p \in to_client :
          p.packet_id # None =>
             p.item = p.packet_id + 1 \/ \E f \in failed : f < p.packet_id

\* The ACKs of a packet are as many as the client's window and resets allow.
FitInv == \A p \in to_client : Len(p.acks) <= Window + Cardinality(Resets)

-----------------------------------------------------------------------------
(***************************************************************************)
(* ACKs.                                                                   *)
(***************************************************************************)
\* The ACKs on the packets that a handler sends: none, those that were
\* pending and no longer are, or that of a reset.
LEMMA HandledAcks ==
    ASSUME NEW entries \in SUBSET unacked, NEW noted \in Seq(ClientPid),
           \/ Quiet(entries, noted) \/ AckOnly(entries, noted)
           \/ Chunks(entries, noted) \/ ResetSent(entries, noted)
    PROVE  /\ pending_acks' \in {noted, <<>>}
           /\ to_client \subseteq to_client'
           /\ \A p \in to_client' :
                 \/ p \in to_client
                 \/ p.acks = <<>>
                 \/ p.acks = noted /\ pending_acks' = <<>>
                 \/ \E pid \in Resets \cap received_pids' : p.acks = <<pid>>
<1>1. CASE Quiet(entries, noted)
  BY <1>1 DEF Quiet, Nothing
<1>2. CASE AckOnly(entries, noted)
  BY <1>2 DEF AckOnly, SendAck, MakeAck
<1>3. ASSUME NEW acks, NEW n, NEW ok, Sent(entries, acks, n, ok)
      PROVE  /\ to_client \subseteq to_client'
             /\ \A p \in to_client' : p \in to_client \/ p.acks \in {acks, <<>>}
  <2>1. to_client' = to_client \cup {Pkt(i, acks) : i \in 1 .. ok}
    BY <1>3 DEF Sent
  <2>2. \A i \in 1 .. ok : Pkt(i, acks).acks \in {acks, <<>>}
    BY DEF Pkt
  <2> QED BY <2>1, <2>2
<1>4. CASE Chunks(entries, noted)
  <2>1. PICK n \in 1 .. MaxChunks : \E ok \in 0 .. n : Sent(entries, noted, n, ok)
    BY <1>4 DEF Chunks
  <2>2. pending_acks' = <<>>
    BY <1>4 DEF Chunks
  <2> QED BY <1>3, <2>1, <2>2
<1>5. CASE ResetSent(entries, noted)
  <2>1. pending_acks' = noted
    BY <1>5 DEF ResetSent
  <2>2. PICK ok \in 0 .. 1 :
           \/ Sent(entries, <<>>, 1, ok)
           \/ \E pid \in Resets \cap received_pids' : Sent(entries, <<pid>>, 1, ok)
    BY <1>5 DEF ResetSent
  <2>3. CASE Sent(entries, <<>>, 1, ok)
    <3>1. /\ to_client \subseteq to_client'
          /\ \A p \in to_client' : p \in to_client \/ p.acks \in {<<>>, <<>>}
      BY <1>3, <2>3, Zenon
    <3> QED BY <2>1, <3>1
  <2>4. ASSUME NEW pid \in Resets \cap received_pids', Sent(entries, <<pid>>, 1, ok)
        PROVE  /\ to_client \subseteq to_client'
               /\ \A p \in to_client' : p \in to_client \/ p.acks \in {<<pid>>, <<>>}
    BY <1>3, <2>4, Zenon
  <2> QED BY <2>1, <2>2, <2>3, <2>4
<1> QED BY <1>1, <1>2, <1>4, <1>5

\* The client has as many packets outstanding as its window allows, and an ACK
\* that is pending is for one of them or for a reset.
LEMMA PendingBound ==
    ASSUME Types, AckInv, NEW pids, NEW noted, Noted(pids, noted)
    PROVE  Len(noted) <= Window + Cardinality(Resets)
<1> DEFINE S == Range(noted)
           A == ClientSent \ client.acked
<1>1. noted \in Seq(ClientPid) /\ IsInjective(noted)
  BY DEF Noted, AckInv
<1>2. Cardinality(S) = Len(noted)
  <2>1. noted \in Bijection(1 .. Len(noted), S)
    <3>1. DOMAIN noted = 1 .. Len(noted) /\ noted \in [1 .. Len(noted) -> S]
      BY <1>1 DEF Range
    <3>2. \A t \in S : \E s \in 1 .. Len(noted) : noted[s] = t
      BY <3>1 DEF Range
    <3> HIDE DEF S
    <3> QED BY <1>1, <3>1, <3>2 DEF Bijection, Injection, Surjection
  <2>2. Len(noted) \in Nat
    BY <1>1
  <2> HIDE DEF S
  <2> QED BY <2>1, <2>2, FS_CountingElements DEF ExistsBijection
<1>3. client.next_pid \in Nat \ {0} /\ Len(ClientScript) \in Nat
  BY ReliabilityAssumption DEF Types
<1>4. IsFiniteSet(ClientSent) /\ Cardinality(ClientSent) = client.next_pid
  <2> DEFINE b == client.next_pid - 1
  <2>1. 0 \in Int /\ b \in Int /\ ~(0 > b) /\ b - 0 + 1 = client.next_pid
    BY <1>3
  <2>2. ClientSent = 0 .. b
    BY DEF ClientSent
  <2> HIDE DEF b
  <2> QED BY <2>1, <2>2, FS_Interval
<1>5. client.acked \subseteq ClientSent
  BY DEF AckInv, Settled
<1>6. /\ IsFiniteSet(client.acked) /\ Cardinality(client.acked) \in Nat
      /\ IsFiniteSet(A) /\ Cardinality(A) = client.next_pid - Cardinality(client.acked)
  <2>1. IsFiniteSet(client.acked) /\ IsFiniteSet(A)
    BY <1>4, <1>5, FS_Subset
  <2>2. ClientSent \cap client.acked = client.acked
    BY <1>5
  <2>3. Cardinality(A) = Cardinality(ClientSent) - Cardinality(ClientSent \cap client.acked)
    BY <1>4, <2>1, FS_Difference
  <2> QED BY <1>4, <2>1, <2>2, <2>3, FS_CardinalityType
<1>7. IsFiniteSet(Resets)
  <2>1. IsFiniteSet(ClientPid)
    BY <1>3, FS_Interval DEF ClientPid
  <2> QED BY <2>1, FS_Subset DEF Resets
<1>8. S \subseteq A \cup Resets
  <2> SUFFICES ASSUME NEW a \in S PROVE a \in A \cup Resets
    OBVIOUS
  <2>1. a \in Range(pending_acks) \cup (pids \ received_pids)
    BY DEF Noted
  <2>2. a \in ClientSent
    BY <2>1 DEF Noted, AckInv
  <2>3. a \in ClientPid
    BY <1>3, <2>2, ReliabilityAssumption DEF ClientSent, ClientPid, Types
  <2>4. CASE a \in client.acked
    <3>1. OpOf(a) = "ControlV1" => a \in received_pids \ Range(pending_acks)
      BY <2>4 DEF AckInv, Settled
    <3>2. OpOf(a) # "ControlV1"
      BY <2>1, <3>1
    <3> QED BY <2>3, <3>2 DEF Resets
  <2>5. CASE a \notin client.acked
    BY <2>2, <2>5
  <2> QED BY <2>4, <2>5
<1> HIDE DEF S, A
<1>9. Cardinality(S) <= Cardinality(A \cup Resets) /\ IsFiniteSet(A \cup Resets)
  BY <1>6, <1>7, <1>8, FS_Subset, FS_Union
<1>10. /\ Cardinality(A \cup Resets)
            = Cardinality(A) + Cardinality(Resets) - Cardinality(A \cap Resets)
       /\ Cardinality(A \cap Resets) \in Nat /\ Cardinality(A) \in Nat
       /\ Cardinality(Resets) \in Nat
  <2>1. IsFiniteSet(A \cap Resets)
    BY <1>7, FS_Subset
  <2> QED BY <1>6, <1>7, <2>1, FS_Union, FS_CardinalityType
<1>11. Cardinality(A) <= Window
  BY <1>6 DEF AckInv
<1>12. Len(noted) \in Nat /\ Window \in Nat
  BY <1>1, ReliabilityAssumption
<1> QED BY <1>2, <1>9, <1>10, <1>11, <1>12

\* A handler keeps the ACKs in order, and their number within its limit.
LEMMA HandledAckInv ==
    ASSUME Types, AckInv, FitInv, Handled
    PROVE  AckInv' /\ FitInv'
<1>1. PICK entries \in SUBSET unacked, pids \in SUBSET ClientPid,
           noted \in Seq(ClientPid) :
         /\ Noted(pids, noted)
         /\ UNCHANGED <<given_up, client>>
         /\ \/ Quiet(entries, noted) \/ AckOnly(entries, noted)
            \/ Chunks(entries, noted) \/ ResetSent(entries, noted)
  BY DEF Handled
<1>2. /\ pending_acks' \in {noted, <<>>}
      /\ to_client \subseteq to_client'
      /\ \A p \in to_client' :
            \/ p \in to_client
            \/ p.acks = <<>>
            \/ p.acks = noted /\ pending_acks' = <<>>
            \/ \E pid \in Resets \cap received_pids' : p.acks = <<pid>>
  BY <1>1, HandledAcks
<1>3. Range(<<>>) = {} /\ IsInjective(<<>>) /\ \A x : Range(<<x>>) = {x}
  BY DEF Range, IsInjective
<1>4. /\ received_pids' = received_pids \cup pids
      /\ Range(noted) = Range(pending_acks) \cup (pids \ received_pids)
      /\ IsInjective(noted) /\ pids \subseteq ClientSent
      /\ Range(pending_acks) \subseteq received_pids
      /\ received_pids \subseteq ClientSent
  BY <1>1 DEF Noted, AckInv
<1>5. client' = client /\ ClientSent' = ClientSent
  BY <1>1 DEF ClientSent
<1>6. IsInjective(pending_acks') /\ Range(pending_acks') \subseteq received_pids'
  BY <1>2, <1>3, <1>4
<1>7. received_pids' \subseteq ClientSent'
  BY <1>4, <1>5
<1>8. \A a : OpOf(a)' = OpOf(a)
  BY DEF OpOf
<1>9. ASSUME NEW a, Settled(a) PROVE Settled(a)'
  <2>1. a \in ClientSent'
    BY <1>5, <1>9 DEF Settled
  <2>2. ASSUME OpOf(a) = "ControlV1"
        PROVE  a \in received_pids' /\ a \notin Range(pending_acks')
    <3>1. a \in received_pids /\ a \notin Range(pending_acks)
      BY <1>9, <2>2 DEF Settled
    <3> QED BY <1>2, <1>3, <1>4, <3>1
  <2>3. Range(pending_acks)' = Range(pending_acks')
    BY DEF Range
  <2> QED BY <1>8, <2>1, <2>2, <2>3 DEF Settled
<1>10. ASSUME NEW p \in to_client', NEW a \in Range(p.acks) PROVE Settled(a)'
  <2>1. CASE p \in to_client
    BY <1>9, <2>1 DEF AckInv
  <2>2. CASE p.acks = noted /\ pending_acks' = <<>>
    <3>1. a \in received_pids' /\ a \notin Range(pending_acks')
      BY <1>3, <1>4, <2>2
    <3>2. a \in ClientSent'
      BY <1>7, <3>1
    <3>3. Range(pending_acks)' = Range(pending_acks')
      BY DEF Range
    <3> QED BY <3>1, <3>2, <3>3 DEF Settled
  <2>3. ASSUME NEW pid \in Resets \cap received_pids', p.acks = <<pid>>
        PROVE  Settled(a)'
    <3>1. a = pid
      BY <1>3, <2>3
    <3>2. OpOf(a) # "ControlV1" /\ a \in ClientSent'
      BY <1>7, <3>1 DEF Resets
    <3> QED BY <1>8, <3>2 DEF Settled
  <2> QED BY <1>2, <1>3, <2>1, <2>2, <2>3
<1>11. \A a \in client'.acked : Settled(a)'
  BY <1>5, <1>9 DEF AckInv
<1>12. /\ \A q \in client'.got : Range(q.acks) \subseteq client'.acked
       /\ client'.next_pid - Cardinality(client'.acked) <= Window
  BY <1>5 DEF AckInv
<1>13. FitInv'
  <2>1. Len(noted) <= Window + Cardinality(Resets)
    BY <1>1, PendingBound
  <2>2. Cardinality(Resets) \in Nat /\ Window \in Nat \ {0}
    <3>1. IsFiniteSet(ClientPid)
      BY ReliabilityAssumption, FS_Interval DEF ClientPid
    <3>2. IsFiniteSet(Resets)
      BY <3>1, FS_Subset DEF Resets
    <3> QED BY <3>2, FS_CardinalityType, ReliabilityAssumption
  <2>3. Len(<<>>) = 0 /\ \A x : Len(<<x>>) = 1
    OBVIOUS
  <2>4. Cardinality(Resets)' = Cardinality(Resets)
    BY DEF Resets, OpOf
  <2>5. ASSUME NEW p \in to_client'
        PROVE  Len(p.acks) <= Window + Cardinality(Resets)
    <3>1. CASE p \in to_client
      BY <3>1 DEF FitInv
    <3>2. CASE p.acks = <<>> \/ \E x : p.acks = <<x>>
      <4>1. Len(p.acks) \in {0, 1}
        BY <2>3, <3>2, Zenon
      <4>2. \A k \in {0, 1} : k <= Window + Cardinality(Resets)
        BY <2>2
      <4> QED BY <4>1, <4>2, Zenon
    <3> QED BY <1>2, <2>1, <3>1, <3>2
  <2> QED BY <2>4, <2>5 DEF FitInv
<1>14. Range(pending_acks)' = Range(pending_acks') /\ IsInjective(pending_acks)' = IsInjective(pending_acks')
  BY DEF Range, IsInjective
<1>15. \A p : Range(p.acks)' = Range(p.acks)
  BY DEF Range
<1> QED BY <1>6, <1>7, <1>10, <1>11, <1>12, <1>13, <1>14, <1>15 DEF AckInv

\* The client knows only ACKs that were sent to it, and keeps to its window.
LEMMA ClientAckInv ==
    ASSUME Types, AckInv, FitInv,
           \/ \E p \in to_client : ClientReceive(p)
           \/ ClientSend
    PROVE  AckInv' /\ FitInv'
<1>1. UNCHANGED <<pending_acks, received_pids, to_client>>
  BY DEF ClientReceive, ClientSend, server
<1>2. FitInv'
  BY <1>1 DEF FitInv, Resets, OpOf
<1>3. \A a : OpOf(a)' = OpOf(a)
  BY DEF OpOf
<1>4. Len(ClientScript) \in Nat
  BY ReliabilityAssumption
<1>5. CASE \E p \in to_client : ClientReceive(p)
  <2>1. PICK p \in to_client : ClientReceive(p)
    BY <1>5
  <2>2. /\ client'.acked = client.acked \cup Range(p.acks)
        /\ client'.got \subseteq client.got \cup {p}
        /\ client'.next_pid = client.next_pid
    BY <2>1 DEF ClientReceive, Types
  <2>3. \A a : Settled(a)' = Settled(a)
    BY <1>1, <1>3, <2>2 DEF Settled, ClientSent, Range
  <2>4. \A a \in client'.acked : Settled(a)
    BY <2>2 DEF AckInv
  <2>5. client'.next_pid - Cardinality(client'.acked) <= Window
    <3>1. client'.acked \subseteq ClientPid /\ client.acked \subseteq client'.acked
      BY <2>2, ClientTypes DEF Types
    <3>2. IsFiniteSet(ClientPid)
      BY <1>4, FS_Interval DEF ClientPid
    <3>3. IsFiniteSet(client'.acked)
      BY <3>1, <3>2, FS_Subset
    <3>4. IsFiniteSet(client.acked) /\ Cardinality(client.acked) <= Cardinality(client'.acked)
      BY <3>1, <3>3, FS_Subset
    <3>5. Cardinality(client.acked) \in Nat /\ Cardinality(client'.acked) \in Nat
      BY <3>3, <3>4, FS_CardinalityType
    <3>6. client.next_pid - Cardinality(client.acked) <= Window
      BY DEF AckInv
    <3>7. client.next_pid \in Nat /\ Window \in Nat
      BY <1>4, ReliabilityAssumption DEF Types
    <3> QED BY <2>2, <3>4, <3>5, <3>6, <3>7
  <2>6. \A q \in client'.got : Range(q.acks) \subseteq client'.acked
    BY <2>2 DEF AckInv
  <2>7. received_pids' \subseteq ClientSent'
    BY <1>1, <2>2 DEF AckInv, ClientSent
  <2> QED BY <1>1, <1>2, <2>3, <2>4, <2>5, <2>6, <2>7 DEF AckInv, Range, IsInjective
<1>6. CASE ClientSend
  <2>1. /\ client'.acked = client.acked /\ client'.got = client.got
        /\ client'.next_pid = client.next_pid + 1
        /\ client.next_pid - Cardinality(client.acked) < Window
    BY <1>6 DEF ClientSend, Types
  <2>2. client.next_pid \in Nat
    BY <1>4 DEF Types
  <2>3. ClientSent \subseteq ClientSent'
    BY <2>1, <2>2 DEF ClientSent
  <2>4. \A a : Settled(a) => Settled(a)'
    BY <1>1, <1>3, <2>3 DEF Settled, Range
  <2>5. client'.next_pid - Cardinality(client'.acked) <= Window
    <3>1. IsFiniteSet(ClientPid)
      BY <1>4, FS_Interval DEF ClientPid
    <3>2. IsFiniteSet(client.acked)
      BY <3>1, FS_Subset DEF Types
    <3>3. Cardinality(client.acked) \in Nat
      BY <3>2, FS_CardinalityType
    <3>4. Window \in Nat
      BY ReliabilityAssumption
    <3> QED BY <2>1, <2>2, <3>3, <3>4
  <2> QED BY <1>1, <1>2, <2>1, <2>3, <2>4, <2>5 DEF AckInv, Range, IsInjective
<1> QED BY <1>5, <1>6

\* Every step keeps the ACKs in order.
LEMMA NextAckInv ==
    ASSUME Types, AckInv, FitInv, [Next]_vars
    PROVE  AckInv' /\ FitInv'
<1>1. CASE Handled
  BY <1>1, HandledAckInv
<1>2. CASE (\E p \in to_client : ClientReceive(p)) \/ ClientSend
  BY <1>2, ClientAckInv
<1>3. CASE (\E due \in SUBSET PidsOf(unacked) : RetransmitTick(due)) \/ UNCHANGED vars
  <2>1. UNCHANGED <<pending_acks, received_pids, to_client, client>>
    BY <1>3 DEF RetransmitTick, vars, server
  <2>2. FitInv'
    BY <2>1 DEF FitInv, Resets, OpOf
  <2>3. \A a : Settled(a)' = Settled(a)
    BY <2>1 DEF Settled, ClientSent, OpOf, Range
  <2> QED BY <2>1, <2>2, <2>3 DEF AckInv, ClientSent, Range, IsInjective
<1> QED BY <1>1, <1>2, <1>3, StepCases

\* A handler loses track of no ACK: what it takes from pending_acks it puts on
\* a packet, and a packet that it forgets has brought its ACKs to the client.
LEMMA HandledAcksAccounted ==
    ASSUME Types, WireInv, AckInv, AcksAccounted, Handled
    PROVE  AcksAccounted'
<1>1. PICK entries \in SUBSET unacked, pids \in SUBSET ClientPid,
           noted \in Seq(ClientPid) :
         /\ Kept(entries) /\ Noted(pids, noted)
         /\ UNCHANGED <<given_up, client>>
         /\ \/ Quiet(entries, noted) \/ AckOnly(entries, noted)
            \/ Chunks(entries, noted) \/ ResetSent(entries, noted)
  BY DEF Handled
<1>2. /\ received_pids' = received_pids \cup pids
      /\ Range(noted) = Range(pending_acks) \cup (pids \ received_pids)
      /\ client' = client
  BY <1>1 DEF Noted
<1>3. AcksOf(unacked) \subseteq AcksOf(entries) \cup client.acked
  <2> SUFFICES ASSUME NEW u \in unacked, u \notin entries
               PROVE  Range(u.packet.acks) \subseteq client.acked
    BY DEF AcksOf
  <2>1. PICK q \in client.got : q.packet_id = u.packet.packet_id
    BY <1>1 DEF Kept
  <2>2. q \in to_client /\ u.packet \in to_client /\ u.packet.packet_id # None
    BY DEF Types, WireInv
  <2>3. q = u.packet
    BY <2>1, <2>2 DEF WireInv
  <2> QED BY <2>3 DEF AckInv
<1>4. received_pids' \subseteq Range(noted) \cup AcksOf(entries) \cup client.acked \cup untracked
  BY <1>2, <1>3 DEF AcksAccounted
<1> SUFFICES /\ AcksOf(entries) \subseteq AcksOf(unacked')
             /\ untracked \subseteq untracked'
             /\ Range(noted) \subseteq Range(pending_acks') \cup AcksOf(unacked') \cup untracked'
  BY <1>2, <1>4 DEF AcksAccounted, AcksOf, Range
<1>5. CASE Quiet(entries, noted)
  BY <1>5 DEF Quiet, Nothing
<1>6. CASE AckOnly(entries, noted)
  BY <1>6 DEF AckOnly, SendAck
<1>7. ASSUME NEW acks, NEW n, NEW ok, Sent(entries, acks, n, ok)
      PROVE  AcksOf(entries) \subseteq AcksOf(unacked') /\ untracked \subseteq untracked'
  BY <1>7 DEF Sent, AcksOf
<1>8. CASE Chunks(entries, noted)
  <2>1. PICK n \in 1 .. MaxChunks : \E ok \in 0 .. n : Sent(entries, noted, n, ok)
    BY <1>8 DEF Chunks
  <2>2. PICK ok \in 0 .. n : Sent(entries, noted, n, ok)
    BY <2>1
  <2>3. CASE ok = 0
    BY <1>7, <2>2, <2>3 DEF Sent
  <2>4. CASE ok # 0
    <3> DEFINE u == [packet |-> Pkt(1, noted), attempts |-> 1]
    <3>1. u \in unacked'
      <4>1. 1 \in 1 .. ok
        BY <2>4, ReliabilityAssumption
      <4>2. unacked' = entries \cup {[packet |-> Pkt(i, noted), attempts |-> 1] : i \in 1 .. ok}
        BY <2>2 DEF Sent
      <4> QED BY <4>1, <4>2
    <3>2. u.packet.acks = noted
      BY DEF Pkt
    <3> HIDE DEF u
    <3>3. Range(noted) \subseteq AcksOf(unacked')
      BY <3>1, <3>2 DEF AcksOf
    <3> QED BY <1>7, <2>2, <3>3
  <2> QED BY <2>3, <2>4
<1>9. CASE ResetSent(entries, noted)
  <2>1. PICK acks \in Seq(ClientPid), ok \in 0 .. 1 : Sent(entries, acks, 1, ok)
    BY <1>9, ResetAcks
  <2>2. pending_acks' = noted
    BY <1>9 DEF ResetSent
  <2>3. AcksOf(entries) \subseteq AcksOf(unacked') /\ untracked \subseteq untracked'
    BY <1>7, <2>1, Zenon
  <2> QED BY <2>2, <2>3
<1> QED BY <1>1, <1>5, <1>6, <1>8, <1>9

\* Every step keeps the ACKs accounted for.
LEMMA NextAcksAccounted ==
    ASSUME Types, WireInv, AckInv, AcksAccounted, [Next]_vars
    PROVE  AcksAccounted'
<1>1. CASE Handled
  BY <1>1, HandledAcksAccounted
<1>2. ASSUME NEW due, RetransmitTick(due) PROVE AcksAccounted'
  <2> DEFINE kept == StaleUnacked(due).kept
             stale == StaleUnacked(due).stale
  <2>1. /\ unacked' = (kept \ stale) \cup {[u EXCEPT !.attempts = @ + 1] : u \in stale}
        /\ untracked' = untracked \cup AcksOf(unacked \ kept)
        /\ UNCHANGED <<pending_acks, received_pids, client>>
    BY <1>2 DEF RetransmitTick
  <2> HIDE DEF kept, stale
  <2>2. ASSUME NEW u \in unacked
        PROVE  Range(u.packet.acks) \subseteq AcksOf(unacked') \cup untracked'
    <3>1. CASE u \notin kept
      BY <2>1, <3>1 DEF AcksOf
    <3>2. CASE u \in kept \ stale
      BY <2>1, <3>2 DEF AcksOf
    <3>3. CASE u \in stale
      <4> DEFINE v == [u EXCEPT !.attempts = @ + 1]
      <4>1. v \in unacked'
        BY <2>1, <3>3
      <4>2. v.packet = u.packet
        BY DEF Types, Unacked
      <4> HIDE DEF v
      <4> QED BY <4>1, <4>2 DEF AcksOf
    <3> QED BY <3>1, <3>2, <3>3
  <2>3. AcksOf(unacked) \subseteq AcksOf(unacked') \cup untracked'
    BY <2>2 DEF AcksOf
  <2>4. AcksOf(unacked)' = AcksOf(unacked') /\ Range(pending_acks)' = Range(pending_acks)
    BY <2>1 DEF AcksOf, Range
  <2> QED BY <2>1, <2>3, <2>4 DEF AcksAccounted
<1>3. CASE (\E p \in to_client : ClientReceive(p)) \/ ClientSend
  <2>1. UNCHANGED <<pending_acks, received_pids, unacked, untracked>>
    BY <1>3 DEF ClientReceive, ClientSend, server, history
  <2>2. client.acked \subseteq client'.acked
    BY <1>3, ClientGrows
  <2> QED BY <2>1, <2>2 DEF AcksAccounted, AcksOf, Range
<1>4. CASE UNCHANGED vars
  BY <1>4 DEF vars, server, history, AcksAccounted, AcksOf, Range
<1> QED BY <1>1, <1>2, <1>3, <1>4, StepCases

-----------------------------------------------------------------------------
(***************************************************************************)
(* The stream.                                                             *)
(***************************************************************************)
\* A flush keeps items and ids in step, unless a send fails.
LEMMA SentStream ==
    ASSUME NoWrap, Types, WireInv, StreamInv, NEW entries \in SUBSET unacked,
           NEW acks \in Seq(ClientPid), NEW n \in Nat \ {0}, NEW ok \in 0 .. n,
           produced + n <= MaxItems, Sent(entries, acks, n, ok)
    PROVE  StreamInv'
<1> DEFINE made == Made(ok, n)
           P == {Pkt(i, acks) : i \in 1 .. ok}
           F == {Pkt(i, acks).packet_id : i \in (ok + 1) .. made}
<1>1. /\ \A i \in 1 .. n : /\ Pkt(i, acks).packet_id = next_packet_id + i - 1
                           /\ Pkt(i, acks).item = produced + i
      /\ next_packet_id' = next_packet_id + made
      /\ made \in 0 .. n /\ ok <= made
  BY SentIds
<1>2. made = ok => ok = n
  BY DEF Made
<1>3. /\ to_client' = to_client \cup P
      /\ failed' = failed \cup F
      /\ produced' = produced + n
  BY DEF Sent
<1>4. /\ next_packet_id \in Nat /\ produced \in Nat /\ failed \subseteq Nat
      /\ None \notin Nat
      /\ \A p \in to_client : p.packet_id # None =>
            p.packet_id \in Nat /\ p.packet_id < next_packet_id
  BY TypeFacts DEF WireInv
<1> HIDE DEF made
<1>5. \A p \in P : \E i \in 1 .. ok : /\ p.packet_id = next_packet_id + i - 1
                                      /\ p.item = produced + i
  <2> TAKE p \in P
  <2>1. PICK i \in 1 .. ok : p = Pkt(i, acks)
    OBVIOUS
  <2>2. i \in 1 .. n
    OBVIOUS
  <2> QED BY <1>1, <2>1, <2>2
<1>6. \A f \in F : \E i \in (ok + 1) .. made : f = next_packet_id + i - 1
  <2> TAKE f \in F
  <2>1. PICK i \in (ok + 1) .. made : f = Pkt(i, acks).packet_id
    OBVIOUS
  <2>2. i \in 1 .. n
    BY <1>1
  <2> QED BY <1>1, <2>1, <2>2
<1>7. F = {} => made = ok
  <2> SUFFICES ASSUME made # ok PROVE Pkt(ok + 1, acks).packet_id \in F
    OBVIOUS
  <2>1. ok + 1 \in (ok + 1) .. made
    BY <1>1
  <2> QED BY <2>1
<1> HIDE DEF P, F
<1>8. failed' = {} => next_packet_id' = produced'
  BY <1>1, <1>2, <1>3, <1>4, <1>7 DEF StreamInv
<1>9. ASSUME NEW f \in failed'
      PROVE  f < next_packet_id' /\ \A p \in to_client' : p.packet_id # f
  <2>1. CASE f \in failed
    <3>1. f < next_packet_id /\ f \in Nat /\ \A p \in to_client : p.packet_id # f
      BY <1>4, <2>1 DEF StreamInv
    <3>2. \A p \in P : p.packet_id # f
      BY <1>4, <1>5, <3>1
    <3> QED BY <1>1, <1>3, <1>4, <3>1, <3>2
  <2>2. CASE f \in F
    <3>1. PICK i \in (ok + 1) .. made : f = next_packet_id + i - 1
      BY <1>6, <2>2
    <3>2. f \in Nat /\ f >= next_packet_id + ok /\ f < next_packet_id'
      BY <1>1, <1>4, <3>1
    <3>3. \A p \in to_client : p.packet_id # f
      BY <1>4, <3>2
    <3>4. \A p \in P : p.packet_id # f
      BY <1>4, <1>5, <3>2
    <3> QED BY <1>3, <3>2, <3>3, <3>4
  <2> QED BY <1>3, <2>1, <2>2
<1>10. ASSUME NEW p \in to_client', p.packet_id # None
       PROVE  p.item = p.packet_id + 1 \/ \E f \in failed' : f < p.packet_id
  <2>1. CASE p \in to_client
    BY <1>3, <1>10, <2>1 DEF StreamInv
  <2>2. CASE p \in P
    <3>1. PICK i \in 1 .. ok : p.packet_id = next_packet_id + i - 1 /\ p.item = produced + i
      BY <1>5, <2>2
    <3>2. CASE failed = {}
      <4>1. next_packet_id = produced
        BY <3>2 DEF StreamInv
      <4> QED BY <1>4, <3>1, <4>1
    <3>3. ASSUME NEW f \in failed PROVE f \in failed' /\ f < p.packet_id
      <4>1. f \in Nat /\ f < next_packet_id
        BY <1>4 DEF StreamInv
      <4> QED BY <1>3, <1>4, <3>1, <4>1
    <3> QED BY <3>2, <3>3
  <2> QED BY <1>3, <2>1, <2>2
<1> QED BY <1>8, <1>9, <1>10 DEF StreamInv

\* Every step keeps items and ids in step.
LEMMA NextStream ==
    ASSUME NoWrap, Types, WireInv, StreamInv, [Next]_vars
    PROVE  StreamInv'
<1>1. CASE Handled
  <2>1. PICK entries \in SUBSET unacked, pids \in SUBSET ClientPid,
             noted \in Seq(ClientPid) :
           \/ Quiet(entries, noted) \/ AckOnly(entries, noted)
           \/ Chunks(entries, noted) \/ ResetSent(entries, noted)
    BY <1>1 DEF Handled
  <2>2. CASE Quiet(entries, noted) \/ AckOnly(entries, noted)
    <3>1. UNCHANGED <<next_packet_id, failed, produced>>
      BY <2>2 DEF Quiet, AckOnly, Nothing
    <3>2. to_client' \subseteq to_client \cup {MakeAck(noted)}
      BY <2>2 DEF Quiet, AckOnly, Nothing, SendAck
    <3>3. MakeAck(noted).packet_id = None
      BY DEF MakeAck
    <3>4. \A f \in failed : f # None
      BY ReliabilityAssumption DEF Types, PacketId
    <3> QED BY <3>1, <3>2, <3>3, <3>4 DEF StreamInv
  <2>3. ASSUME NEW acks \in Seq(ClientPid), NEW n \in Nat \ {0}, NEW ok \in 0 .. n,
               produced + n <= MaxItems, Sent(entries, acks, n, ok)
        PROVE  StreamInv'
    BY <2>3, SentStream
  <2>4. CASE Chunks(entries, noted)
    BY <2>3, <2>4 DEF Chunks
  <2>5. CASE ResetSent(entries, noted)
    <3>1. produced + 1 <= MaxItems /\ 1 \in Nat \ {0}
      BY <2>5, ReliabilityAssumption DEF ResetSent, Types, Item
    <3>2. PICK acks \in Seq(ClientPid), ok \in 0 .. 1 : Sent(entries, acks, 1, ok)
      BY <2>5, ResetAcks
    <3> QED BY <2>3, <3>1, <3>2, Zenon
  <2> QED BY <2>1, <2>2, <2>4, <2>5
<1>2. ASSUME UNCHANGED <<next_packet_id, failed, produced, to_client>>
      PROVE  StreamInv'
  BY <1>2 DEF StreamInv
<1>3. CASE \E due \in SUBSET PidsOf(unacked) : RetransmitTick(due)
  BY <1>2, <1>3 DEF RetransmitTick
<1>4. CASE (\E p \in to_client : ClientReceive(p)) \/ ClientSend \/ UNCHANGED vars
  BY <1>2, <1>4 DEF ClientReceive, ClientSend, vars, server, history
<1> QED BY <1>1, <1>3, <1>4, StepCases

\* How many packets the client has before the first gap.
Prefix(ps) ==
    LET ids == {p.packet_id : p \in ps}
    IN  CHOOSE k \in 0 .. PacketIdSpace : 0 .. (k - 1) \subseteq ids /\ k \notin ids

\* There is a first gap.
LEMMA PrefixFacts ==
    ASSUME NEW ps, \A p \in ps : p.packet_id \in PacketId
    PROVE  /\ Prefix(ps) \in 0 .. PacketIdSpace
           /\ \A j \in 0 .. (Prefix(ps) - 1) : \E p \in ps : p.packet_id = j
           /\ \A p \in ps : p.packet_id # Prefix(ps)
<1> DEFINE ids == {p.packet_id : p \in ps}
           T == {k \in Nat : k \notin ids}
<1>1. ids \subseteq PacketId /\ PacketIdSpace \in Nat
  BY ReliabilityAssumption
<1> HIDE DEF ids
<1>2. PacketIdSpace \in T
  BY <1>1 DEF PacketId
<1>3. PICK k \in T : \A j \in T : ~(j < k)
  <2>1. T \subseteq Nat /\ T # {}
    BY <1>2
  <2> HIDE DEF T
  <2>2. \E x \in T : \A y \in T : ~(<<y, x>> \in OpToRel(<, Nat))
    BY <2>1, NatLessThanWellFounded, WFMin
  <2> QED BY <2>1, <2>2 DEF OpToRel
<1>4. k \in 0 .. PacketIdSpace /\ 0 .. (k - 1) \subseteq ids /\ k \notin ids
  BY <1>1, <1>2, <1>3
<1>5. Prefix(ps) = CHOOSE i \in 0 .. PacketIdSpace : 0 .. (i - 1) \subseteq ids /\ i \notin ids
  BY DEF Prefix, ids
<1>6. /\ Prefix(ps) \in 0 .. PacketIdSpace
      /\ 0 .. (Prefix(ps) - 1) \subseteq ids /\ Prefix(ps) \notin ids
  BY <1>4, <1>5
<1> QED BY <1>6 DEF ids

\* What the client gives to its TLS is items 1, 2, ... up to the first gap.
LEMMA DeliveredItems ==
    ASSUME Types, WireInv, StreamInv, NEW ps \in SUBSET to_client,
           \A p \in ps : p.packet_id # None
    PROVE  /\ InOrder(ps) = [i \in 1 .. Prefix(ps) |-> i]
           /\ Prefix(ps) \in Nat /\ Prefix(ps) <= produced
<1>1. \A p \in ps : p.packet_id \in PacketId
  BY DEF Types, Packet
<1>2. /\ Prefix(ps) \in 0 .. PacketIdSpace
      /\ \A j \in 0 .. (Prefix(ps) - 1) : \E p \in ps : p.packet_id = j
  BY <1>1, PrefixFacts
<1>3. /\ PacketIdSpace \in Nat /\ next_packet_id \in Nat /\ produced \in Nat
      /\ next_packet_id <= produced /\ failed \subseteq Nat
  BY TypeFacts DEF WireInv
<1>4. InOrder(ps) = [i \in 1 .. Prefix(ps) |-> (CHOOSE p \in ps : p.packet_id = i - 1).item]
  BY DEF InOrder, Prefix
<1> HIDE DEF Prefix
<1>5. ASSUME NEW i \in 1 .. Prefix(ps)
      PROVE  (CHOOSE p \in ps : p.packet_id = i - 1).item = i
  <2> DEFINE q == CHOOSE p \in ps : p.packet_id = i - 1
  <2>1. i - 1 \in 0 .. (Prefix(ps) - 1)
    BY <1>2, <1>3
  <2>2. q \in ps /\ q.packet_id = i - 1
    BY <1>2, <2>1
  <2> HIDE DEF q
  <2>3. ASSUME NEW f \in failed, f < q.packet_id PROVE FALSE
    <3>1. f \in 0 .. (Prefix(ps) - 1)
      BY <1>2, <1>3, <2>2, <2>3
    <3>2. PICK p \in ps : p.packet_id = f
      BY <1>2, <3>1
    <3> QED BY <3>2 DEF StreamInv
  <2>4. q.item = q.packet_id + 1
    BY <2>2, <2>3 DEF StreamInv
  <2>5. q.item = i
    BY <1>2, <1>3, <2>2, <2>4
  <2> QED BY <2>5 DEF q
<1>6. Prefix(ps) <= produced
  <2>1. CASE Prefix(ps) = 0
    BY <1>3, <2>1
  <2>2. CASE Prefix(ps) # 0
    <3>1. Prefix(ps) - 1 \in 0 .. (Prefix(ps) - 1)
      BY <1>2, <1>3, <2>2
    <3>2. PICK p \in ps : p.packet_id = Prefix(ps) - 1
      BY <1>2, <3>1
    <3>3. p.packet_id < next_packet_id
      BY DEF WireInv
    <3> QED BY <1>2, <1>3, <3>2, <3>3
  <2> QED BY <2>1, <2>2
<1>7. Prefix(ps) \in Nat
  BY <1>2, <1>3
<1> QED BY <1>4, <1>5, <1>6, <1>7

\* Two runs of items 1, 2, ... differ by the items that come next.
LEMMA MoreItems ==
    ASSUME NEW m \in Nat, NEW n \in Nat, m <= n
    PROVE  LET s == [i \in 1 .. m |-> i]
               t == [i \in 1 .. n |-> i]
           IN  /\ Len(s) = m
               /\ t = s \o [i \in 1 .. (n - m) |-> Len(s) + i]
<1> DEFINE s == [i \in 1 .. m |-> i]
           t == [i \in 1 .. n |-> i]
           e == [i \in 1 .. (n - m) |-> m + i]
<1>1. s \in Seq(Nat) /\ Len(s) = m /\ \A i \in 1 .. m : s[i] = i
  OBVIOUS
<1>2. t \in Seq(Nat) /\ Len(t) = n /\ \A i \in 1 .. n : t[i] = i
  OBVIOUS
<1>3. e \in Seq(Nat) /\ Len(e) = n - m /\ \A i \in 1 .. (n - m) : e[i] = m + i
  OBVIOUS
<1> HIDE DEF s, t, e
<1>4. s \o e \in Seq(Nat) /\ Len(s \o e) = n
  BY <1>1, <1>3
<1>5. ASSUME NEW i \in 1 .. n PROVE (s \o e)[i] = i
  <2>1. CASE i <= m
    BY <1>1, <1>3, <2>1
  <2>2. CASE i > m
    <3>1. (s \o e)[i] = e[i - m] /\ i - m \in 1 .. (n - m)
      BY <1>1, <1>3, <2>2
    <3> QED BY <1>3, <3>1
  <2>3. i <= m \/ i > m
    OBVIOUS
  <2> QED BY <2>1, <2>2, <2>3, Zenon
<1>6. t = s \o e
  <2> DEFINE c == s \o e
  <2>1. c \in Seq(Nat) /\ Len(c) = n /\ \A i \in 1 .. n : c[i] = i
    BY <1>4, <1>5
  <2> HIDE DEF c
  <2>2. t = c
    BY <1>2, <2>1
  <2> QED BY <2>2 DEF c
<1> QED BY <1>1, <1>6 DEF s, t, e

-----------------------------------------------------------------------------
(***************************************************************************)
(* The invariant as a whole, and what follows from it.                     *)
(***************************************************************************)
IInv == Types /\ EnvelopeInv /\ WireInv /\ AckInv /\ FitInv /\ StreamInv /\ AcksAccounted

\* A session that starts satisfies the invariant.
LEMMA InitIInv ==
    ASSUME Init
    PROVE  IInv
<1>1. Types /\ EnvelopeInv
  BY InitTypes
<1>2. /\ to_client = {HardResetReply}
      /\ unacked = {[packet |-> HardResetReply, attempts |-> 1]}
      /\ next_packet_id = 1 /\ produced = 1 /\ failed = {}
      /\ pending_acks = <<>> /\ received_pids = {}
  BY DEF Init
<1>3. client.next_pid = 1 /\ client.acked = {} /\ client.got = {}
  BY DEF Init
<1>4. /\ HardResetReply.packet_id = 0 /\ HardResetReply.item = 1
      /\ HardResetReply.acks = <<0>>
  BY DEF HardResetReply
<1>5. Range(<<>>) = {} /\ IsInjective(<<>>) /\ Range(<<0>>) = {0} /\ Len(<<0>>) = 1
  BY DEF Range, IsInjective
<1>6. 0 # None /\ Window \in Nat \ {0}
  BY ReliabilityAssumption
<1>7. WireInv
  <2>1. \A u \in unacked : u.packet = HardResetReply
    BY <1>2
  <2> QED BY <1>2, <1>3, <1>4, <1>6, <2>1 DEF WireInv
<1>8. AckInv
  <2>1. ClientSent = {0}
    BY <1>3 DEF ClientSent
  <2>2. Settled(0)
    BY <2>1 DEF Settled, OpOf
  <2>3. Cardinality({}) = 0
    BY FS_EmptySet
  <2>4. client.next_pid - Cardinality(client.acked) <= Window
    BY <1>3, <1>6, <2>3
  <2> QED BY <1>2, <1>3, <1>4, <1>5, <2>2, <2>4 DEF AckInv
<1>9. FitInv
  <2>1. IsFiniteSet(ClientPid)
    BY ReliabilityAssumption, FS_Interval DEF ClientPid
  <2>2. IsFiniteSet(Resets)
    BY <2>1, FS_Subset DEF Resets
  <2>3. Cardinality(Resets) \in Nat
    BY <2>2, FS_CardinalityType
  <2>4. 1 <= Window + Cardinality(Resets)
    BY <1>6, <2>3
  <2> QED BY <1>2, <1>4, <1>5, <2>4 DEF FitInv
<1>10. StreamInv
  BY <1>2, <1>4 DEF StreamInv
<1>11. AcksAccounted
  BY <1>2 DEF AcksAccounted
<1> QED BY <1>1, <1>7, <1>8, <1>9, <1>10, <1>11 DEF IInv

\* Every step keeps the invariant.
LEMMA NextIInv ==
    ASSUME NoWrap, IInv, [Next]_vars
    PROVE  IInv'
BY NextTypes, NextWire, NextAckInv, NextStream, NextAcksAccounted DEF IInv

\* TypeOK for any script, window and number of attempts, as long as the packet
\* ids last: above all the unacked packets keep ids of their own, and no
\* packet of the client's is owed two ACKs.
THEOREM TypeCorrect == NoWrap => (Spec => []TypeOK)
<1> SUFFICES ASSUME NoWrap PROVE Spec => []TypeOK
  OBVIOUS
<1>1. IInv => TypeOK
  BY DEF IInv, Types, WireInv, AckInv, TypeOK
<1> QED BY <1>1, InitIInv, NextIInv, PTL DEF Spec

\* The ACK of a packet that was received is owed, under way on a packet that
\* is repeated, known to the client, or went out on one that is not repeated.
\* It rests on process_acks: a packet that is dropped is one the client has,
\* and with it the ACKs it carried.
THEOREM AcksKept == NoWrap => (Spec => []AcksAccounted)
<1> SUFFICES ASSUME NoWrap PROVE Spec => []AcksAccounted
  OBVIOUS
<1>1. IInv => AcksAccounted
  BY DEF IInv
<1> QED BY <1>1, InitIInv, NextIInv, PTL DEF Spec

\* The ACK count fits its byte for every client whose window and resets,
\* together, stay below what the byte holds, however often packets are
\* repeated and whichever sends fail.
THEOREM AckCountFits ==
    NoWrap /\ Window + Cardinality(Resets) < AckCountSpace => (Spec => []AcksFit)
<1> SUFFICES ASSUME NoWrap, Window + Cardinality(Resets) < AckCountSpace
             PROVE  Spec => []AcksFit
  OBVIOUS
<1>1. IInv => AcksFit
  <2> SUFFICES ASSUME IInv, NEW p \in to_client PROVE Len(p.acks) < AckCountSpace
    BY DEF AcksFit
  <2>1. IsFiniteSet(ClientPid)
    BY ReliabilityAssumption, FS_Interval DEF ClientPid
  <2>2. IsFiniteSet(Resets)
    BY <2>1, FS_Subset DEF Resets
  <2>3. Cardinality(Resets) \in Nat /\ Window \in Nat /\ AckCountSpace \in Nat
    BY <2>2, FS_CardinalityType, ReliabilityAssumption
  <2>4. Len(p.acks) \in Nat
    <3>1. p.acks \in Seq(ClientPid)
      BY DEF IInv, Types, Packet
    <3> QED BY <3>1
  <2>5. Len(p.acks) <= Window + Cardinality(Resets)
    BY DEF IInv, FitInv
  <2> QED BY <2>3, <2>4, <2>5
<1> QED BY <1>1, InitIInv, NextIInv, PTL DEF Spec

\* Every step of the reliability layer is a step of the stream, or none.
LEMMA StepRefines ==
    ASSUME NoWrap, IInv, [Next]_vars
    PROVE  [Stream!Next]_<<produced, client.delivered>>
<1>1. Types /\ WireInv /\ StreamInv
  BY DEF IInv
<1>2. CASE Handled
  <2>1. PICK entries \in SUBSET unacked, pids \in SUBSET ClientPid,
             noted \in Seq(ClientPid) :
           /\ client' = client
           /\ \/ Quiet(entries, noted) \/ AckOnly(entries, noted)
              \/ Chunks(entries, noted) \/ ResetSent(entries, noted)
    BY <1>2 DEF Handled
  <2>2. CASE Quiet(entries, noted) \/ AckOnly(entries, noted)
    BY <2>1, <2>2 DEF Quiet, AckOnly, Nothing
  <2>3. CASE Chunks(entries, noted)
    <3>1. PICK n \in 1 .. MaxChunks : produced' = produced + n
      BY <2>3 DEF Chunks, Sent
    <3> QED BY <2>1, <3>1 DEF Stream!Next, Stream!Put
  <2>4. CASE ResetSent(entries, noted)
    <3>1. PICK acks \in Seq(ClientPid), ok \in 0 .. 1 : Sent(entries, acks, 1, ok)
      BY <2>4, ResetAcks
    <3>2. produced' = produced + 1
      BY <3>1 DEF Sent
    <3>3. 1 \in 1 .. MaxChunks
      BY ReliabilityAssumption
    <3> QED BY <2>1, <3>2, <3>3 DEF Stream!Next, Stream!Put
  <2> QED BY <2>1, <2>2, <2>3, <2>4
<1>3. CASE \E due \in SUBSET PidsOf(unacked) : RetransmitTick(due)
  BY <1>3 DEF RetransmitTick
<1>4. CASE \E p \in to_client : ClientReceive(p)
  <2>1. PICK p \in to_client : ClientReceive(p)
    BY <1>4
  <2> DEFINE got == client.got
             got2 == client'.got
             m == Prefix(got)
             n == Prefix(got2)
  <2>2. produced' = produced /\ to_client' = to_client
    BY <2>1 DEF ClientReceive, history
  <2>3. Types' /\ WireInv'
    BY <1>1, <1>4, ClientTypes, NextWire
  <2>4. /\ got \in SUBSET to_client /\ got2 \in SUBSET to_client
        /\ \A q \in got \cup got2 : q.packet_id # None
        /\ client.delivered = InOrder(got)
    BY <1>1, <2>2, <2>3 DEF Types, WireInv
  <2>5. got \subseteq got2 /\ client'.delivered = InOrder(got2)
    BY <1>1, <2>1 DEF ClientReceive, Types
  <2> HIDE DEF got, got2
  <2>6. /\ InOrder(got) = [i \in 1 .. m |-> i] /\ m \in Nat
        /\ InOrder(got2) = [i \in 1 .. n |-> i] /\ n \in Nat /\ n <= produced
    BY <1>1, <2>4, DeliveredItems
  <2>7. m <= n
    <3>1. \A q \in got2 : q.packet_id \in PacketId
      BY <1>1, <2>4 DEF Types, Packet
    <3>2. \A j \in 0 .. (m - 1) : \E q \in got : q.packet_id = j
      BY <2>5, <3>1, PrefixFacts
    <3>3. \A q \in got2 : q.packet_id # n
      BY <3>1, PrefixFacts
    <3> HIDE DEF m, n
    <3>4. n \notin 0 .. (m - 1)
      BY <2>5, <3>2, <3>3
    <3> QED BY <2>6, <3>4
  <2> HIDE DEF m, n
  <2> DEFINE s == [i \in 1 .. m |-> i]
             t == [i \in 1 .. n |-> i]
  <2>8. Len(s) = m /\ t = s \o [i \in 1 .. (n - m) |-> Len(s) + i]
    BY <2>6, <2>7, MoreItems
  <2>9. client.delivered = s /\ client'.delivered = t
    BY <2>4, <2>5, <2>6
  <2> HIDE DEF s, t
  <2>10. CASE m = n
    BY <2>2, <2>9, <2>10 DEF s, t
  <2>11. CASE m # n
    <3>1. produced \in Nat
      BY <1>1, ReliabilityAssumption DEF Types, Item
    <3>2. n - m \in 1 .. (produced - Len(s))
      BY <2>6, <2>7, <2>8, <2>11, <3>1
    <3> QED BY <2>2, <2>8, <2>9, <3>2 DEF Stream!Next, Stream!Get
  <2> QED BY <2>10, <2>11
<1>5. CASE ClientSend
  BY <1>1, <1>5 DEF ClientSend, history, Types
<1>6. CASE UNCHANGED vars
  BY <1>6 DEF vars, history
<1> QED BY <1>1, <1>2, <1>3, <1>4, <1>5, <1>6, StepCases

\* The control channel implements the stream its TLS contexts are built on,
\* for every window, script, number of attempts and size of a flush: what the
\* client is given are the items the server took to be sent, in order and
\* without a gap, though packets are lost, repeated and reordered, sends fail
\* in the middle of a flush and packets are given up.
THEOREM Refinement == NoWrap => (Spec => ImplementsStream)
<1> SUFFICES ASSUME NoWrap PROVE Spec => ImplementsStream
  OBVIOUS
<1>1. Init => Stream!Init
  BY DEF Init, Stream!Init
<1>2. IInv /\ [Next]_vars => [Stream!Next]_<<produced, client.delivered>>
  BY StepRefines
<1> QED
  BY <1>1, <1>2, InitIInv, NextIInv, PTL DEF Spec, ImplementsStream, Stream!Spec

=============================================================================
