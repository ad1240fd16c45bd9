-------------------------- MODULE KeyRotationProofs --------------------------
(***************************************************************************)
(* Proofs about KeyRotation, for any number of key ids, packet ids, rekeys *)
(* and sealed packets.                                                     *)
(***************************************************************************)
EXTENDS KeyRotation, TLAPS

(***************************************************************************)
(* The inductive invariant behind NoncesUnique.  While a key has sealed    *)
(* fewer than PidSpace packets, its slot's next packet id is determined by *)
(* their number and the ids used are 1 up to that number.  A slot always   *)
(* starts with a key that has sealed nothing: a rekey's TLS context is new *)
(* and gives its key to one slot only.                                     *)
(***************************************************************************)
PidAfter(n) == IF n + 1 = PidSpace THEN 0 ELSE n + 1

Unused(k) ==
    /\ seals[k] = 0
    /\ nonces[k] = {}
    /\ \A i \in SlotIdx : slots[i] # None => slots[i].key # k

Counts(i) ==
    seals[slots[i].key] < PidSpace =>
        /\ slots[i].data_pid_out = PidAfter(seals[slots[i].key])
        /\ \A p \in nonces[slots[i].key] : 1 <= p /\ p <= seals[slots[i].key]

NonceInv ==
    /\ established => slots[active_slot_idx] # None
    /\ ~established => rekey = None /\ Unused(0)
    /\ \A k \in Key : k >= next_tls => Unused(k)
    /\ rekey # None => rekey.tls >= 1 /\ rekey.tls < next_tls
    /\ rekey # None /\ ~rekey.key_method_sent => Unused(rekey.tls)
    /\ slots[0] # None /\ slots[1] # None => slots[0].key # slots[1].key
    /\ \A i \in SlotIdx : slots[i] # None => Counts(i)

IInv == TypeOK /\ NonceInv

\* The packets the model builds are packets.
LEMMA MsgType ==
    ASSUME NEW type \in {"SoftReset", "Hello", "Finished", "KeyMethod2"},
           NEW k \in KeyId, NEW n \in Attempt \cup {None}, NEW t \in Key \cup {None}
    PROVE  Msg(type, k, n, t) \in Packet
BY DEF Msg, Packet

\* Both sides' choice of the next key id is a key id (modulo 8 in the code).
LEMMA NextKeyId ==
    ASSUME NEW k \in KeyId
    PROVE  (k + 1) % KeyIdSpace \in KeyId
BY RotationAssumption DEF KeyId

\* The next packet id, wrapping_add in build_data_packet.
LEMMA NextPid ==
    ASSUME NEW p \in Pid
    PROVE  /\ (p + 1) % PidSpace \in Pid
           /\ (p + 1) % PidSpace = PidAfter(p)
<1>1. CASE p + 1 = PidSpace
    BY <1>1, RotationAssumption DEF Pid, PidAfter
<1>2. CASE p + 1 < PidSpace
    BY <1>2, RotationAssumption DEF Pid, PidAfter
<1>3. QED
    BY <1>1, <1>2, RotationAssumption DEF Pid

\* A fresh slot is a slot, and starts at packet id 1.
LEMMA NewSlotType ==
    ASSUME NEW k \in KeyId, NEW key \in Key
    PROVE  /\ NewSlot(k, key) \in KeySlot
           /\ NewSlot(k, key) # None
           /\ NewSlot(k, key).key = key
           /\ NewSlot(k, key).data_pid_out = 1
BY RotationAssumption DEF NewSlot, KeySlot, Pid

\* A track is started with a TLS context of its own.
LEMMA StartRekeyType ==
    ASSUME TypeOK, NEW k \in KeyId, StartRekey(k)
    PROVE  /\ rekey' \in RekeyTrack
           /\ rekey' # None
           /\ rekey'.tls = next_tls
           /\ next_tls \in Key
           /\ next_tls' \in 1 .. MaxTls + 1
           /\ next_tls' = next_tls + 1
<1>1. next_tls \in Key /\ next_tls + 1 \in 1 .. MaxTls + 1
    BY RotationAssumption DEF TypeOK, Key, StartRekey
<1>2. rekey' \in RekeyTrack /\ rekey'.tls = next_tls
    BY <1>1, RotationAssumption DEF StartRekey, RekeyTrack
<1>3. QED
    BY <1>1, <1>2, RotationAssumption DEF StartRekey

-----------------------------------------------------------------------------
\* A session without keys has used no nonce.
LEMMA InitIInv == Init => IInv
<1> SUFFICES ASSUME Init PROVE IInv
    OBVIOUS
<1>1. /\ 0 \in Key /\ 0 \in KeyId /\ 0 \in Attempt
      /\ 1 \in 1 .. MaxTls + 1 /\ 0 \in 0 .. MaxSeals
    BY RotationAssumption DEF Key, KeyId, Attempt
<1>2. TypeOK
    <2>1. client \in ClientState
        BY <1>1 DEF Init, ClientRekey, ClientState
    <2>2. /\ slots \in [SlotIdx -> KeySlot \cup {None}]
          /\ active_slot_idx \in SlotIdx
        BY DEF Init, SlotIdx
    <2>3. seals \in [Key -> 0 .. MaxSeals] /\ nonces \in [Key -> SUBSET Pid]
        BY <1>1 DEF Init
    <2>4. established \in BOOLEAN /\ rekey \in RekeyTrack \cup {None}
        BY DEF Init
    <2>5. next_tls \in 1 .. MaxTls + 1
        BY <1>1 DEF Init
    <2>6. to_server \in SUBSET Packet /\ to_client \in Seq(Packet)
        BY DEF Init
    <2>7. QED
        BY <2>1, <2>2, <2>3, <2>4, <2>5, <2>6 DEF TypeOK
<1>3. NonceInv
    BY <1>1 DEF Init, NonceInv, Unused, Counts, SlotIdx
<1>4. QED
    BY <1>2, <1>3 DEF IInv

\* Every step keeps the types.
LEMMA NextType == IInv /\ [Next]_vars => TypeOK'
<1> SUFFICES ASSUME TypeOK, NonceInv, [Next]_vars PROVE TypeOK'
    BY DEF IInv
<1>0. ActiveSlot \in KeySlot \cup {None}
    BY DEF TypeOK, ActiveSlot
<1>1. CASE InitialKeys
    <2>1. 0 \in KeyId /\ 0 \in Key
        BY RotationAssumption DEF KeyId, Key
    <2>2. NewSlot(0, 0) \in KeySlot
        BY <2>1, NewSlotType
    <2>3. QED
        BY <1>1, <2>1, <2>2 DEF TypeOK, ClientRekey, ClientState, InitialKeys, SlotIdx, network, history
<1>2. CASE ServerRekey
    <2>1. ActiveSlot \in KeySlot
        BY <1>0, <1>2 DEF ServerRekey, NonceInv, ActiveSlot
    <2>2. (ActiveSlot.key_id + 1) % KeyIdSpace \in KeyId
        BY <2>1, NextKeyId DEF KeySlot
    <2>3. rekey' \in RekeyTrack /\ next_tls' \in 1 .. MaxTls + 1
        BY <1>2, <2>2, StartRekeyType DEF ServerRekey
    <2>4. to_client' \in Seq(Packet)
        <3>1. Msg("SoftReset", (ActiveSlot.key_id + 1) % KeyIdSpace, None, None) \in Packet
            BY <2>2, MsgType
        <3>2. QED
            BY <1>2, <3>1 DEF ServerRekey, TypeOK
    <2>5. QED
        BY <1>2, <2>3, <2>4 DEF TypeOK, ServerRekey, history
<1>3. ASSUME NEW m \in to_server, SoftReset(m) PROVE TypeOK'
    <2>1. m.key_id \in KeyId
        BY DEF TypeOK, Packet
    <2>2. rekey' \in RekeyTrack /\ next_tls' \in 1 .. MaxTls + 1
        BY <1>3, <2>1, StartRekeyType DEF SoftReset
    <2>3. to_client' \in Seq(Packet)
        <3>1. Msg("SoftReset", m.key_id, None, None) \in Packet
            BY <2>1, MsgType
        <3>2. QED
            BY <1>3, <3>1 DEF SoftReset, TypeOK
    <2>4. QED
        BY <1>3, <2>2, <2>3 DEF TypeOK, SoftReset, history
<1>4. ASSUME NEW m \in to_server, ControlV1(m) PROVE TypeOK'
    <2>1. /\ m.key_id \in KeyId /\ m.attempt \in Attempt \cup {None}
          /\ rekey \in RekeyTrack /\ rekey.tls \in Key
        BY <1>4 DEF TypeOK, Packet, RekeyTrack, ControlV1, RekeyFeedFails,
           RekeyHello, RekeyFinished, RekeyKeyMethod2, ForTrack
    <2>2. CASE RekeyFeedFails(m)
        <3>1. rekey' \in RekeyTrack
            BY <2>1, <2>2 DEF RekeyFeedFails, RekeyTrack
        <3>2. QED
            BY <2>2, <3>1 DEF TypeOK, RekeyFeedFails, network, history
    <2>3. CASE RekeyHello(m)
        <3>1. rekey' \in RekeyTrack
            BY <2>1, <2>3 DEF RekeyHello, RekeyTrack
        <3>2. to_client' \in Seq(Packet)
            <4>1. Msg("Hello", m.key_id, m.attempt, rekey.tls) \in Packet
                BY <2>1, MsgType
            <4>2. QED
                BY <2>3, <4>1 DEF RekeyHello, TypeOK
        <3>3. QED
            BY <2>3, <3>1, <3>2 DEF TypeOK, RekeyHello, history
    <2>4. CASE RekeyFinished(m)
        <3>1. rekey' \in RekeyTrack
            BY <2>1, <2>4 DEF RekeyFinished, RekeyTrack
        <3>2. QED
            BY <2>4, <3>1 DEF TypeOK, RekeyFinished, network, history
    <2>5. CASE RekeyKeyMethod2(m)
        <3>1. slots' \in [SlotIdx -> KeySlot \cup {None}]
            BY <2>1, <2>5, NewSlotType DEF TypeOK, RekeyKeyMethod2, InstallSlot
        <3>2. to_client' \in Seq(Packet)
            <4>1. Msg("KeyMethod2", m.key_id, m.attempt, rekey.tls) \in Packet
                BY <2>1, MsgType
            <4>2. \/ to_client' = Append(to_client, Msg("KeyMethod2", m.key_id, m.attempt, rekey.tls))
                  \/ to_client' = to_client
                BY <2>5 DEF RekeyKeyMethod2
            <4>3. to_client \in Seq(Packet)
                BY DEF TypeOK
            <4>4. QED
                BY <4>1, <4>2, <4>3
        <3>3. rekey' \in RekeyTrack \cup {None}
            BY <2>1, <2>5 DEF RekeyKeyMethod2, RekeyTrack
        <3>4. active_slot_idx' \in SlotIdx
            BY <2>5 DEF TypeOK, RekeyKeyMethod2, PromoteSlot, PositionOf, SlotIdx
        <3>5. QED
            BY <2>5, <3>1, <3>2, <3>3, <3>4 DEF TypeOK, RekeyKeyMethod2, history
    <2>6. QED
        BY <1>4, <2>2, <2>3, <2>4, <2>5 DEF ControlV1
<1>5. CASE ForwardTun \/ Ping
    <2>1. ActiveSlot \in KeySlot /\ Seal
        BY <1>0, <1>5 DEF ForwardTun, Ping
    <2>2. /\ ActiveSlot.key \in Key /\ ActiveSlot.data_pid_out \in Pid
          /\ (ActiveSlot.data_pid_out + 1) % PidSpace \in Pid
        BY <2>1, NextPid DEF KeySlot
    <2>3. slots' \in [SlotIdx -> KeySlot \cup {None}]
        <3>1. [ActiveSlot EXCEPT !.data_pid_out = (@ + 1) % PidSpace] \in KeySlot
            BY <2>1, <2>2 DEF KeySlot
        <3>2. QED
            BY <2>1, <3>1 DEF TypeOK, Seal, ActiveSlot
    <2>4. seals' \in [Key -> 0 .. MaxSeals]
        <3>1. seals[ActiveSlot.key] + 1 \in 0 .. MaxSeals
            <4>1. seals[ActiveSlot.key] \in 0 .. MaxSeals
                BY <2>2 DEF TypeOK
            <4>2. seals[ActiveSlot.key] < MaxSeals /\ MaxSeals \in Nat
                BY <2>1, RotationAssumption DEF Seal
            <4>3. QED
                BY <4>1, <4>2
        <3>2. seals' = [seals EXCEPT ![ActiveSlot.key] = seals[ActiveSlot.key] + 1]
            BY <2>1 DEF Seal
        <3>3. QED
            BY <3>1, <3>2 DEF TypeOK
    <2>5. nonces' \in [Key -> SUBSET Pid]
        BY <2>1, <2>2 DEF TypeOK, Seal
    <2>6. QED
        BY <2>1, <2>3, <2>4, <2>5 DEF TypeOK, Seal, network
<1>6. CASE Client
    <2>1. /\ client.attempt \in Attempt /\ client.key_id \in KeyId
          /\ client.keys \in SUBSET Key
          /\ (client.key_id + 1) % KeyIdSpace \in KeyId
        BY NextKeyId DEF TypeOK, ClientRekey, ClientState
    <2>2. to_client # <<>> => Head(to_client) \in Packet /\ Tail(to_client) \in Seq(Packet)
        BY DEF TypeOK
    <2>3. CASE ClientBegin
        <3>1. client' \in ClientState
            BY <2>1, <2>3 DEF TypeOK, ClientRekey, ClientState, ClientBegin
        <3>2. to_server' \in SUBSET Packet
            BY <2>1, <2>3, MsgType DEF TypeOK, ClientBegin
        <3>3. QED
            BY <2>3, <3>1, <3>2 DEF TypeOK, ClientBegin, server, history
    <2>4. CASE ClientSoftReset
        <3>0. Head(to_client).key_id \in KeyId /\ to_client' \in Seq(Packet)
            BY <2>2, <2>4 DEF ClientSoftReset, Packet
        <3> DEFINE k == Head(to_client).key_id
                   n == client.attempt + 1
        <3>1. client' \in ClientState
            <4>1. \/ client' = client
                  \/ /\ n \in Attempt
                     /\ client' = [client EXCEPT !.attempt = n,
                                        !.rekeying = [key_id |-> k, tls |-> None]]
                BY <2>4 DEF ClientSoftReset
            <4>2. [key_id |-> k, tls |-> None] \in ClientRekey
                BY <3>0 DEF ClientRekey
            <4>3. client \in ClientState
                BY DEF TypeOK
            <4> HIDE DEF k, n
            <4>4. QED
                BY <4>1, <4>2, <4>3 DEF ClientState
        <3>2. to_server' \in SUBSET Packet
            <4>1. Msg("Hello", k, client.attempt, None) \in Packet
                BY <2>1, <3>0, MsgType
            <4>2. ASSUME n \in Attempt
                  PROVE  /\ Msg("SoftReset", k, n, None) \in Packet
                         /\ Msg("Hello", k, n, None) \in Packet
                BY <3>0, <4>2, MsgType
            <4>3. \/ to_server' = to_server
                  \/ to_server' = to_server \cup {Msg("Hello", k, client.attempt, None)}
                  \/ /\ n \in Attempt
                     /\ to_server' = to_server \cup {Msg("SoftReset", k, n, None),
                                                    Msg("Hello", k, n, None)}
                BY <2>4 DEF ClientSoftReset
            <4>4. QED
                BY <4>1, <4>2, <4>3 DEF TypeOK
        <3>3. QED
            BY <2>4, <3>0, <3>1, <3>2 DEF TypeOK, ClientSoftReset, server, history
    <2>5. CASE ClientHello
        <3>0. /\ Head(to_client) \in Packet /\ to_client' \in Seq(Packet)
              /\ Head(to_client).key_id \in KeyId
              /\ Head(to_client).attempt \in Attempt \cup {None}
              /\ Head(to_client).tls \in Key \cup {None}
            BY <2>2, <2>5 DEF ClientHello, Packet
        <3> DEFINE m == Head(to_client)
        <3>1. client' \in ClientState
            <4>1. CASE client' = client
                BY <4>1 DEF TypeOK
            <4>2. CASE /\ client.rekeying # None
                       /\ client' = [client EXCEPT !.rekeying.tls = m.tls]
                <5>1. [client.rekeying EXCEPT !.tls = m.tls] \in
                          [key_id : KeyId, tls : Key \cup {None}]
                    BY <3>0, <4>2 DEF TypeOK, ClientRekey, ClientState
                <5>2. QED
                    BY <4>2, <5>1 DEF TypeOK, ClientRekey, ClientState
            <4>3. QED
                BY <2>5, <4>1, <4>2 DEF ClientHello
        <3>2. to_server' \in SUBSET Packet
            <4>1. /\ Msg("Finished", m.key_id, m.attempt, m.tls) \in Packet
                  /\ Msg("KeyMethod2", m.key_id, m.attempt, m.tls) \in Packet
                BY <3>0, MsgType
            <4>2. \/ to_server' = to_server
                  \/ to_server' = to_server \cup
                         {Msg("Finished", m.key_id, m.attempt, m.tls),
                          Msg("KeyMethod2", m.key_id, m.attempt, m.tls)}
                BY <2>5 DEF ClientHello
            <4>3. QED
                BY <4>1, <4>2 DEF TypeOK
        <3>3. QED
            BY <2>5, <3>0, <3>1, <3>2 DEF TypeOK, ClientHello, server, history
    <2>6. CASE ClientKeyMethod2
        <3>0. /\ to_client' \in Seq(Packet)
              /\ Head(to_client).key_id \in KeyId
              /\ Head(to_client).tls \in Key \cup {None}
            BY <2>2, <2>6 DEF ClientKeyMethod2, Packet
        <3>1. client' \in ClientState
            <4> DEFINE m == Head(to_client)
            <4>1. CASE client' = client
                BY <4>1 DEF TypeOK
            <4>2. CASE /\ m.tls \in Key
                       /\ client' = [client EXCEPT !.keys = @ \cup {m.tls},
                                                  !.sending = m.tls,
                                                  !.key_id = m.key_id,
                                                  !.rekeying = None]
                <5>1. client.keys \cup {m.tls} \in SUBSET Key
                    BY <2>1, <4>2
                <5>2. QED
                    BY <3>0, <4>2, <5>1 DEF TypeOK, ClientRekey, ClientState
            <4>3. QED
                BY <2>6, <3>0, <4>1, <4>2 DEF ClientKeyMethod2
        <3>2. QED
            BY <2>6, <3>0, <3>1 DEF TypeOK, ClientKeyMethod2, server, history
    <2>7. QED
        BY <1>6, <2>3, <2>4, <2>5, <2>6 DEF Client
<1>7. CASE UNCHANGED vars
    BY <1>7 DEF TypeOK, vars, server, network, history
<1>8. QED
    BY <1>1, <1>2, <1>3, <1>4, <1>5, <1>6, <1>7 DEF Next

-----------------------------------------------------------------------------
\* Starting a track takes the next TLS context, whose key nobody has used.
LEMMA StartRekeyNonce ==
    ASSUME IInv, NEW k \in KeyId, StartRekey(k), established,
           UNCHANGED <<established, slots, active_slot_idx, seals, nonces>>
    PROVE  NonceInv'
<1>1. /\ rekey' # None /\ rekey'.tls = next_tls /\ next_tls \in Key
      /\ next_tls' = next_tls + 1
    BY StartRekeyType DEF IInv
<1>2. next_tls \in Nat /\ next_tls >= 1
    BY RotationAssumption DEF IInv, TypeOK
<1>3. \A j \in Key : j >= next_tls => Unused(j)'
    BY DEF IInv, NonceInv, Unused
<1>4. \A j \in Key : j >= next_tls' => Unused(j)'
    BY <1>1, <1>2, <1>3 DEF Key
<1>5. Unused(rekey.tls)'
    BY <1>1, <1>2, <1>3
<1>6. QED
    BY <1>1, <1>2, <1>4, <1>5 DEF IInv, NonceInv, Counts

\* The slot that key-method-2 installs has a key that has sealed nothing and
\* is in no other slot; the active slot is left alone.
LEMMA RekeyKeyMethod2Nonce ==
    ASSUME IInv, NEW m \in to_server, RekeyKeyMethod2(m)
    PROVE  NonceInv'
<1>1. /\ rekey \in RekeyTrack /\ rekey # None /\ rekey.tls \in Key
      /\ m.key_id \in KeyId /\ active_slot_idx \in SlotIdx
    BY DEF IInv, TypeOK, RekeyKeyMethod2, ForTrack, RekeyTrack, Packet
<1>2. ~rekey.key_method_sent
    BY DEF RekeyKeyMethod2, Expected
<1>3. Unused(rekey.tls) /\ established /\ rekey.tls < next_tls
    BY <1>1, <1>2 DEF IInv, NonceInv
<1> DEFINE a == active_slot_idx
           slot == NewSlot(m.key_id, rekey.tls)
<1>4. /\ slot # None /\ slot.key = rekey.tls /\ slot.data_pid_out = 1
    BY <1>1, NewSlotType
<1>5. 1 - a \in SlotIdx /\ 1 - a # a
    BY <1>1 DEF SlotIdx
<1>6. slots'[1 - a] = slot /\ slots'[a] = slots[a]
    BY <1>5 DEF IInv, TypeOK, RekeyKeyMethod2, InstallSlot
<1>7. UNCHANGED <<established, next_tls, seals, nonces>>
    BY DEF RekeyKeyMethod2, history
<1>8. slots[a] # None /\ slots[a].key # rekey.tls
    BY <1>1, <1>3 DEF IInv, NonceInv, Unused
<1> HIDE DEF a, slot
<1>9. \A i \in SlotIdx : i = a \/ i = 1 - a
    BY <1>1 DEF SlotIdx, a
<1>10. (slots[active_slot_idx] # None)'
    <2>1. \A i \in SlotIdx : slots'[i] # None
        BY <1>4, <1>6, <1>8, <1>9
    <2>2. active_slot_idx' \in SlotIdx
        BY <1>1 DEF RekeyKeyMethod2, PromoteSlot, PositionOf, SlotIdx
    <2>3. QED
        BY <2>1, <2>2
<1>11. \A k \in Key : k >= next_tls => Unused(k)'
    <2> SUFFICES ASSUME NEW k \in Key, k >= next_tls PROVE Unused(k)'
        OBVIOUS
    <2>1. Unused(k) /\ k # rekey.tls
        BY <1>1, <1>3, RotationAssumption DEF IInv, NonceInv, TypeOK, Key
    <2>2. QED
        BY <1>1, <1>4, <1>6, <1>7, <1>9, <2>1 DEF Unused, a
<1>12. slots'[0].key # slots'[1].key
    BY <1>4, <1>5, <1>6, <1>8, <1>9 DEF SlotIdx
<1>13. \A i \in SlotIdx : Counts(i)'
    <2>1. ASSUME NEW i \in SlotIdx, i = a PROVE Counts(i)'
        BY <1>6, <1>7, <1>8, <2>1 DEF IInv, NonceInv, Counts
    <2>2. ASSUME NEW i \in SlotIdx, i = 1 - a PROVE Counts(i)'
        BY <1>3, <1>4, <1>6, <1>7, <2>2, RotationAssumption DEF Counts, PidAfter, Unused
    <2>3. QED
        BY <1>9, <2>1, <2>2
<1>14. rekey' # None => rekey'.key_method_sent /\ rekey'.tls = rekey.tls
    BY <1>1 DEF RekeyKeyMethod2, RekeyTrack
<1>15. QED
    BY <1>1, <1>3, <1>7, <1>10, <1>11, <1>12, <1>13, <1>14 DEF IInv, NonceInv

\* Sealing uses the packet id after the ones used so far.
LEMMA SealNonce ==
    ASSUME IInv, ActiveSlot # None, Seal
    PROVE  /\ NonceInv'
           /\ \A k \in Key :
                 seals'[k] # seals[k] /\ seals[k] < PidSpace => nonces'[k] # nonces[k]
<1> DEFINE a == active_slot_idx
           key == ActiveSlot.key
           pid == ActiveSlot.data_pid_out
           n == seals[key]
<1>1. /\ ActiveSlot \in KeySlot /\ ActiveSlot = slots[a] /\ a \in SlotIdx
      /\ key \in Key /\ pid \in Pid /\ n \in Nat
    BY RotationAssumption DEF IInv, TypeOK, ActiveSlot, KeySlot
<1>2. /\ slots'[a] = [ActiveSlot EXCEPT !.data_pid_out = (@ + 1) % PidSpace]
      /\ \A i \in SlotIdx \ {a} : slots'[i] = slots[i]
    BY <1>1 DEF IInv, TypeOK, Seal
<1>3. slots'[a].key = key /\ slots'[a].data_pid_out = PidAfter(pid)
    BY <1>1, <1>2, NextPid DEF KeySlot
<1>4. /\ seals'[key] = n + 1 /\ nonces'[key] = nonces[key] \cup {pid}
      /\ \A k \in Key \ {key} : seals'[k] = seals[k] /\ nonces'[k] = nonces[k]
    BY <1>1 DEF IInv, TypeOK, Seal
<1>5. UNCHANGED <<established, active_slot_idx, rekey, next_tls>>
    BY DEF Seal
<1>6. n < PidSpace => pid = PidAfter(n) /\ \A p \in nonces[key] : 1 <= p /\ p <= n
    BY <1>1 DEF IInv, NonceInv, Counts
<1>7. \A i \in SlotIdx \ {a} : slots[i] # None => slots[i].key \in Key \ {key}
    BY <1>1 DEF IInv, NonceInv, TypeOK, KeySlot, SlotIdx
<1>8. slots'[a] # None
    <2>1. slots'[a] \in KeySlot
        BY <1>1, <1>2, NextPid DEF KeySlot
    <2>2. QED
        BY <2>1, RotationAssumption
<1>9. \A k \in Key : Unused(k) => Unused(k)'
    <2> SUFFICES ASSUME NEW k \in Key, Unused(k) PROVE Unused(k)'
        OBVIOUS
    <2>1. k # key
        BY <1>1 DEF Unused
    <2>2. QED
        BY <1>2, <1>3, <1>4, <2>1 DEF Unused
<1> HIDE DEF a, key, pid, n
<1>10. ASSUME NEW i \in SlotIdx, i = a PROVE Counts(i)'
    <2> SUFFICES ASSUME n + 1 < PidSpace
                 PROVE  /\ PidAfter(pid) = PidAfter(n + 1)
                        /\ \A p \in nonces[key] \cup {pid} : 1 <= p /\ p <= n + 1
        BY <1>3, <1>4, <1>10 DEF Counts
    <2>1. n < PidSpace /\ pid = n + 1
        BY <1>1, <1>6, RotationAssumption DEF PidAfter
    <2>2. nonces[key] \subseteq Pid
        BY <1>1 DEF IInv, TypeOK
    <2>3. QED
        BY <1>1, <1>6, <2>1, <2>2, RotationAssumption DEF Pid
<1>11. \A i \in SlotIdx : slots'[i] # None => Counts(i)'
    <2> SUFFICES ASSUME NEW i \in SlotIdx \ {a}, slots'[i] # None PROVE Counts(i)'
        BY <1>10
    <2>1. slots'[i] = slots[i] /\ slots[i].key \in Key \ {key} /\ Counts(i)
        BY <1>2, <1>7 DEF IInv, NonceInv
    <2>2. QED
        BY <1>4, <2>1 DEF Counts
<1>12. slots'[0] # None /\ slots'[1] # None => slots'[0].key # slots'[1].key
    <2>1. \A i \in SlotIdx \ {a} : slots'[i] # None => slots'[i].key # slots'[a].key
        BY <1>2, <1>3, <1>7
    <2>2. a = 0 \/ a = 1
        BY <1>1 DEF SlotIdx
    <2>3. 0 \in SlotIdx /\ 1 \in SlotIdx /\ 0 # 1
        BY DEF SlotIdx
    <2>4. QED
        BY <2>1, <2>2, <2>3
<1>13. NonceInv'
    <2>1. \A k \in Key : k >= next_tls => Unused(k)'
        BY <1>9 DEF IInv, NonceInv
    <2>2. 0 \in Key /\ (rekey # None => rekey.tls \in Key)
        BY RotationAssumption DEF IInv, TypeOK, Key, RekeyTrack
    <2>3. /\ ~established => rekey = None /\ Unused(0)'
          /\ rekey # None /\ ~rekey.key_method_sent =>
                \A k \in Key : k = rekey.tls => Unused(k)'
        BY <1>9, <2>2 DEF IInv, NonceInv
    <2>4. rekey # None => rekey.tls >= 1 /\ rekey.tls < next_tls
        BY DEF IInv, NonceInv
    <2>5. QED
        BY <1>5, <1>8, <1>11, <1>12, <2>1, <2>2, <2>3, <2>4 DEF NonceInv, a
<1>14. ASSUME NEW k \in Key, seals'[k] # seals[k], seals[k] < PidSpace
       PROVE  nonces'[k] # nonces[k]
    <2>1. k = key /\ n < PidSpace
        BY <1>4, <1>14 DEF n
    <2>2. pid \notin nonces[key]
        BY <1>1, <1>6, <2>1, RotationAssumption DEF PidAfter
    <2>3. QED
        BY <1>4, <2>1, <2>2
<1>15. QED
    BY <1>13, <1>14

-----------------------------------------------------------------------------
\* Every step keeps the invariant.
LEMMA NextIInv == IInv /\ [Next]_vars => IInv'
<1> SUFFICES ASSUME IInv, [Next]_vars PROVE NonceInv'
    BY NextType DEF IInv
<1>1. CASE InitialKeys
    <2>1. /\ 0 \in KeyId /\ 0 \in Key /\ 0 \in SlotIdx /\ next_tls >= 1
        BY RotationAssumption DEF KeyId, Key, SlotIdx, IInv, TypeOK
    <2>2. /\ NewSlot(0, 0) # None /\ NewSlot(0, 0).key = 0
          /\ NewSlot(0, 0).data_pid_out = 1
        BY <2>1, NewSlotType
    <2>3. slots'[0] = NewSlot(0, 0) /\ \A i \in SlotIdx \ {0} : slots'[i] = slots[i]
        BY <1>1 DEF InitialKeys, IInv, TypeOK, SlotIdx
    <2>4. /\ established' /\ active_slot_idx' = 0
          /\ UNCHANGED <<rekey, next_tls, seals, nonces>>
          /\ rekey = None /\ Unused(0)
        BY <1>1 DEF InitialKeys, history, IInv, NonceInv
    <2>5. \A k \in Key : k >= next_tls => Unused(k)'
        BY <2>1, <2>2, <2>3, <2>4 DEF IInv, NonceInv, TypeOK, Unused
    <2>6. slots'[1] # None => slots'[1].key # 0
        BY <2>3, <2>4 DEF Unused, SlotIdx
    <2>7. \A i \in SlotIdx : slots'[i] # None => Counts(i)'
        <3>1. ASSUME NEW i \in SlotIdx, i = 0 PROVE Counts(i)'
            BY <2>2, <2>3, <2>4, <3>1, RotationAssumption DEF Counts, PidAfter, Unused
        <3>2. ASSUME NEW i \in SlotIdx \ {0}, slots'[i] # None PROVE Counts(i)'
            BY <2>3, <2>4, <3>2 DEF Counts, IInv, NonceInv
        <3>3. QED
            BY <3>1, <3>2
    <2>8. QED
        BY <2>2, <2>3, <2>4, <2>5, <2>6, <2>7 DEF NonceInv
<1>2. CASE ServerRekey
    <2>1. ActiveSlot \in KeySlot
        BY <1>2 DEF ServerRekey, IInv, NonceInv, TypeOK, ActiveSlot
    <2>2. (ActiveSlot.key_id + 1) % KeyIdSpace \in KeyId
        BY <2>1, NextKeyId DEF KeySlot
    <2>3. QED
        BY <1>2, <2>2, StartRekeyNonce DEF ServerRekey, history
<1>3. ASSUME NEW m \in to_server, SoftReset(m) PROVE NonceInv'
    <2>1. m.key_id \in KeyId
        BY DEF IInv, TypeOK, Packet
    <2>2. QED
        BY <1>3, <2>1, StartRekeyNonce DEF SoftReset, history
<1>4. ASSUME NEW m \in to_server, RekeyFeedFails(m) \/ RekeyHello(m) \/ RekeyFinished(m)
      PROVE  NonceInv'
    <2>1. rekey \in RekeyTrack /\ rekey # None
        BY <1>4 DEF IInv, TypeOK, RekeyFeedFails, RekeyHello, RekeyFinished, ForTrack
    <2>2. rekey'.tls = rekey.tls /\ rekey'.key_method_sent = rekey.key_method_sent
        BY <1>4, <2>1 DEF RekeyFeedFails, RekeyHello, RekeyFinished, RekeyTrack
    <2>3. UNCHANGED <<established, slots, active_slot_idx, next_tls, seals, nonces>>
        BY <1>4 DEF RekeyFeedFails, RekeyHello, RekeyFinished, history
    <2>4. established
        BY <2>1 DEF IInv, NonceInv, TypeOK
    <2>5. QED
        BY <2>1, <2>2, <2>3, <2>4 DEF IInv, NonceInv, Unused, Counts
<1>5. ASSUME NEW m \in to_server, RekeyKeyMethod2(m) PROVE NonceInv'
    BY <1>5, RekeyKeyMethod2Nonce
<1>6. CASE ForwardTun \/ Ping
    BY <1>6, SealNonce DEF ForwardTun, Ping
<1>7. CASE Client \/ UNCHANGED vars
    <2>1. UNCHANGED <<server, history>>
        BY <1>7 DEF Client, ClientBegin, ClientSoftReset, ClientHello,
           ClientKeyMethod2, vars
    <2>2. QED
        BY <2>1 DEF IInv, NonceInv, Unused, Counts, server, history
<1>8. QED
    BY <1>1, <1>2, <1>3, <1>4, <1>5, <1>6, <1>7 DEF Next, ControlV1

\* The invariant holds in every state.
LEMMA IInvariant == Spec => []IInv
BY InitIInv, NextIInv, PTL DEF Spec

\* The variables keep their types in every reachable state.
THEOREM TypeCorrect == Spec => []TypeOK
<1>1. IInv => TypeOK
    BY DEF IInv
<1>2. QED
    BY <1>1, IInvariant, PTL

\* NoncesUnique for every number of key ids, packet ids and rotations:
\* build_data_packet never gives a key the same packet id twice before the
\* id has wrapped round, in whatever order rekeys, duplicates of their
\* packets and failed sends come.
THEOREM NonceFreshness == Spec => NoncesUnique
<1>1. IInv /\ [Next]_vars =>
          [\A k \in Key :
              seals'[k] # seals[k] /\ seals[k] < PidSpace => nonces'[k] # nonces[k]]_vars
    <2> SUFFICES ASSUME IInv, Next, NEW k \in Key, seals'[k] # seals[k],
                        seals[k] < PidSpace
                 PROVE  nonces'[k] # nonces[k]
        OBVIOUS
    <2>1. CASE ForwardTun \/ Ping
        BY <2>1, SealNonce DEF ForwardTun, Ping
    <2>2. CASE ~(ForwardTun \/ Ping)
        BY <2>2 DEF Next, InitialKeys, ServerRekey, SoftReset, ControlV1,
           RekeyFeedFails, RekeyHello, RekeyFinished, RekeyKeyMethod2, Client,
           ClientBegin, ClientSoftReset, ClientHello, ClientKeyMethod2, history
    <2>3. QED
        BY <2>1, <2>2
<1>2. QED
    BY <1>1, IInvariant, PTL DEF Spec, NoncesUnique

-----------------------------------------------------------------------------
(***************************************************************************)
(* The inductive invariant behind ClientKeyFound.  A message of a rekey is *)
(* named by the client's attempt and, once there is one, the TLS context.  *)
(***************************************************************************)
Arriving == {to_client[i] : i \in 1 .. Len(to_client)}
Messages == to_server \cup {m \in Arriving : m.type # "SoftReset"}

\* Those made in a TLS context: the server's hello and all that comes later.
InContext == {m \in Messages : m.tls # None}

\* Before the first key there are no messages and the client has done nothing.
Untouched ==
    /\ to_server = {} /\ to_client = <<>>
    /\ slots[0] = None /\ slots[1] = None
    /\ client.rekeying = None /\ client.key_id = 0 /\ client.sending = 0

\* A message belongs to one of the client's attempts, and the messages of the
\* attempt it is at have that attempt's key id.
AttemptInv ==
    \A m \in Messages :
        /\ m.attempt \in Attempt /\ m.attempt <= client.attempt
        /\ client.rekeying # None /\ m.attempt = client.attempt =>
               m.key_id = client.rekeying.key_id

\* A TLS context serves one attempt; only the newest may be the track's.
ContextInv ==
    /\ \A m \in InContext :
           /\ m.tls \in Key /\ m.tls < next_tls
           /\ rekey # None /\ rekey.tls = m.tls => rekey.peer = m.attempt
    /\ \A m, n \in InContext : m.tls = n.tls => m.attempt = n.attempt

\* What the client sends in a context, and the server's answer to it, come
\* after the client has chosen that context for its attempt; while the track
\* has the context, the client is still at that attempt.
ChosenInv ==
    /\ \A m \in InContext :
           /\ m.type # "Hello"
           /\ client.rekeying # None
           /\ m.attempt = client.attempt
           => client.rekeying.tls = m.tls
    /\ \A m \in to_server :
           rekey # None /\ m.tls = rekey.tls =>
               /\ client.rekeying # None
               /\ client.rekeying.tls = m.tls
               /\ m.attempt = client.attempt

\* The server's key-method-2 is the end of the track, and if the client waits
\* for it the key is active.
ReplyInv ==
    \A m \in Arriving : m.type = "KeyMethod2" =>
        /\ m.tls # None
        /\ rekey # None => rekey.tls # m.tls
        /\ client.rekeying # None /\ client.rekeying.tls = m.tls =>
               ActiveSlot.key = m.tls /\ ActiveSlot.key_id = m.key_id

OtherSlot == slots[1 - active_slot_idx]

\* The client sends with the active key ...
InStep ==
    /\ ActiveSlot.key = client.sending /\ ActiveSlot.key_id = client.key_id
    /\ OtherSlot # None => OtherSlot.key_id # client.key_id

\* ... or with the one before it, while the server's key-method-2 is on its way.
OneBehind ==
    /\ client.rekeying # None
    /\ ActiveSlot.key = client.rekeying.tls
    /\ ActiveSlot.key_id = client.rekeying.key_id
    /\ OtherSlot # None
    /\ OtherSlot.key = client.sending /\ OtherSlot.key_id = client.key_id

ClientInv ==
    /\ ~established => Untouched
    /\ AttemptInv /\ ContextInv /\ ChosenInv /\ ReplyInv
    /\ client.rekeying # None => client.rekeying.key_id # client.key_id
    /\ established => InStep \/ OneBehind


-----------------------------------------------------------------------------
\* The fields of a message.
LEMMA MsgFields ==
    ASSUME NEW type, NEW k, NEW n, NEW t
    PROVE  /\ Msg(type, k, n, t).type = type
           /\ Msg(type, k, n, t).key_id = k
           /\ Msg(type, k, n, t).attempt = n
           /\ Msg(type, k, n, t).tls = t
BY DEF Msg

\* A packet sent to the client is on its way; the client takes the oldest.
LEMMA ArrivingAppend ==
    ASSUME TypeOK, NEW m \in Packet, to_client' = Append(to_client, m)
    PROVE  Arriving' = Arriving \cup {m}
<1>1. /\ to_client \in Seq(Packet) /\ Len(to_client') = Len(to_client) + 1
      /\ to_client'[Len(to_client) + 1] = m
      /\ \A i \in 1 .. Len(to_client) : to_client'[i] = to_client[i]
    BY DEF TypeOK
<1>2. ASSUME NEW x \in Arriving' PROVE x \in Arriving \cup {m}
    <2>1. PICK i \in 1 .. Len(to_client') : x = to_client'[i]
        BY DEF Arriving
    <2>2. i \in 1 .. Len(to_client) \/ i = Len(to_client) + 1
        BY <1>1
    <2>3. QED
        BY <1>1, <2>1, <2>2 DEF Arriving
<1>3. ASSUME NEW x \in Arriving \cup {m} PROVE x \in Arriving'
    <2>1. CASE x = m
        <3>1. Len(to_client) + 1 \in 1 .. Len(to_client')
            BY <1>1
        <3>2. QED
            BY <1>1, <2>1, <3>1 DEF Arriving
    <2>2. ASSUME NEW i \in 1 .. Len(to_client), x = to_client[i]
          PROVE  x \in Arriving'
        <3>1. i \in 1 .. Len(to_client') /\ to_client'[i] = x
            BY <1>1, <2>2
        <3>2. QED
            BY <3>1 DEF Arriving
    <2>3. QED
        BY <1>3, <2>1, <2>2 DEF Arriving
<1>4. QED
    BY <1>2, <1>3

\* Taking the oldest packet brings nothing new on its way.
LEMMA ArrivingTail ==
    ASSUME TypeOK, to_client # <<>>, to_client' = Tail(to_client)
    PROVE  /\ Head(to_client) \in Arriving /\ Head(to_client) \in Packet
           /\ Arriving' \subseteq Arriving
<1>1. /\ to_client \in Seq(Packet) /\ Len(to_client) > 0
      /\ Len(to_client') = Len(to_client) - 1
      /\ \A i \in 1 .. Len(to_client') : to_client'[i] = to_client[i + 1]
      /\ Head(to_client) = to_client[1] /\ to_client[1] \in Packet
    BY DEF TypeOK
<1>2. 1 \in 1 .. Len(to_client)
    BY <1>1
<1>3. ASSUME NEW x \in Arriving' PROVE x \in Arriving
    <2>1. PICK i \in 1 .. Len(to_client') : x = to_client'[i]
        BY DEF Arriving
    <2>2. i + 1 \in 1 .. Len(to_client) /\ x = to_client[i + 1]
        BY <1>1, <2>1
    <2>3. QED
        BY <2>2 DEF Arriving
<1>4. QED
    BY <1>1, <1>2, <1>3 DEF Arriving

\* A TLS context is a number, and a track has one.
LEMMA TrackTls ==
    /\ None \notin Key
    /\ TypeOK /\ rekey # None => rekey.tls \in Key
<1>1. None \notin Key
    BY RotationAssumption DEF Key
<1>2. TypeOK /\ rekey # None => rekey.tls \in Key
    BY DEF TypeOK, RekeyTrack
<1>3. QED
    BY <1>1, <1>2

\* A step of the server that starts a track: its TLS context is new.
LEMMA StartKeepsClient ==
    ASSUME TypeOK, NonceInv, ClientInv, NEW k \in KeyId, established, StartRekey(k),
           to_client' = Append(to_client, Msg("SoftReset", k, None, None)),
           UNCHANGED <<established, slots, active_slot_idx, to_server, client>>
    PROVE  ClientInv'
<1>1. Arriving' = Arriving \cup {Msg("SoftReset", k, None, None)}
    BY MsgType, ArrivingAppend
<1>2. Messages' = Messages /\ InContext' = InContext
    <2>1. Messages' = Messages
        BY <1>1, MsgFields DEF Messages
    <2>2. QED
        BY <2>1 DEF InContext
<1>3. rekey' # None /\ rekey'.tls = next_tls /\ next_tls' = next_tls + 1 /\ next_tls \in Nat
    BY StartRekeyType DEF Key
<1>4. \A m \in InContext : m.tls \in Nat /\ m.tls < next_tls
    BY DEF ClientInv, ContextInv, Key
<1>5. AttemptInv'
    BY <1>2 DEF ClientInv, AttemptInv
<1>6. ContextInv'
    BY <1>2, <1>3, <1>4 DEF ClientInv, ContextInv
<1>7. ChosenInv'
    <2>1. \A m \in to_server : m.tls # rekey'.tls
        <3>1. \A m \in to_server : m.tls # None => m \in InContext
            BY DEF Messages, InContext
        <3>2. QED
            BY <1>3, <1>4, <3>1, RotationAssumption
    <2>2. QED
        BY <1>2, <2>1 DEF ClientInv, ChosenInv
<1>8. ReplyInv'
    <2>1. \A m \in Arriving' : m.type = "KeyMethod2" => m \in Arriving
        BY <1>1, MsgFields
    <2>2. \A m \in Arriving : m.type = "KeyMethod2" => m \in InContext
        BY DEF ClientInv, ReplyInv, Messages, InContext
    <2>3. QED
        BY <1>3, <1>4, <2>1, <2>2 DEF ClientInv, ReplyInv, ActiveSlot
<1>9. QED
    BY <1>5, <1>6, <1>7, <1>8
       DEF ClientInv, InStep, OneBehind, ActiveSlot, OtherSlot


\* A step that leaves the messages, the client and the track's TLS context
\* alone, and of the slots all but the packet ids.
LEMMA TrackKeepsClient ==
    ASSUME ClientInv, established,
           UNCHANGED <<established, active_slot_idx, next_tls, to_server, to_client, client>>,
           active_slot_idx \in SlotIdx,
           \A i \in SlotIdx : slots'[i] = None <=> slots[i] = None,
           \A i \in SlotIdx : slots[i] # None =>
               slots'[i].key = slots[i].key /\ slots'[i].key_id = slots[i].key_id,
           ActiveSlot # None,
           rekey' # None => /\ rekey # None
                            /\ rekey'.tls = rekey.tls /\ rekey'.peer = rekey.peer
    PROVE  ClientInv'
<1>1. Arriving' = Arriving /\ Messages' = Messages /\ InContext' = InContext
    BY DEF Arriving, Messages, InContext
<1>2. AttemptInv' /\ ContextInv' /\ ChosenInv'
    BY <1>1 DEF ClientInv, AttemptInv, ContextInv, ChosenInv
<1>3. ActiveSlot'.key = ActiveSlot.key /\ ActiveSlot'.key_id = ActiveSlot.key_id
    BY DEF ActiveSlot
<1>4. /\ OtherSlot' = None <=> OtherSlot = None
      /\ OtherSlot # None => OtherSlot'.key = OtherSlot.key /\ OtherSlot'.key_id = OtherSlot.key_id
    BY DEF OtherSlot, SlotIdx
<1>5. ReplyInv'
    BY <1>1, <1>3 DEF ClientInv, ReplyInv
<1>6. (InStep \/ OneBehind)'
    BY <1>3, <1>4 DEF ClientInv, InStep, OneBehind
<1>7. QED
    BY <1>2, <1>5, <1>6 DEF ClientInv

\* The server's hello gives the TLS context to the attempt it answers.
LEMMA HelloKeepsClient ==
    ASSUME TypeOK, NonceInv, ClientInv, established, NEW m \in to_server,
           RekeyHello(m)
    PROVE  ClientInv'
<1> DEFINE h == Msg("Hello", m.key_id, m.attempt, rekey.tls)
<1>1. /\ m \in Packet /\ m \in Messages /\ m.attempt \in Attempt
      /\ rekey \in RekeyTrack /\ rekey # None /\ rekey.peer = None
      /\ UNCHANGED <<established, slots, active_slot_idx, next_tls, to_server, client>>
    BY DEF RekeyHello, ForTrack, Expected, TypeOK, Messages, ClientInv, AttemptInv
<1>2. rekey' # None /\ rekey'.tls = rekey.tls /\ rekey'.peer = m.attempt
    BY <1>1, RotationAssumption DEF RekeyHello, RekeyTrack
<1>3. /\ h.type = "Hello" /\ h.key_id = m.key_id /\ h.attempt = m.attempt
      /\ h.tls = rekey.tls /\ h.tls \in Key /\ h.tls # None
    BY <1>1, MsgFields, TrackTls
<1>4. h \in Packet
    BY <1>1, MsgType DEF Packet, RekeyTrack
<1>5. Arriving' = Arriving \cup {h}
    BY <1>4, ArrivingAppend DEF RekeyHello
<1> HIDE DEF h
<1>6. Messages' = Messages \cup {h} /\ InContext' = InContext \cup {h}
    <2>1. Messages' = Messages \cup {h}
        BY <1>1, <1>3, <1>5 DEF Messages
    <2>2. QED
        BY <1>3, <2>1 DEF InContext
<1>7. \A x \in InContext : x.tls # rekey.tls
    <2>1. \A x \in InContext : x \in Messages
        BY DEF InContext
    <2>2. None \notin Attempt
        BY RotationAssumption DEF Attempt
    <2>3. QED
        BY <1>1, <2>1, <2>2 DEF ClientInv, AttemptInv, ContextInv
<1>8. AttemptInv'
    BY <1>1, <1>3, <1>6 DEF ClientInv, AttemptInv
<1>9. ContextInv'
    <2>1. rekey.tls < next_tls
        BY <1>1 DEF NonceInv
    <2>2. QED
        BY <1>1, <1>2, <1>3, <1>6, <1>7, <2>1 DEF ClientInv, ContextInv
<1>10. ChosenInv'
    BY <1>1, <1>2, <1>3, <1>6 DEF ClientInv, ChosenInv
<1>11. ReplyInv'
    BY <1>1, <1>2, <1>3, <1>5 DEF ClientInv, ReplyInv, ActiveSlot
<1>12. QED
    BY <1>1, <1>8, <1>9, <1>10, <1>11
       DEF ClientInv, InStep, OneBehind, ActiveSlot, OtherSlot

\* The client's key-method-2 comes from the attempt it is at, in the context
\* it has chosen, and its key is new: so the slots were in step, and it is the
\* slot that the client does not send with that gets the key.
LEMMA InstallFacts ==
    ASSUME TypeOK, NonceInv, ClientInv, established, NEW m \in to_server,
           RekeyKeyMethod2(m)
    PROVE  /\ m \in Packet /\ m \in InContext /\ m.tls = rekey.tls /\ rekey.tls \in Key
           /\ client.rekeying # None
           /\ client.rekeying.tls = m.tls
           /\ client.rekeying.key_id = m.key_id
           /\ m.attempt = client.attempt
           /\ m.key_id # client.key_id
           /\ ActiveSlot # None
           /\ InStep
<1>1. /\ m \in Packet /\ m \in Messages /\ m.tls = rekey.tls /\ rekey # None
      /\ ~rekey.key_method_sent /\ rekey.tls \in Key
    BY DEF RekeyKeyMethod2, ForTrack, Expected, TypeOK, Messages, RekeyTrack
<1>2. m \in InContext
    BY <1>1, TrackTls DEF InContext
<1>3. /\ client.rekeying # None /\ client.rekeying.tls = m.tls
      /\ m.attempt = client.attempt
    BY <1>1 DEF ClientInv, ChosenInv
<1>4. client.rekeying.key_id = m.key_id
    BY <1>1, <1>3 DEF ClientInv, AttemptInv
<1>5. m.key_id # client.key_id
    BY <1>3, <1>4 DEF ClientInv
<1>6. ActiveSlot # None /\ ActiveSlot.key # rekey.tls
    BY <1>1 DEF NonceInv, ActiveSlot, Unused, TypeOK
<1>7. QED
    BY <1>1, <1>2, <1>3, <1>4, <1>5, <1>6 DEF ClientInv, OneBehind

\* What the slots look like after install_slot, whether it is promoted or not.
LEMMA InstalledSlots ==
    ASSUME TypeOK, NonceInv, ClientInv, established, NEW m \in to_server,
           RekeyKeyMethod2(m)
    PROVE  /\ slots'[active_slot_idx] = ActiveSlot
           /\ slots'[1 - active_slot_idx] # None
           /\ slots'[1 - active_slot_idx].key = m.tls
           /\ slots'[1 - active_slot_idx].key_id = m.key_id
           /\ PromoteSlot(slots', m.key_id) = 1 - active_slot_idx
<1>1. /\ m.tls = rekey.tls /\ rekey.tls \in Key /\ m.key_id \in KeyId
      /\ m.key_id # client.key_id /\ ActiveSlot # None /\ InStep
    BY InstallFacts DEF Packet
<1> DEFINE n == NewSlot(m.key_id, rekey.tls)
<1>2. n # None /\ n.key = m.tls /\ n.key_id = m.key_id
    BY <1>1, NewSlotType DEF NewSlot
<1>3. /\ 1 - active_slot_idx \in SlotIdx /\ 1 - active_slot_idx # active_slot_idx
      /\ active_slot_idx \in SlotIdx
      /\ slots' = [slots EXCEPT ![1 - active_slot_idx] = n]
    BY DEF TypeOK, SlotIdx, RekeyKeyMethod2, InstallSlot
<1> HIDE DEF n
<1>4. slots'[active_slot_idx] = ActiveSlot /\ slots'[1 - active_slot_idx] = n
    BY <1>3 DEF TypeOK, ActiveSlot
<1>5. PositionOf(slots', m.key_id) = 1 - active_slot_idx
    <2>1. ActiveSlot.key_id # m.key_id
        BY <1>1 DEF InStep
    <2>2. CASE active_slot_idx = 0
        BY <1>1, <1>2, <1>4, <2>1, <2>2 DEF PositionOf
    <2>3. CASE active_slot_idx = 1
        BY <1>1, <1>2, <1>4, <2>1, <2>3 DEF PositionOf
    <2>4. QED
        BY <1>3, <2>2, <2>3 DEF SlotIdx
<1>6. PromoteSlot(slots', m.key_id) = 1 - active_slot_idx
    BY <1>3, <1>5, RotationAssumption DEF PromoteSlot, SlotIdx
<1>7. QED
    BY <1>2, <1>4, <1>6


\* The server's key-method-2 is sent, the new slot promoted and the track
\* cleared: the client is one key behind.
LEMMA RotationKeepsClient ==
    ASSUME TypeOK, NonceInv, ClientInv, established, NEW m \in to_server,
           RekeyKeyMethod2(m), rekey' = None
    PROVE  ClientInv'
<1> DEFINE r == Msg("KeyMethod2", m.key_id, m.attempt, rekey.tls)
<1>1. /\ m \in Packet /\ m \in InContext /\ m.tls = rekey.tls /\ rekey.tls \in Key
      /\ client.rekeying # None /\ client.rekeying.tls = m.tls
      /\ client.rekeying.key_id = m.key_id /\ m.attempt = client.attempt
      /\ rekey # None
    BY InstallFacts DEF RekeyKeyMethod2, ForTrack
<1>2. /\ r.type = "KeyMethod2" /\ r.key_id = m.key_id /\ r.attempt = m.attempt
      /\ r.tls = m.tls /\ r.tls # None /\ r.tls \in Key
    <2>1. /\ r.type = "KeyMethod2" /\ r.key_id = m.key_id /\ r.attempt = m.attempt
          /\ r.tls = rekey.tls
        BY MsgFields
    <2> HIDE DEF r
    <2>2. QED
        BY <1>1, <2>1, TrackTls
<1>3. r \in Packet
    BY <1>1, MsgType DEF Packet
<1>4. [rekey EXCEPT !.key_method_sent = TRUE] # None
    <2>1. [rekey EXCEPT !.key_method_sent = TRUE] \in RekeyTrack
        BY <1>1 DEF TypeOK, RekeyTrack
    <2>2. QED
        BY <2>1, RotationAssumption
<1>5. /\ to_client' = Append(to_client, r)
      /\ active_slot_idx' = PromoteSlot(slots', m.key_id)
      /\ UNCHANGED <<established, next_tls, to_server, client>>
    BY <1>4 DEF RekeyKeyMethod2
<1>6. Arriving' = Arriving \cup {r}
    BY <1>3, <1>5, ArrivingAppend
<1> HIDE DEF r
<1>7. Messages' = Messages \cup {r} /\ InContext' = InContext \cup {r}
    <2>1. Messages' = Messages \cup {r}
        BY <1>2, <1>5, <1>6 DEF Messages
    <2>2. QED
        BY <1>2, <2>1 DEF InContext
<1>8. /\ active_slot_idx' = 1 - active_slot_idx
      /\ slots'[active_slot_idx] = ActiveSlot
      /\ slots'[1 - active_slot_idx] # None
      /\ slots'[1 - active_slot_idx].key = m.tls
      /\ slots'[1 - active_slot_idx].key_id = m.key_id
    BY <1>5, InstalledSlots
<1>9. /\ ActiveSlot'.key = m.tls /\ ActiveSlot'.key_id = m.key_id
      /\ OtherSlot' = ActiveSlot
    <2>1. 1 - (1 - active_slot_idx) = active_slot_idx
        BY DEF TypeOK, SlotIdx
    <2>2. QED
        BY <1>8, <2>1 DEF ActiveSlot, OtherSlot
<1>10. AttemptInv'
    <2>1. m \in Messages
        BY <1>1 DEF InContext
    <2>2. QED
        BY <1>2, <1>5, <1>7, <2>1 DEF ClientInv, AttemptInv
<1>11. ContextInv'
    <2>0. ContextInv
        BY DEF ClientInv
    <2>1. \A n \in InContext' :
              /\ n \in InContext \/ (n.tls = m.tls /\ n.attempt = m.attempt)
              /\ n.tls \in Key /\ n.tls < next_tls
        <3>1. m.tls \in Key /\ m.tls < next_tls
            BY <1>1, <2>0 DEF ContextInv
        <3>2. \A n \in InContext : n.tls \in Key /\ n.tls < next_tls
            BY <2>0 DEF ContextInv
        <3>3. \A n \in InContext' : n \in InContext \/ n = r
            BY <1>7
        <3>4. r.tls = m.tls /\ r.attempt = m.attempt
            BY <1>2
        <3>5. QED
            BY <3>1, <3>2, <3>3, <3>4
    <2>2. \A k, n \in InContext' : k.tls = n.tls => k.attempt = n.attempt
        BY <1>1, <2>0, <2>1 DEF ContextInv
    <2>3. QED
        BY <1>5, <2>1, <2>2 DEF ContextInv
<1>12. ChosenInv'
    BY <1>1, <1>2, <1>5, <1>7 DEF ClientInv, ChosenInv
<1>13. ReplyInv'
    <2>1. \A k \in Arriving : k.type = "KeyMethod2" => k.tls # client.rekeying.tls
        BY <1>1 DEF ClientInv, ReplyInv
    <2>2. QED
        BY <1>1, <1>2, <1>5, <1>6, <1>9, <2>1 DEF ClientInv, ReplyInv
<1>14. OneBehind'
    <2>1. ActiveSlot # None /\ InStep
        BY InstallFacts
    <2>2. QED
        BY <1>1, <1>5, <1>9, <2>1 DEF InStep, OneBehind
<1>15. QED
    BY <1>5, <1>10, <1>11, <1>12, <1>13, <1>14 DEF ClientInv

\* The reply could not be sent: the slot is installed and not promoted.
LEMMA FailedSendKeepsClient ==
    ASSUME TypeOK, NonceInv, ClientInv, established, NEW m \in to_server,
           RekeyKeyMethod2(m), rekey' # None
    PROVE  ClientInv'
<1>1. /\ rekey \in RekeyTrack /\ rekey # None
      /\ rekey' = [rekey EXCEPT !.key_method_sent = TRUE]
      /\ UNCHANGED <<established, active_slot_idx, next_tls, to_server, to_client, client>>
    BY DEF RekeyKeyMethod2, ForTrack, TypeOK
<1>2. rekey'.tls = rekey.tls /\ rekey'.peer = rekey.peer
    BY <1>1 DEF RekeyTrack
<1>3. Arriving' = Arriving /\ Messages' = Messages /\ InContext' = InContext
    BY <1>1 DEF Arriving, Messages, InContext
<1>4. /\ ActiveSlot' = ActiveSlot
      /\ OtherSlot' # None /\ OtherSlot'.key_id = m.key_id
    BY <1>1, InstalledSlots DEF ActiveSlot, OtherSlot
<1>5. AttemptInv' /\ ContextInv' /\ ChosenInv'
    BY <1>1, <1>2, <1>3 DEF ClientInv, AttemptInv, ContextInv, ChosenInv
<1>6. ReplyInv'
    BY <1>1, <1>2, <1>3, <1>4 DEF ClientInv, ReplyInv
<1>7. InStep'
    <2>1. m.key_id # client.key_id /\ InStep
        BY InstallFacts
    <2>2. QED
        BY <1>1, <1>4, <2>1 DEF InStep
<1>8. QED
    BY <1>1, <1>5, <1>6, <1>7 DEF ClientInv

\* The client starts an attempt, numbered above all the messages there are.
LEMMA AttemptKeepsClient ==
    ASSUME TypeOK, ClientInv, established, client.rekeying = None,
           NEW k \in KeyId, k # client.key_id, NEW M,
           client' = [client EXCEPT !.attempt = client.attempt + 1,
                                    !.rekeying = [key_id |-> k, tls |-> None]],
           client.attempt + 1 \in Attempt,
           to_server' = to_server \cup M,
           \A m \in M : /\ m.attempt = client.attempt + 1 /\ m.key_id = k
                        /\ m.tls = None,
           Arriving' \subseteq Arriving,
           UNCHANGED server
    PROVE  ClientInv'
<1>1. client \in ClientState /\ client.attempt \in Nat
    BY DEF TypeOK, ClientState, Attempt
<1>2. /\ client'.attempt = client.attempt + 1 /\ client'.rekeying.key_id = k
      /\ client'.rekeying.tls = None /\ client'.key_id = client.key_id
      /\ client'.sending = client.sending
    BY <1>1 DEF ClientState
<1>3. /\ \A m \in Messages' : m \in Messages \/ m \in M
      /\ \A m \in InContext' : m \in InContext
    <2>1. \A m \in Messages' : m \in Messages \/ m \in M
        BY DEF Messages
    <2>2. QED
        BY <2>1 DEF InContext
<1>4. /\ rekey' = rekey /\ slots' = slots /\ next_tls' = next_tls
      /\ active_slot_idx' = active_slot_idx /\ established' = established
    BY DEF server
<1>5. \A m \in Messages : m.attempt \in Nat /\ m.attempt < client'.attempt
    BY <1>1, <1>2 DEF ClientInv, AttemptInv, Attempt
<1>6. \A m \in InContext : m \in Messages
    BY DEF InContext
<1>7. AttemptInv'
    BY <1>1, <1>2, <1>3, <1>5 DEF ClientInv, AttemptInv
<1>8. ContextInv'
    BY <1>3, <1>4 DEF ClientInv, ContextInv
<1>9. ChosenInv'
    <2>1. \A m \in to_server : rekey # None => m.tls # rekey.tls
        BY DEF ClientInv, ChosenInv
    <2>2. rekey # None => rekey.tls # None
        BY TrackTls
    <2>3. QED
        BY <1>3, <1>4, <1>5, <1>6, <2>1, <2>2 DEF ChosenInv
<1>10. ReplyInv'
    BY <1>2, <1>4 DEF ClientInv, ReplyInv
<1>11. InStep'
    BY <1>2, <1>4 DEF ClientInv, InStep, OneBehind, ActiveSlot, OtherSlot
<1>12. QED
    BY <1>2, <1>4, <1>7, <1>8, <1>9, <1>10, <1>11 DEF ClientInv


\* The client takes a packet without starting, choosing or ending anything; it
\* may send messages of its attempt that are in no context.
LEMMA ReadKeepsClient ==
    ASSUME TypeOK, ClientInv, established, UNCHANGED client, NEW M,
           to_server' = to_server \cup M,
           \A m \in M : /\ client.rekeying # None
                        /\ m.attempt = client.attempt /\ m.tls = None
                        /\ m.key_id = client.rekeying.key_id,
           Arriving' \subseteq Arriving,
           UNCHANGED server
    PROVE  ClientInv'
<1>1. client.attempt \in Attempt /\ client.attempt <= client.attempt
    BY DEF TypeOK, ClientState, Attempt
<1>2. /\ \A m \in Messages' : m \in Messages \/ m \in M
      /\ \A m \in InContext' : m \in InContext
    <2>1. \A m \in Messages' : m \in Messages \/ m \in M
        BY DEF Messages
    <2>2. QED
        BY <2>1 DEF InContext
<1>3. /\ rekey' = rekey /\ slots' = slots /\ next_tls' = next_tls
      /\ active_slot_idx' = active_slot_idx /\ established' = established
    BY DEF server
<1>4. AttemptInv'
    BY <1>1, <1>2 DEF ClientInv, AttemptInv
<1>5. ContextInv'
    BY <1>2, <1>3 DEF ClientInv, ContextInv
<1>6. ChosenInv'
    <2>1. rekey # None => rekey.tls # None
        BY TrackTls
    <2>2. QED
        BY <1>2, <1>3, <2>1 DEF ClientInv, ChosenInv
<1>7. ReplyInv'
    BY <1>3 DEF ClientInv, ReplyInv, ActiveSlot
<1>8. QED
    BY <1>3, <1>4, <1>5, <1>6, <1>7
       DEF ClientInv, InStep, OneBehind, ActiveSlot, OtherSlot

\* The client chooses the context of the first server hello for its attempt.
LEMMA ClientHelloKeeps ==
    ASSUME TypeOK, NonceInv, ClientInv, established, ClientHello
    PROVE  ClientInv'
<1> DEFINE h == Head(to_client)
           M == {Msg("Finished", h.key_id, h.attempt, h.tls),
                 Msg("KeyMethod2", h.key_id, h.attempt, h.tls)}
           chosen == /\ client.rekeying # None
                     /\ client.rekeying.tls = None
                     /\ h.attempt = client.attempt
<1>1. /\ h \in Arriving /\ h \in Packet /\ h.type = "Hello"
      /\ Arriving' \subseteq Arriving /\ UNCHANGED server
    BY ArrivingTail DEF ClientHello
<1>2. CASE ~chosen
    <2> DEFINE sent == {}
    <2>1. client' = client /\ to_server' = to_server \cup sent
        BY <1>2 DEF ClientHello
    <2>2. \A m \in sent : /\ client.rekeying # None
                          /\ m.attempt = client.attempt /\ m.tls = None
                          /\ m.key_id = client.rekeying.key_id
        OBVIOUS
    <2> HIDE DEF sent
    <2>3. QED
        BY <1>1, <2>1, <2>2, ReadKeepsClient
<1>3. CASE chosen
    <2>1. /\ client' = [client EXCEPT !.rekeying.tls = h.tls]
          /\ to_server' = to_server \cup M
        BY <1>3 DEF ClientHello
    <2>2. h \in Messages
        BY <1>1 DEF Messages
    <2>3. \A m \in M : /\ m.type # "Hello" /\ m.key_id = h.key_id
                       /\ m.attempt = h.attempt /\ m.tls = h.tls
        BY MsgFields
    <2> HIDE DEF h, M
    <2>4. client \in ClientState /\ client.rekeying \in ClientRekey
        BY <1>3 DEF TypeOK, ClientState
    <2>5. /\ client'.attempt = client.attempt /\ client'.key_id = client.key_id
          /\ client'.sending = client.sending
          /\ client'.rekeying = [client.rekeying EXCEPT !.tls = h.tls]
        BY <2>1, <2>4 DEF ClientState
    <2>6. /\ client'.rekeying.key_id = client.rekeying.key_id
          /\ client'.rekeying.tls = h.tls
          /\ client'.rekeying # None
        <3>1. h.tls \in Key \cup {None}
            BY <1>1 DEF Packet
        <3>2. client'.rekeying \in ClientRekey
            BY <2>4, <2>5, <3>1 DEF ClientRekey
        <3>3. QED
            BY <2>4, <2>5, <3>2, RotationAssumption DEF ClientRekey
    <2>7. h.key_id = client.rekeying.key_id
        BY <1>3, <2>2 DEF ClientInv, AttemptInv
    <2>8. /\ \A m \in Messages' : m \in Messages \/ m \in M
          /\ \A m \in InContext' : m \in InContext \/ (m \in M /\ h \in InContext)
        <3>1. \A m \in Messages' : m \in Messages \/ m \in M
            BY <1>1, <2>1 DEF Messages
        <3>2. QED
            BY <2>2, <2>3, <3>1 DEF InContext
    <2>9. /\ rekey' = rekey /\ slots' = slots /\ next_tls' = next_tls
          /\ active_slot_idx' = active_slot_idx /\ established' = established
        BY <1>1 DEF server
    \* Until now the client was in no context, so nothing of its attempt is.
    <2>10. \A m \in InContext : m.type # "Hello" =>
               m.attempt # client.attempt /\ (h \in InContext => m.tls # h.tls)
        <3>1. \A m \in InContext : m.tls # None
            BY DEF InContext
        <3>2. QED
            BY <1>3, <3>1 DEF ClientInv, ChosenInv, ContextInv
    <2>11. AttemptInv'
        <3>1. h.attempt \in Attempt /\ h.attempt <= client.attempt
            BY <2>2 DEF ClientInv, AttemptInv
        <3>2. client'.attempt = client.attempt
            BY <2>5
        <3>3. ASSUME NEW m \in Messages'
              PROVE  /\ m.attempt \in Attempt /\ m.attempt <= client.attempt
                     /\ m.attempt = client.attempt => m.key_id = client.rekeying.key_id
            <4>1. CASE m \in Messages
                BY <1>3, <4>1 DEF ClientInv, AttemptInv
            <4>2. CASE m \in M
                BY <2>3, <2>7, <3>1, <4>2
            <4>3. QED
                BY <2>8, <4>1, <4>2
        <3>4. QED
            BY <2>6, <3>2, <3>3 DEF AttemptInv
    <2>12. ContextInv'
        BY <2>3, <2>8, <2>9 DEF ClientInv, ContextInv
    <2>13. ChosenInv'
        <3>1. \A m \in InContext' :
                  m.type # "Hello" /\ m.attempt = client.attempt => m.tls = h.tls
            BY <2>3, <2>8, <2>10
        <3>2. ASSUME NEW m \in to_server', rekey # None, m.tls = rekey.tls
              PROVE  m.tls = h.tls /\ m.attempt = client.attempt
            <4>1. rekey.tls # None
                BY <3>2, TrackTls
            <4>2. m \notin to_server
                BY <1>3, <3>2, <4>1 DEF ClientInv, ChosenInv
            <4>3. QED
                BY <1>3, <2>1, <2>3, <4>2
        <3>3. QED
            BY <2>5, <2>6, <2>9, <3>1, <3>2 DEF ChosenInv
    <2>14. ReplyInv'
        <3>1. \A m \in Arriving : m.type = "KeyMethod2" => m \in InContext /\ m.tls # None
            BY DEF ClientInv, ReplyInv, InContext, Messages
        <3>2. \A m \in Arriving : m.type = "KeyMethod2" => m.tls # h.tls
            BY <2>2, <2>10, <3>1 DEF InContext
        <3>3. QED
            BY <1>1, <2>6, <2>9, <3>2 DEF ClientInv, ReplyInv
    <2>15. InStep'
        <3>1. ActiveSlot.key # None
            BY RotationAssumption DEF NonceInv, ActiveSlot, TypeOK, KeySlot, Key
        <3>2. QED
            BY <1>3, <2>5, <2>9, <3>1
               DEF ClientInv, InStep, OneBehind, ActiveSlot, OtherSlot
    <2>16. client'.rekeying.key_id # client'.key_id
        BY <1>3, <2>5, <2>6 DEF ClientInv
    <2>17. QED
        BY <2>9, <2>11, <2>12, <2>13, <2>14, <2>15, <2>16 DEF ClientInv
<1>4. QED
    BY <1>2, <1>3

\* The client takes the server's key-method-2 and is in step again.
LEMMA ClientKeyMethod2Keeps ==
    ASSUME TypeOK, ClientInv, established, ClientKeyMethod2
    PROVE  ClientInv'
<1> DEFINE k == Head(to_client)
           awaited == /\ client.rekeying # None
                      /\ client.rekeying.tls # None
                      /\ k.tls = client.rekeying.tls
<1>1. /\ k \in Arriving /\ k \in Packet /\ k.type = "KeyMethod2"
      /\ Arriving' \subseteq Arriving /\ UNCHANGED <<server, to_server>>
    BY ArrivingTail DEF ClientKeyMethod2
<1>2. CASE ~awaited
    <2> DEFINE sent == {}
    <2>1. client' = client /\ to_server' = to_server \cup sent
        BY <1>1, <1>2 DEF ClientKeyMethod2
    <2>2. \A m \in sent : /\ client.rekeying # None
                          /\ m.attempt = client.attempt /\ m.tls = None
                          /\ m.key_id = client.rekeying.key_id
        OBVIOUS
    <2> HIDE DEF sent
    <2>3. QED
        BY <1>1, <2>1, <2>2, ReadKeepsClient
<1>3. CASE awaited
    <2>1. client' = [client EXCEPT !.keys = @ \cup {k.tls}, !.sending = k.tls,
                                   !.key_id = k.key_id, !.rekeying = None]
        BY <1>3 DEF ClientKeyMethod2
    <2>2. /\ client'.attempt = client.attempt /\ client'.key_id = k.key_id
          /\ client'.sending = k.tls /\ client'.rekeying = None
        BY <2>1 DEF TypeOK, ClientState
    <2>3. /\ \A m \in Messages' : m \in Messages
          /\ \A m \in InContext' : m \in InContext
        <3>1. \A m \in Messages' : m \in Messages
            BY <1>1 DEF Messages
        <3>2. QED
            BY <3>1 DEF InContext
    <2>4. /\ rekey' = rekey /\ slots' = slots /\ next_tls' = next_tls
          /\ active_slot_idx' = active_slot_idx /\ established' = established
        BY <1>1 DEF server
    <2>5. /\ rekey # None => rekey.tls # k.tls
          /\ ActiveSlot.key = k.tls /\ ActiveSlot.key_id = k.key_id
        BY <1>1, <1>3 DEF ClientInv, ReplyInv
    <2> HIDE DEF k
    <2>6. AttemptInv' /\ ContextInv'
        BY <2>2, <2>3, <2>4 DEF ClientInv, AttemptInv, ContextInv
    <2>7. ChosenInv'
        BY <1>1, <1>3, <2>2, <2>4, <2>5 DEF ClientInv, ChosenInv
    <2>8. ReplyInv'
        BY <1>1, <2>2, <2>4 DEF ClientInv, ReplyInv
    <2>9. InStep'
        BY <2>2, <2>4, <2>5 DEF ClientInv, InStep, OneBehind, ActiveSlot, OtherSlot
    <2>10. QED
        BY <2>2, <2>4, <2>6, <2>7, <2>8, <2>9 DEF ClientInv
<1>4. QED
    BY <1>2, <1>3


-----------------------------------------------------------------------------
\* A client that has not begun has nothing under way.
LEMMA InitClientInv == Init => ClientInv
<1> SUFFICES ASSUME Init PROVE ClientInv
    OBVIOUS
<1>1. Arriving = {} /\ Messages = {} /\ InContext = {}
    BY DEF Init, Arriving, Messages, InContext
<1>2. Untouched /\ ~established
    BY DEF Init, Untouched, SlotIdx
<1>3. AttemptInv /\ ContextInv /\ ChosenInv /\ ReplyInv
    BY <1>1, <1>2 DEF AttemptInv, ContextInv, ChosenInv, ReplyInv, Untouched
<1>4. QED
    BY <1>2, <1>3 DEF ClientInv, Untouched

\* Nothing but the first key can come before it.
LEMMA BeforeInitialKeys ==
    ASSUME TypeOK, NonceInv, ClientInv, ~established, Next
    PROVE  InitialKeys
<1>1. Untouched /\ active_slot_idx \in SlotIdx
    BY DEF ClientInv, TypeOK
<1>2. ActiveSlot = None
    BY <1>1 DEF Untouched, ActiveSlot, SlotIdx
<1>3. QED
    BY <1>1, <1>2 DEF Next, ServerRekey, ForwardTun, Ping, Client, ClientBegin,
       ClientSoftReset, ClientHello, ClientKeyMethod2, Untouched

\* The first key: both sides have it under key id 0.
LEMMA InitialKeysGiveClient ==
    ASSUME TypeOK, ClientInv, InitialKeys
    PROVE  ClientInv'
<1>1. /\ to_server' = {} /\ to_client' = <<>> /\ established' /\ slots[1] = None
      /\ client.rekeying = None /\ client.key_id = 0 /\ client.sending = 0
    BY DEF InitialKeys, ClientInv, Untouched, network
<1>2. /\ client'.rekeying = None /\ client'.key_id = 0 /\ client'.sending = 0
    BY <1>1 DEF InitialKeys, TypeOK, ClientState
<1>3. Arriving' = {} /\ Messages' = {} /\ InContext' = {}
    <2>1. Arriving' = {}
        BY <1>1 DEF Arriving
    <2>2. QED
        BY <1>1, <2>1 DEF Messages, InContext
<1>4. AttemptInv' /\ ContextInv' /\ ChosenInv' /\ ReplyInv'
    BY <1>1, <1>3 DEF AttemptInv, ContextInv, ChosenInv, ReplyInv
<1>5. ActiveSlot'.key = 0 /\ ActiveSlot'.key_id = 0 /\ OtherSlot' = None
    BY <1>1 DEF InitialKeys, TypeOK, SlotIdx, ActiveSlot, OtherSlot, NewSlot
<1>6. QED
    BY <1>1, <1>2, <1>4, <1>5 DEF ClientInv, InStep

\* A sealed packet changes the packet id of the active slot only.
LEMMA SealKeepsClient ==
    ASSUME TypeOK, NonceInv, ClientInv, established, Seal
    PROVE  ClientInv'
<1>1. active_slot_idx \in SlotIdx /\ ActiveSlot \in KeySlot /\ ActiveSlot # None
    BY RotationAssumption DEF TypeOK, NonceInv, ActiveSlot
<1>2. slots' = [slots EXCEPT ![active_slot_idx] =
          [ActiveSlot EXCEPT !.data_pid_out = (ActiveSlot.data_pid_out + 1) % PidSpace]]
    BY DEF Seal, ActiveSlot
<1> DEFINE n == [ActiveSlot EXCEPT !.data_pid_out = (ActiveSlot.data_pid_out + 1) % PidSpace]
<1>3. n.key = ActiveSlot.key /\ n.key_id = ActiveSlot.key_id /\ n # None
    <2>1. (ActiveSlot.data_pid_out + 1) % PidSpace \in Pid
        BY <1>1, NextPid DEF KeySlot
    <2>2. n \in KeySlot
        BY <1>1, <2>1 DEF KeySlot
    <2>3. QED
        BY <1>1, <2>2, RotationAssumption DEF KeySlot
<1> HIDE DEF n
<1>4. \A i \in SlotIdx : slots'[i] = IF i = active_slot_idx THEN n ELSE slots[i]
    BY <1>2 DEF TypeOK, n
<1>5. /\ \A i \in SlotIdx : slots'[i] = None <=> slots[i] = None
      /\ \A i \in SlotIdx : slots[i] # None =>
             slots'[i].key = slots[i].key /\ slots'[i].key_id = slots[i].key_id
    BY <1>1, <1>3, <1>4 DEF ActiveSlot
<1>6. /\ UNCHANGED <<established, active_slot_idx, next_tls, to_server, to_client, client>>
      /\ rekey' = rekey
    BY DEF Seal, network
<1>7. QED
    BY <1>1, <1>5, <1>6, TrackKeepsClient

\* What the server does with a client's packet.
LEMMA PacketKeepsClient ==
    ASSUME TypeOK, NonceInv, ClientInv, established, NEW m \in to_server,
           SoftReset(m) \/ ControlV1(m)
    PROVE  ClientInv'
<1>1. m \in Packet /\ m.key_id \in KeyId
    BY DEF TypeOK, Packet
<1>2. CASE SoftReset(m)
    BY <1>1, <1>2, StartKeepsClient DEF SoftReset
<1>3. CASE RekeyFeedFails(m) \/ RekeyFinished(m)
    <2>1. rekey \in RekeyTrack /\ rekey # None
        BY <1>3 DEF RekeyFeedFails, RekeyFinished, ForTrack, TypeOK
    <2>2. rekey'.tls = rekey.tls /\ rekey'.peer = rekey.peer
        BY <1>3, <2>1 DEF RekeyFeedFails, RekeyFinished, RekeyTrack
    <2>3. UNCHANGED <<established, slots, active_slot_idx, next_tls, to_server, to_client, client>>
        BY <1>3 DEF RekeyFeedFails, RekeyFinished, network
    <2>4. active_slot_idx \in SlotIdx /\ ActiveSlot # None
        BY DEF TypeOK, NonceInv, ActiveSlot
    <2>5. QED
        BY <2>1, <2>2, <2>3, <2>4, TrackKeepsClient
<1>4. QED
    BY <1>2, <1>3, HelloKeepsClient, RotationKeepsClient, FailedSendKeepsClient
       DEF ControlV1

\* What the client does.
LEMMA ClientStepKeepsClient ==
    ASSUME TypeOK, NonceInv, ClientInv, established, Client
    PROVE  ClientInv'
<1>0. client \in ClientState /\ client.key_id \in KeyId
    BY DEF TypeOK, ClientState
<1>1. CASE ClientBegin
    <2> DEFINE k == (client.key_id + 1) % KeyIdSpace
    <2>1. k \in KeyId /\ k # client.key_id
        BY <1>0, RotationAssumption DEF KeyId
    <2> DEFINE M == {Msg("SoftReset", k, client.attempt + 1, None)}
    <2>2. \A m \in M : /\ m.attempt = client.attempt + 1 /\ m.key_id = k
                       /\ m.tls = None
        BY MsgFields
    <2>3. /\ client.rekeying = None /\ client.attempt + 1 \in Attempt
          /\ client' = [client EXCEPT !.attempt = client.attempt + 1,
                                      !.rekeying = [key_id |-> k, tls |-> None]]
          /\ to_server' = to_server \cup M
          /\ UNCHANGED server /\ Arriving' \subseteq Arriving
        BY <1>1 DEF ClientBegin, Arriving
    <2> HIDE DEF k, M
    <2>4. QED
        BY <2>1, <2>2, <2>3, AttemptKeepsClient
<1>2. CASE ClientSoftReset
    <2> DEFINE h == Head(to_client)
    <2>1. h \in Packet /\ h.key_id \in KeyId /\ Arriving' \subseteq Arriving
        BY <1>2, ArrivingTail DEF ClientSoftReset, Packet
    <2>2. UNCHANGED server
        BY <1>2 DEF ClientSoftReset
    <2>3. CASE /\ client.rekeying # None
               /\ h.key_id = client.rekeying.key_id
               /\ to_server' = to_server \cup {Msg("Hello", h.key_id, client.attempt, None)}
               /\ UNCHANGED client
        <3> DEFINE M == {Msg("Hello", h.key_id, client.attempt, None)}
        <3>1. \A m \in M : /\ client.rekeying # None
                           /\ m.attempt = client.attempt /\ m.tls = None
                           /\ m.key_id = client.rekeying.key_id
            BY <2>3, MsgFields
        <3>2. to_server' = to_server \cup M
            BY <2>3
        <3> HIDE DEF h, M
        <3>3. QED
            BY <2>1, <2>2, <2>3, <3>1, <3>2, ReadKeepsClient
    <2>4. CASE /\ client.rekeying = None
               /\ h.key_id # client.key_id
               /\ client.attempt + 1 \in Attempt
               /\ client' = [client EXCEPT
                      !.attempt = client.attempt + 1,
                      !.rekeying = [key_id |-> h.key_id, tls |-> None]]
               /\ to_server' = to_server \cup
                      {Msg("SoftReset", h.key_id, client.attempt + 1, None),
                       Msg("Hello", h.key_id, client.attempt + 1, None)}
        <3> DEFINE k == h.key_id
                   M == {Msg("SoftReset", h.key_id, client.attempt + 1, None),
                         Msg("Hello", h.key_id, client.attempt + 1, None)}
        <3>0. \A m \in M :
                  \/ m = Msg("SoftReset", k, client.attempt + 1, None)
                  \/ m = Msg("Hello", k, client.attempt + 1, None)
            OBVIOUS
        <3>1. \A m \in M : /\ m.attempt = client.attempt + 1 /\ m.key_id = k
                           /\ m.tls = None
            BY <3>0, MsgFields
        <3>2. /\ to_server' = to_server \cup M /\ k # client.key_id /\ k \in KeyId
              /\ client' = [client EXCEPT !.attempt = client.attempt + 1,
                                          !.rekeying = [key_id |-> k, tls |-> None]]
            BY <2>1, <2>4
        <3> HIDE DEF k, M
        <3>3. QED
            BY <2>1, <2>2, <2>4, <3>1, <3>2, AttemptKeepsClient
    <2>5. CASE UNCHANGED <<client, to_server>>
        <3> DEFINE sent == {}
        <3>1. to_server' = to_server \cup sent
            BY <2>5
        <3>2. \A m \in sent : /\ client.rekeying # None
                              /\ m.attempt = client.attempt /\ m.tls = None
                              /\ m.key_id = client.rekeying.key_id
            OBVIOUS
        <3> HIDE DEF sent
        <3>3. QED
            BY <2>1, <2>2, <2>5, <3>1, <3>2, ReadKeepsClient
    <2>6. QED
        BY <1>2, <2>3, <2>4, <2>5 DEF ClientSoftReset
<1>3. QED
    BY <1>1, <1>2, ClientHelloKeeps, ClientKeyMethod2Keeps DEF Client

\* Every step keeps the client in step with the slots, or one behind.
LEMMA NextClientInv == TypeOK /\ NonceInv /\ ClientInv /\ [Next]_vars => ClientInv'
<1> SUFFICES ASSUME TypeOK, NonceInv, ClientInv, [Next]_vars PROVE ClientInv'
    OBVIOUS
<1>1. CASE UNCHANGED vars
    <2>1. Arriving' = Arriving /\ Messages' = Messages /\ InContext' = InContext
        BY <1>1 DEF vars, network, Arriving, Messages, InContext
    <2>2. QED
        BY <1>1, <2>1 DEF vars, server, network, ClientInv, Untouched, AttemptInv,
           ContextInv, ChosenInv, ReplyInv, InStep, OneBehind, ActiveSlot, OtherSlot
<1>2. CASE Next /\ ~established
    BY <1>2, BeforeInitialKeys, InitialKeysGiveClient
<1>3. CASE Next /\ established
    <2>1. CASE ServerRekey
        <3>1. (ActiveSlot.key_id + 1) % KeyIdSpace \in KeyId
            BY <1>3, NextKeyId DEF NonceInv, ActiveSlot, TypeOK, KeySlot
        <3>2. QED
            BY <1>3, <2>1, <3>1, StartKeepsClient DEF ServerRekey
    <2>2. CASE ForwardTun \/ Ping
        BY <1>3, <2>2, SealKeepsClient DEF ForwardTun, Ping
    <2>3. QED
        BY <1>3, <2>1, <2>2, PacketKeepsClient, ClientStepKeepsClient
           DEF Next, InitialKeys
<1>4. QED
    BY <1>1, <1>2, <1>3

\* ClientKeyFound for any number of rekeys from either side, with the client's
\* packets lost, delayed, repeated and out of order: slot_by_key_id_mut finds
\* the key the client sends with, through install_slot and promote_slot.
THEOREM ClientKeyKept == Spec => []ClientKeyFound
<1>1. TypeOK /\ NonceInv /\ ClientInv => ClientKeyFound
    <2> SUFFICES ASSUME TypeOK, NonceInv, ClientInv, established
                 PROVE  /\ PositionOf(slots, client.key_id) # None
                        /\ slots[PositionOf(slots, client.key_id)].key = client.sending
        BY DEF ClientKeyFound
    <2>1. /\ None # 0 /\ None # 1 /\ active_slot_idx \in {0, 1} /\ ActiveSlot # None
        BY RotationAssumption DEF TypeOK, SlotIdx, NonceInv, ActiveSlot
    <2>2. CASE InStep
        <3>1. ActiveSlot.key_id = client.key_id /\ ActiveSlot.key = client.sending
            BY <2>2 DEF InStep
        <3>2. OtherSlot # None => OtherSlot.key_id # client.key_id
            BY <2>2 DEF InStep
        <3>3. QED
            BY <2>1, <3>1, <3>2 DEF PositionOf, ActiveSlot, OtherSlot
    <2>3. CASE OneBehind
        <3>1. ActiveSlot.key_id # client.key_id
            BY <2>3 DEF ClientInv, OneBehind
        <3>2. QED
            BY <2>1, <2>3, <3>1 DEF OneBehind, PositionOf, ActiveSlot, OtherSlot
    <2>4. QED
        BY <2>2, <2>3 DEF ClientInv
<1>2. IInv => TypeOK /\ NonceInv
    BY DEF IInv
<1>3. QED
    BY <1>1, <1>2, IInvariant, InitClientInv, NextClientInv, PTL DEF Spec

=============================================================================
