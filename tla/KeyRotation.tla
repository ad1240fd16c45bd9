----------------------------- MODULE KeyRotation -----------------------------
(***************************************************************************)
(* The data-channel keys of one session (src/src/session.rs) and how a     *)
(* rekey replaces them (src/src/server.rs): two key slots, the active one  *)
(* for sending, and at most one rekey track with a TLS context of its own. *)
(*                                                                         *)
(* A derived key is named by the TLS context it came out of, which has     *)
(* fresh randoms: 0 for the session's first, 1, 2, ... for the rekeys'.    *)
(*                                                                         *)
(* Packets to the server are a set from which nothing is ever removed, so  *)
(* they may be lost, delayed, reordered and repeated: handle_control_packet *)
(* hands every copy on, in the order of arrival.  The client is external.  *)
(* Its own reliability layer gives it the server's packets once and in     *)
(* order, so they are a sequence.                                          *)
(***************************************************************************)
EXTENDS Integers, Sequences

CONSTANTS
    KeyIdSpace,    \* number of key ids, 8 in the code
    PidSpace,      \* number of data packet ids, 2^32 in the code
    MaxTls,        \* bound: rekey TLS contexts the server creates
    MaxAttempts,   \* bound: rekeys the client takes part in
    MaxSeals,      \* bound: packets sealed with one key
    None

KeyId == 0 .. KeyIdSpace - 1
Pid == 0 .. PidSpace - 1
Key == 0 .. MaxTls
Attempt == 0 .. MaxAttempts
SlotIdx == {0, 1}

KeySlot == [key_id : KeyId, key : Key, data_pid_out : Pid]
RekeyTrack ==
    [key_id : KeyId, tls : Key, peer : Attempt \cup {None}, usable : BOOLEAN,
     state : {"Handshaking", "KeyExchange"}, key_method_sent : BOOLEAN]
Packet ==
    [type : {"SoftReset", "Hello", "Finished", "KeyMethod2"},
     key_id : KeyId, attempt : Attempt \cup {None}, tls : Key \cup {None}]

ClientRekey == [key_id : KeyId, tls : Key \cup {None}]
ClientState ==
    [attempt : Attempt, key_id : KeyId, keys : SUBSET Key, sending : Key,
     rekeying : ClientRekey \cup {None}]

ASSUME RotationAssumption ==
    /\ KeyIdSpace \in Nat /\ KeyIdSpace >= 2
    /\ PidSpace \in Nat /\ PidSpace >= 2
    /\ MaxTls \in Nat /\ MaxAttempts \in Nat /\ MaxSeals \in Nat
    /\ None \notin Nat /\ None \notin KeySlot /\ None \notin RekeyTrack
    /\ None \notin ClientRekey

VARIABLES
    established,      \* the session has reached State::Established
    slots,            \* Session::slots
    active_slot_idx,  \* Session::active_slot_idx
    rekey,            \* Session::rekey
    next_tls,         \* name of the next TLS context
    to_server,        \* packets the client has sent
    to_client,        \* packets on their way to the client, in order
    client,           \* the client's keys and rekey attempt
    seals,            \* history: how many packets each key has sealed
    nonces            \* history: the packet ids each key has sealed under

server == <<established, slots, active_slot_idx, rekey, next_tls>>
network == <<to_server, to_client>>
history == <<seals, nonces>>
vars == <<server, network, client, history>>

TypeOK ==
    /\ established \in BOOLEAN
    /\ slots \in [SlotIdx -> KeySlot \cup {None}]
    /\ active_slot_idx \in SlotIdx
    /\ rekey \in RekeyTrack \cup {None}
    /\ next_tls \in 1 .. MaxTls + 1
    /\ to_server \in SUBSET Packet
    /\ to_client \in Seq(Packet)
    /\ client \in ClientState
    /\ seals \in [Key -> 0 .. MaxSeals]
    /\ nonces \in [Key -> SUBSET Pid]

Init ==
    /\ established = FALSE
    /\ slots = [i \in SlotIdx |-> None]
    /\ active_slot_idx = 0
    /\ rekey = None
    /\ next_tls = 1
    /\ to_server = {}
    /\ to_client = <<>>
    /\ client = [attempt |-> 0, key_id |-> 0, keys |-> {}, sending |-> 0,
                 rekeying |-> None]
    /\ seals = [k \in Key |-> 0]
    /\ nonces = [k \in Key |-> {}]

-----------------------------------------------------------------------------
(***************************************************************************)
(* Session: slots and the rekey track.                                     *)
(***************************************************************************)
NewSlot(k, key) == [key_id |-> k, key |-> key, data_pid_out |-> 1]

ActiveSlot == slots[active_slot_idx]

\* Mutant of InstallSlot: the new key takes the active slot's place.
InstallSlotActive(slot) == [slots EXCEPT ![active_slot_idx] = slot]

\* install_slot: into the position that is not active.
InstallSlot(slot) == [slots EXCEPT ![1 - active_slot_idx] = slot]

\* slot_by_key_id_mut and promote_slot: the first slot with the key id.
PositionOf(ss, k) ==
    IF ss[0] # None /\ ss[0].key_id = k THEN 0
    ELSE IF ss[1] # None /\ ss[1].key_id = k THEN 1
    ELSE None

PromoteSlot(ss, k) ==
    IF PositionOf(ss, k) = None THEN active_slot_idx ELSE PositionOf(ss, k)

\* start_rekey, with a TLS context from TlsSession::new.
StartRekey(k) ==
    /\ next_tls <= MaxTls
    /\ rekey' = [key_id |-> k, tls |-> next_tls, peer |-> None, usable |-> TRUE,
                 state |-> "Handshaking", key_method_sent |-> FALSE]
    /\ next_tls' = next_tls + 1

Msg(type, k, attempt, tls) ==
    [type |-> type, key_id |-> k, attempt |-> attempt, tls |-> tls]

\* The first key: key-method-2 runs install_prf_slot(0) and the PUSH_REQUEST,
\* which shows that the client has the key too, makes the session Established.
InitialKeys ==
    /\ ~established
    /\ established' = TRUE
    /\ slots' = [slots EXCEPT ![0] = NewSlot(0, 0)]
    /\ active_slot_idx' = 0
    /\ client' = [client EXCEPT !.keys = {0}]
    /\ UNCHANGED <<rekey, next_tls, network, history>>

\* The timer of the server-initiated rekey, once reneg_sec is over.
ServerRekey ==
    /\ established
    /\ rekey = None
    /\ LET k == (ActiveSlot.key_id + 1) % KeyIdSpace IN
       /\ StartRekey(k)
       /\ to_client' = Append(to_client, Msg("SoftReset", k, None, None))
    /\ UNCHANGED <<established, slots, active_slot_idx, to_server, client, history>>

\* A SOFT_RESET arrives.  With a rekey under way it is ignored.
SoftReset(m) ==
    /\ m.type = "SoftReset"
    /\ established
    /\ rekey = None
    /\ StartRekey(m.key_id)
    /\ to_client' = Append(to_client, Msg("SoftReset", m.key_id, None, None))
    /\ UNCHANGED <<established, slots, active_slot_idx, to_server, client, history>>

\* handle_rekey_control takes the ControlV1 packets with the track's key id;
\* others go to the session's first TLS context and touch no key.
ForTrack(m) ==
    /\ m.type # "SoftReset"
    /\ rekey # None
    /\ m.key_id = rekey.key_id

\* The record is the one the TLS context waits for.
Expected(m) ==
    /\ rekey.usable
    /\ CASE m.type = "Hello" -> rekey.peer = None
         [] m.type = "Finished" -> /\ m.attempt = rekey.peer
                                   /\ m.tls = rekey.tls
                                   /\ rekey.state = "Handshaking"
         [] m.type = "KeyMethod2" -> /\ m.attempt = rekey.peer
                                     /\ m.tls = rekey.tls
                                     /\ rekey.state = "KeyExchange"
                                     /\ ~rekey.key_method_sent

\* Any other record is a TLS error, and rustls repeats an error for ever.
RekeyFeedFails(m) ==
    /\ ForTrack(m)
    /\ ~Expected(m)
    /\ rekey' = [rekey EXCEPT !.usable = FALSE]
    /\ UNCHANGED <<established, slots, active_slot_idx, next_tls, network,
                   client, history>>

\* The client's hello: the TLS context answers through flush_rekey_outgoing.
RekeyHello(m) ==
    /\ ForTrack(m) /\ m.type = "Hello" /\ Expected(m)
    /\ rekey' = [rekey EXCEPT !.peer = m.attempt]
    /\ to_client' = Append(to_client, Msg("Hello", m.key_id, m.attempt, rekey.tls))
    /\ UNCHANGED <<established, slots, active_slot_idx, next_tls, to_server,
                   client, history>>

\* The handshake completes.
RekeyFinished(m) ==
    /\ ForTrack(m) /\ m.type = "Finished" /\ Expected(m)
    /\ rekey' = [rekey EXCEPT !.state = "KeyExchange"]
    /\ UNCHANGED <<established, slots, active_slot_idx, next_tls, network,
                   client, history>>

\* drive_rekey_control_plane on the client's key-method-2: derive the key,
\* install the slot, reply; then handle_rekey_control promotes the slot and
\* clears the track.  A failed send returns before that.
RekeyKeyMethod2(m) ==
    /\ ForTrack(m) /\ m.type = "KeyMethod2" /\ Expected(m)
    /\ slots' = InstallSlot(NewSlot(m.key_id, rekey.tls))
    /\ \/ /\ to_client' =
                 Append(to_client, Msg("KeyMethod2", m.key_id, m.attempt, rekey.tls))
          /\ active_slot_idx' = PromoteSlot(slots', m.key_id)
          /\ rekey' = None
       \/ /\ rekey' = [rekey EXCEPT !.key_method_sent = TRUE]
          /\ UNCHANGED <<to_client, active_slot_idx>>
    /\ UNCHANGED <<established, next_tls, to_server, client, history>>

\* Mutant of Seal: the packet id is not written back to the slot.
SealKeepsPid ==
    /\ seals[ActiveSlot.key] < MaxSeals
    /\ seals' = [seals EXCEPT ![ActiveSlot.key] = @ + 1]
    /\ nonces' = [nonces EXCEPT ![ActiveSlot.key] = @ \cup {ActiveSlot.data_pid_out}]
    /\ UNCHANGED <<server, network, client>>

\* Mutant of Seal: the packet id does not wrap.
SealNoWrap ==
    /\ seals[ActiveSlot.key] < MaxSeals
    /\ slots' = [slots EXCEPT ![active_slot_idx].data_pid_out = @ + 1]
    /\ seals' = [seals EXCEPT ![ActiveSlot.key] = @ + 1]
    /\ nonces' = [nonces EXCEPT ![ActiveSlot.key] = @ \cup {ActiveSlot.data_pid_out}]
    /\ UNCHANGED <<established, active_slot_idx, rekey, next_tls, network, client>>

\* build_data_packet
Seal ==
    /\ seals[ActiveSlot.key] < MaxSeals
    /\ slots' = [slots EXCEPT ![active_slot_idx].data_pid_out = (@ + 1) % PidSpace]
    /\ seals' = [seals EXCEPT ![ActiveSlot.key] = @ + 1]
    /\ nonces' = [nonces EXCEPT ![ActiveSlot.key] = @ \cup {ActiveSlot.data_pid_out}]
    /\ UNCHANGED <<established, active_slot_idx, rekey, next_tls, network, client>>

\* A packet from the TUN device for the session's client.
ForwardTun == ActiveSlot # None /\ Seal

\* The occ-ping task.
Ping == established /\ ActiveSlot # None /\ Seal

-----------------------------------------------------------------------------
(***************************************************************************)
(* The client (external).  It takes part in one rekey at a time, under a   *)
(* key id it does not use yet, and sends with the newest key it has.       *)
(***************************************************************************)
ClientBegin ==
    LET k == (client.key_id + 1) % KeyIdSpace
        n == client.attempt + 1
    IN
    /\ established
    /\ client.rekeying = None
    /\ n \in Attempt
    /\ client' = [client EXCEPT !.attempt = n,
                                !.rekeying = [key_id |-> k, tls |-> None]]
    /\ to_server' = to_server \cup {Msg("SoftReset", k, n, None)}
    /\ UNCHANGED <<server, to_client, history>>

\* The server's SOFT_RESET: an answer to the client's, or a request.
ClientSoftReset ==
    LET m == Head(to_client) IN
    /\ to_client # <<>> /\ m.type = "SoftReset"
    /\ to_client' = Tail(to_client)
    /\ \/ /\ client.rekeying # None
          /\ m.key_id = client.rekeying.key_id
          /\ to_server' = to_server \cup {Msg("Hello", m.key_id, client.attempt, None)}
          /\ UNCHANGED client
       \/ /\ client.rekeying = None
          /\ m.key_id # client.key_id
          /\ client.attempt + 1 \in Attempt
          /\ client' = [client EXCEPT
                 !.attempt = @ + 1,
                 !.rekeying = [key_id |-> m.key_id, tls |-> None]]
          /\ to_server' = to_server \cup
                 {Msg("SoftReset", m.key_id, client.attempt + 1, None),
                  Msg("Hello", m.key_id, client.attempt + 1, None)}
       \/ /\ \/ client.rekeying = None /\ m.key_id = client.key_id
             \/ client.rekeying # None /\ m.key_id # client.rekeying.key_id
          /\ UNCHANGED <<client, to_server>>
    /\ UNCHANGED <<server, history>>

\* The server's half of the handshake: finish it and send key-method-2.
ClientHello ==
    LET m == Head(to_client) IN
    /\ to_client # <<>> /\ m.type = "Hello"
    /\ to_client' = Tail(to_client)
    /\ IF /\ client.rekeying # None
          /\ client.rekeying.tls = None
          /\ m.attempt = client.attempt
       THEN /\ client' = [client EXCEPT !.rekeying.tls = m.tls]
            /\ to_server' = to_server \cup
                   {Msg("Finished", m.key_id, m.attempt, m.tls),
                    Msg("KeyMethod2", m.key_id, m.attempt, m.tls)}
       ELSE UNCHANGED <<client, to_server>>
    /\ UNCHANGED <<server, history>>

\* The server's key-method-2: the client has the new key and sends with it.
ClientKeyMethod2 ==
    LET m == Head(to_client) IN
    /\ to_client # <<>> /\ m.type = "KeyMethod2"
    /\ to_client' = Tail(to_client)
    /\ IF /\ client.rekeying # None
          /\ client.rekeying.tls # None
          /\ m.tls = client.rekeying.tls
       THEN client' = [client EXCEPT !.keys = @ \cup {m.tls},
                                     !.sending = m.tls,
                                     !.key_id = m.key_id,
                                     !.rekeying = None]
       ELSE UNCHANGED client
    /\ UNCHANGED <<server, to_server, history>>

ControlV1(m) ==
    \/ RekeyFeedFails(m) \/ RekeyHello(m) \/ RekeyFinished(m) \/ RekeyKeyMethod2(m)

Client == ClientBegin \/ ClientSoftReset \/ ClientHello \/ ClientKeyMethod2

Next ==
    \/ InitialKeys
    \/ ServerRekey
    \/ \E m \in to_server : SoftReset(m) \/ ControlV1(m)
    \/ ForwardTun \/ Ping
    \/ Client

Spec == Init /\ [][Next]_vars

-----------------------------------------------------------------------------
\* No key seals two packets under one packet id, through any number of
\* rotations, until the 32-bit id has been all the way round: a nonce is the
\* packet id and a part of the key (DataCipher::seal).
NoncesUnique ==
    [][\A k \in Key :
          seals'[k] # seals[k] /\ seals[k] < PidSpace =>
              nonces'[k] # nonces[k]]_vars

\* The key the client sends with is the one the server finds under its key
\* id, at every moment of every rotation: no packet of a client that is up
\* to date fails to decrypt because of the slots.
ClientKeyFound ==
    established =>
        LET i == PositionOf(slots, client.key_id) IN
        i # None /\ slots[i].key = client.sending

\* "we switch the outbound side over once both peers have the new keys"
\* (src/src/session.rs:111-112): the client has the key the server sends with.
ActiveKeyShared ==
    established => ActiveSlot.key \in client.keys

\* A rekey track "lives only while a rekey is in progress; cleared once the
\* new keys are active" (src/src/session.rs:60-61): no track is for the key
\* id that is active already.
TrackIsNew ==
    rekey # None => rekey.key_id # ActiveSlot.key_id

=============================================================================
