---------------------------- MODULE SessionTable ----------------------------
(***************************************************************************)
(* The shared tables of VpnServer (src/src/server.rs) and the tasks that   *)
(* change them concurrently: the UDP receive loop, one task per TCP        *)
(* stream, the idle reaper and the per-session data workers.               *)
(*                                                                         *)
(* A step is one operation on one table, or everything a task does while   *)
(* it holds a session's mutex where no other task can see the middle.      *)
(* peers, data_routes and routes_v6 change in one step with the table      *)
(* changed next to them: they are keyed by a value only one session has,   *)
(* so what another task does in between commutes with them.                *)
(*                                                                         *)
(* Time is abstract: idle is true when last_seen is keepalive_timeout or   *)
(* more before the time the reaper last took or will take for now.  It may *)
(* turn true until the reaper takes that time, and every assignment to     *)
(* last_seen turns it false.  TLS, key-method-2 and the packet formats are *)
(* reduced to the messages they carry.                                     *)
(***************************************************************************)
EXTENDS Integers

CONSTANTS
    UdpAddr,        \* peer socket addresses seen by the UDP loop
    TcpAddr,        \* peer socket addresses of accepted TCP streams
    Udp,            \* the UDP receive loop's name as a task
    CommonName,     \* the names client certificates may carry
    StaticIp,       \* client_configs[cn].assign_ip; None when absent
    PoolStart,      \* client_pool_start and client_pool_end
    PoolEnd,
    PoolEndV6,      \* last address of the IPv6 pool 1 .. PoolEndV6
    V6Enabled,      \* whether tun_ip6 is configured
    PeerIdSpace,    \* number of peer ids, 2^24 in the code
    MaxSessions,    \* bound: HARD_RESETs that start a session
    None

Addr == UdpAddr \cup TcpAddr
Task == {Udp} \cup TcpAddr
Session == 1 .. MaxSessions       \* a session is named by its fetch_add value
PeerId == 0 .. PeerIdSpace - 1
PoolIp == PoolStart .. PoolEnd
Ip == PoolIp \cup {StaticIp[cn] : cn \in {c \in CommonName : StaticIp[c] # None}}
IpV6 == 1 .. PoolEndV6

ASSUME TableAssumption ==
    /\ PoolStart \in Nat /\ PoolEnd \in Nat /\ PoolStart <= PoolEnd + 1
    /\ PoolEndV6 \in Nat
    /\ V6Enabled \in BOOLEAN
    /\ MaxSessions \in Nat
    /\ PeerIdSpace \in Nat \ {0}
    /\ StaticIp \in [CommonName -> Nat \cup {None}]
    /\ Udp \notin TcpAddr
    /\ None \notin Nat /\ None \notin Addr /\ None \notin CommonName

VARIABLES
    sessions,         \* DashMap SocketAddr -> Arc<Mutex<Session>>
    routes,           \* DashMap Ipv4Addr -> SocketAddr
    routes_v6,        \* DashMap Ipv6Addr -> SocketAddr
    peers,            \* DashMap peer id -> SocketAddr
    data_routes,      \* DashMap peer id -> inlet of the session's data worker
    next_peer_id,     \* AtomicU32
    next_pool_ip,     \* Mutex<Ipv4Addr>
    next_pool_ip_v6,  \* Mutex<Ipv6Addr>
    session,          \* the Session structs behind the Arcs
    task,             \* where each receive task is in handle_control_packet
    reaper            \* where the idle reaper is in its loop

tables == <<sessions, routes, routes_v6, peers, data_routes>>
pools == <<next_peer_id, next_pool_ip, next_pool_ip_v6>>
vars == <<tables, pools, session, task, reaper>>

SessionState == {"WaitingHardReset", "Handshaking", "KeyExchange",
                 "PushPending", "Established", "Closed"}
TaskPc == {"closed", "recv", "insert", "worker", "lock", "drive", "route", "eof"}
ReaperPc == {"sleep", "next", "read", "evict", "cleanup"}

SessionStruct ==
    [state : SessionState, idle : BOOLEAN, cn : CommonName \cup {None},
     assigned_ip : Ip \cup {None}, assigned_ip_v6 : IpV6 \cup {None}]
TaskLocals ==
    [pc : TaskPc, addr : Addr \cup {None}, sess : Session \cup {None},
     ip : Ip \cup {None}]
ReaperLocals ==
    [pc : ReaperPc, candidates : SUBSET Addr, addr : Addr \cup {None},
     sess : Session \cup {None}, assigned : Ip \cup {None},
     assigned_v6 : IpV6 \cup {None}]

TypeOK ==
    /\ sessions \in [Addr -> Session \cup {None}]
    /\ routes \in [Ip -> Addr \cup {None}]
    /\ routes_v6 \in [IpV6 -> Addr \cup {None}]
    /\ peers \in [PeerId -> Addr \cup {None}]
    /\ data_routes \in [PeerId -> Session \cup {None}]
    /\ next_peer_id \in 1 .. MaxSessions + 1
    /\ next_pool_ip \in PoolStart .. PoolEnd + 1
    /\ next_pool_ip_v6 \in 1 .. PoolEndV6 + 1
    /\ session \in [Session -> SessionStruct]
    /\ task \in [Task -> TaskLocals]
    /\ reaper \in ReaperLocals

\* Mutant of PeerIdOf: the counter is read and not advanced.
PeerIdOfFirst(s) == 1 % PeerIdSpace

\* The 24 bits of the counter value that reach the wire.
PeerIdOf(s) == s % PeerIdSpace

\* Session::new
NewSession ==
    [state |-> "WaitingHardReset", idle |-> FALSE, cn |-> None,
     assigned_ip |-> None, assigned_ip_v6 |-> None]

Idling == [pc |-> "recv", addr |-> None, sess |-> None, ip |-> None]

\* A task holds the session's mutex from one step to the next only while it
\* goes round the loop of drive_control_plane.
Unlocked(s) ==
    \A t \in Task : task[t].sess = s => task[t].pc \notin {"drive", "route"}

\* None of the tasks T has a reference to the session.  When an evicted
\* session's last Arc goes, the struct is freed: it is NewSession again.
NoTaskHolds(s, T) == \A t \in T : task[t].sess # s

RegisteredAt(s, a) == sessions[a] = s
Registered(s) == \E a \in Addr : RegisteredAt(s, a)

\* map with the keys K removed (DashMap::remove).
Remove(map, K) == [k \in DOMAIN map |-> IF k \in K THEN None ELSE map[k]]

Init ==
    /\ sessions = [a \in Addr |-> None]
    /\ routes = [i \in Ip |-> None]
    /\ routes_v6 = [i \in IpV6 |-> None]
    /\ peers = [p \in PeerId |-> None]
    /\ data_routes = [p \in PeerId |-> None]
    /\ next_peer_id = 1
    /\ next_pool_ip = PoolStart
    /\ next_pool_ip_v6 = 1
    /\ session = [s \in Session |-> NewSession]
    /\ task = [t \in Task |->
                  IF t = Udp THEN Idling ELSE [Idling EXCEPT !.pc = "closed"]]
    /\ reaper = [pc |-> "sleep", candidates |-> {}, addr |-> None,
                 sess |-> None, assigned |-> None, assigned_v6 |-> None]

-----------------------------------------------------------------------------
(***************************************************************************)
(* handle_control_packet, run by the UDP loop for every UDP peer and by a  *)
(* stream's task for that stream's peer.                                   *)
(***************************************************************************)
AddrsOf(t) == IF t = Udp THEN UdpAddr ELSE {t}

\* A HARD_RESET from an address without a session: take a peer id, build the
\* session and send the reply.  When the send fails the id is spent and
\* nothing is stored.
HardReset(t, a) ==
    /\ task[t].pc = "recv"
    /\ a \in AddrsOf(t)
    /\ sessions[a] = None
    /\ next_peer_id \in Session
    /\ next_peer_id' = next_peer_id + 1
    /\ \/ UNCHANGED <<session, task>>
       \/ /\ session' = [session EXCEPT ![next_peer_id].state = "Handshaking"]
          /\ task' = [task EXCEPT ![t] =
                 [pc |-> "insert", addr |-> a, sess |-> next_peer_id, ip |-> None]]
    /\ UNCHANGED <<tables, next_pool_ip, next_pool_ip_v6, reaper>>

\* The session enters the table ...
InsertSession(t) ==
    /\ task[t].pc = "insert"
    /\ sessions' = [sessions EXCEPT ![task[t].addr] = task[t].sess]
    /\ task' = [task EXCEPT ![t].pc = "worker"]
    /\ UNCHANGED <<routes, routes_v6, peers, data_routes, pools, session, reaper>>

\* ... and gets its peer id's entries (data_routes in spawn_data_worker).
SpawnDataWorker(t) ==
    LET p == PeerIdOf(task[t].sess) IN
    /\ task[t].pc = "worker"
    /\ peers' = [peers EXCEPT ![p] = task[t].addr]
    /\ data_routes' = [data_routes EXCEPT ![p] = task[t].sess]
    /\ task' = [task EXCEPT ![t] = Idling]
    /\ UNCHANGED <<sessions, routes, routes_v6, pools, session, reaper>>

\* Any other packet: find the session (an unknown peer is ignored) and wait
\* for its mutex.  A HARD_RESET from a known address also comes here.
LookUp(t, a) ==
    /\ task[t].pc = "recv"
    /\ a \in AddrsOf(t)
    /\ sessions[a] # None
    /\ task' = [task EXCEPT ![t] =
           [pc |-> "lock", addr |-> a, sess |-> sessions[a], ip |-> None]]
    /\ UNCHANGED <<tables, pools, session, reaper>>

\* The mutex is taken, and last_seen set to now before anything is checked;
\* or the task already holds it and looks for a further message.
Locked(t, s) ==
    /\ s = task[t].sess
    /\ \/ task[t].pc = "drive"
       \/ task[t].pc = "lock" /\ Unlocked(s)

\* The message is dealt with; the loop looks for the next one.
Continue(t) == task' = [task EXCEPT ![t] = [@ EXCEPT !.pc = "drive", !.ip = None]]

\* The packet has no (further) message for the session's state: an ACK, a
\* replay, a TLS error, an operation or message that is not handled, or the
\* end of the plaintext.
Touch(t) ==
    \E s \in Session :
        /\ Locked(t, s)
        /\ session' = [session EXCEPT ![s].idle = FALSE]
        /\ task' = [task EXCEPT ![t] = Idling]
        /\ UNCHANGED <<tables, pools, reaper>>

\* The TLS handshake completes: finalize_keys records the certificate's name.
FinalizeKeys(t) ==
    \E s \in Session, cn \in CommonName \cup {None} :
        /\ Locked(t, s)
        /\ session[s].state = "Handshaking"
        /\ session' = [session EXCEPT ![s].idle = FALSE,
                                      ![s].cn = cn,
                                      ![s].state = "KeyExchange"]
        /\ Continue(t)
        /\ UNCHANGED <<tables, pools, reaper>>

\* The client's key-method-2 arrives: the first key slot is installed.
KeyMethod2(t) ==
    \E s \in Session :
        /\ Locked(t, s)
        /\ session[s].state = "KeyExchange"
        /\ session' = [session EXCEPT ![s].idle = FALSE,
                                      ![s].state = "PushPending"]
        /\ Continue(t)
        /\ UNCHANGED <<tables, pools, reaper>>

StaticOf(s) == IF session[s].cn = None THEN None ELSE StaticIp[session[s].cn]

\* Mutant of PushStatic: the address is taken whether or not it is in use.
PushStaticUnchecked(t) ==
    \E s \in Session :
        /\ Locked(t, s)
        /\ session[s].state = "PushPending"
        /\ StaticOf(s) # None
        /\ session' = [session EXCEPT ![s].idle = FALSE]
        /\ task' = [task EXCEPT ![t].pc = "route", ![t].ip = StaticOf(s)]
        /\ UNCHANGED <<tables, pools, reaper>>

\* PUSH_REQUEST from a client with a static address: refused while a route
\* for the address exists, otherwise on to AddRoutes with the mutex held.
PushStatic(t) ==
    \E s \in Session :
        /\ Locked(t, s)
        /\ session[s].state = "PushPending"
        /\ StaticOf(s) # None
        /\ session' = [session EXCEPT ![s].idle = FALSE]
        /\ task' = [task EXCEPT ![t] =
               IF routes[StaticOf(s)] # None
               THEN Idling
               ELSE [@ EXCEPT !.pc = "route", !.ip = StaticOf(s)]]
        /\ UNCHANGED <<tables, pools, reaper>>

\* Mutant of AllocateIp: the end of the pool is tested one address late.
AllocateIpPastEnd == IF next_pool_ip > PoolEnd + 1 THEN None ELSE next_pool_ip

\* The address at the pool's cursor, None when that has passed the end.
AllocateIp == IF next_pool_ip > PoolEnd THEN None ELSE next_pool_ip

AllocateIpV6 == IF next_pool_ip_v6 > PoolEndV6 THEN None ELSE next_pool_ip_v6

\* Mutant of PushPool: the cursor stays where it is.
PushPoolStuck(t) ==
    \E s \in Session :
        /\ Locked(t, s)
        /\ session[s].state = "PushPending"
        /\ StaticOf(s) = None
        /\ session' = [session EXCEPT ![s].idle = FALSE]
        /\ task' = [task EXCEPT ![t].pc = "route", ![t].ip = next_pool_ip]
        /\ UNCHANGED <<tables, pools, reaper>>

\* PUSH_REQUEST from any other client: the cursor moves on, or the pool is
\* exhausted and the handler fails.
PushPool(t) ==
    \E s \in Session :
        /\ Locked(t, s)
        /\ session[s].state = "PushPending"
        /\ StaticOf(s) = None
        /\ session' = [session EXCEPT ![s].idle = FALSE]
        /\ IF AllocateIp = None
           THEN /\ task' = [task EXCEPT ![t] = Idling]
                /\ UNCHANGED next_pool_ip
           ELSE /\ task' = [task EXCEPT ![t] =
                       [@ EXCEPT !.pc = "route", !.ip = AllocateIp]]
                /\ next_pool_ip' = next_pool_ip + 1
        /\ UNCHANGED <<tables, next_peer_id, next_pool_ip_v6, reaper>>

\* The IPv4 address is stored and routed; then an IPv6 address is allocated
\* and routed if IPv6 is on.  An exhausted IPv6 pool fails the handler after
\* the IPv4 route is in place.  PUSH_REPLY makes the session Established.
AddRoutes(t) ==
    LET s  == task[t].sess
        a  == task[t].addr
        i6 == AllocateIpV6
    IN
    /\ task[t].pc = "route"
    /\ routes' = [routes EXCEPT ![task[t].ip] = a]
    /\ \/ /\ ~V6Enabled
          /\ session' = [session EXCEPT ![s].assigned_ip = task[t].ip,
                                        ![s].state = "Established"]
          /\ Continue(t)
          /\ UNCHANGED <<routes_v6, next_pool_ip_v6>>
       \/ /\ V6Enabled
          /\ i6 = None
          /\ session' = [session EXCEPT ![s].assigned_ip = task[t].ip]
          /\ task' = [task EXCEPT ![t] = Idling]
          /\ UNCHANGED <<routes_v6, next_pool_ip_v6>>
       \/ /\ V6Enabled
          /\ i6 # None
          /\ session' = [session EXCEPT ![s].assigned_ip = task[t].ip,
                                        ![s].assigned_ip_v6 = i6,
                                        ![s].state = "Established"]
          /\ routes_v6' = [routes_v6 EXCEPT ![i6] = a]
          /\ next_pool_ip_v6' = i6 + 1
          /\ Continue(t)
    /\ UNCHANGED <<sessions, peers, data_routes, next_peer_id, next_pool_ip, reaper>>

\* EXIT or CC_EXIT: the session is Closed and stays in every table.
Exit(t) ==
    \E s \in Session :
        /\ Locked(t, s)
        /\ session[s].state = "Established"
        /\ session' = [session EXCEPT ![s].idle = FALSE, ![s].state = "Closed"]
        /\ task' = [task EXCEPT ![t] = Idling]
        /\ UNCHANGED <<tables, pools, reaper>>

-----------------------------------------------------------------------------
(***************************************************************************)
(* run_tcp_stream outside handle_control_packet.                           *)
(***************************************************************************)
Accept(t) ==
    /\ t # Udp
    /\ task[t].pc = "closed"
    /\ task' = [task EXCEPT ![t] = Idling]
    /\ UNCHANGED <<tables, pools, session, reaper>>

\* End of stream: the session is removed by address ...
StreamEof(t) ==
    /\ t # Udp
    /\ task[t].pc = "recv"
    /\ sessions' = [sessions EXCEPT ![t] = None]
    /\ task' = [task EXCEPT ![t] =
           IF sessions[t] = None
           THEN [Idling EXCEPT !.pc = "closed"]
           ELSE [pc |-> "eof", addr |-> t, sess |-> sessions[t], ip |-> None]]
    /\ UNCHANGED <<routes, routes_v6, peers, data_routes, pools, session, reaper>>

\* ... and then, under its mutex, everything it owns in the other tables.
StreamCleanup(t) ==
    LET s == task[t].sess
        p == PeerIdOf(s)
    IN
    /\ task[t].pc = "eof"
    /\ Unlocked(s)
    /\ routes' = Remove(routes, {session[s].assigned_ip})
    /\ routes_v6' = Remove(routes_v6, {session[s].assigned_ip_v6})
    /\ peers' = Remove(peers, {p})
    /\ data_routes' = Remove(data_routes, {p})
    /\ session' = IF reaper.sess # s /\ NoTaskHolds(s, Task \ {t})
                  THEN [session EXCEPT ![s] = NewSession]
                  ELSE session
    /\ task' = [task EXCEPT ![t] = [Idling EXCEPT !.pc = "closed"]]
    /\ UNCHANGED <<sessions, pools, reaper>>

-----------------------------------------------------------------------------
(***************************************************************************)
(* The idle reaper.  It reads a session under its mutex, releases the      *)
(* mutex, and then removes by address and by the values it read.           *)
(***************************************************************************)
ReaperTick ==
    /\ reaper.pc = "sleep"
    /\ reaper' = [reaper EXCEPT !.pc = "next",
                                !.candidates = {a \in Addr : sessions[a] # None}]
    /\ UNCHANGED <<tables, pools, session, task>>

ReaperGet(a) ==
    /\ reaper.pc = "next"
    /\ a \in reaper.candidates
    /\ reaper' = IF sessions[a] = None
                 THEN [reaper EXCEPT !.candidates = @ \ {a}]
                 ELSE [reaper EXCEPT !.candidates = @ \ {a}, !.pc = "read",
                                     !.addr = a, !.sess = sessions[a]]
    /\ UNCHANGED <<tables, pools, session, task>>

\* Back to the loop over the candidates, with the locals gone.
ReaperNext(r) ==
    [r EXCEPT !.pc = "next", !.addr = None, !.sess = None,
              !.assigned = None, !.assigned_v6 = None]

\* Mutant of ReaperRead: the comparison with the timeout is turned round.
ReaperReadTurned ==
    LET s == session[reaper.sess] IN
    /\ reaper.pc = "read"
    /\ Unlocked(reaper.sess)
    /\ reaper' = IF s.idle
                 THEN ReaperNext(reaper)
                 ELSE [reaper EXCEPT !.pc = "evict",
                                     !.assigned = s.assigned_ip,
                                     !.assigned_v6 = s.assigned_ip_v6]
    /\ UNCHANGED <<tables, pools, session, task>>

ReaperRead ==
    LET s == session[reaper.sess] IN
    /\ reaper.pc = "read"
    /\ Unlocked(reaper.sess)
    /\ reaper' = IF s.idle
                 THEN [reaper EXCEPT !.pc = "evict",
                                     !.assigned = s.assigned_ip,
                                     !.assigned_v6 = s.assigned_ip_v6]
                 ELSE ReaperNext(reaper)
    /\ UNCHANGED <<tables, pools, session, task>>

EvictSession ==
    /\ reaper.pc = "evict"
    /\ sessions' = Remove(sessions, {reaper.addr})
    /\ reaper' = [reaper EXCEPT !.pc = "cleanup"]
    /\ UNCHANGED <<routes, routes_v6, peers, data_routes, pools, session, task>>

\* Mutant of EvictRest: the worker's inlet is left behind.
EvictRestKeepsWorker ==
    LET s == reaper.sess IN
    /\ reaper.pc = "cleanup"
    /\ routes' = Remove(routes, {reaper.assigned})
    /\ routes_v6' = Remove(routes_v6, {reaper.assigned_v6})
    /\ peers' = Remove(peers, {PeerIdOf(s)})
    /\ session' = IF NoTaskHolds(s, Task)
                  THEN [session EXCEPT ![s] = NewSession]
                  ELSE session
    /\ reaper' = ReaperNext(reaper)
    /\ UNCHANGED <<sessions, data_routes, pools, task>>

\* The other tables, by the values read; then the reaper's Arc is dropped.
EvictRest ==
    LET s == reaper.sess
        p == PeerIdOf(s)
    IN
    /\ reaper.pc = "cleanup"
    /\ routes' = Remove(routes, {reaper.assigned})
    /\ routes_v6' = Remove(routes_v6, {reaper.assigned_v6})
    /\ peers' = Remove(peers, {p})
    /\ data_routes' = Remove(data_routes, {p})
    /\ session' = IF NoTaskHolds(s, Task)
                  THEN [session EXCEPT ![s] = NewSession]
                  ELSE session
    /\ reaper' = ReaperNext(reaper)
    /\ UNCHANGED <<sessions, pools, task>>

ReaperDone ==
    /\ reaper.pc = "next"
    /\ reaper.candidates = {}
    /\ reaper' = [reaper EXCEPT !.pc = "sleep"]
    /\ UNCHANGED <<tables, pools, session, task>>

-----------------------------------------------------------------------------
\* route_data: the peer id in the packet leads to the session's worker.
RouteData(s) == data_routes[PeerIdOf(s)] = s

\* A data packet that decrypts, on the session's data worker: last_seen is
\* set, which shows once the session was idle.  There is a key slot from
\* key-method-2 on.
DataPacket(s) ==
    /\ RouteData(s)
    /\ session[s].state \in {"PushPending", "Established", "Closed"}
    /\ session[s].idle
    /\ Unlocked(s)
    /\ session' = [session EXCEPT ![s].idle = FALSE]
    /\ UNCHANGED <<tables, pools, task, reaper>>

\* keepalive_timeout passes without a packet: far longer than a handler
\* takes, so none is at work on the session.  The reaper compares last_seen
\* with the time of its tick, so nothing turns idle for it during a walk.
GoIdle(s) ==
    /\ reaper.pc = "sleep"
    /\ Registered(s)
    /\ ~session[s].idle
    /\ NoTaskHolds(s, Task)
    /\ session' = [session EXCEPT ![s].idle = TRUE]
    /\ UNCHANGED <<tables, pools, task, reaper>>

HandlePacket(t) ==
    \/ InsertSession(t) \/ SpawnDataWorker(t)
    \/ Touch(t) \/ FinalizeKeys(t) \/ KeyMethod2(t)
    \/ PushStatic(t) \/ PushPool(t) \/ AddRoutes(t) \/ Exit(t)

Reaper ==
    \/ ReaperTick \/ (\E a \in Addr : ReaperGet(a)) \/ ReaperRead
    \/ EvictSession \/ EvictRest \/ ReaperDone

Next ==
    \/ \E t \in Task :
          \/ \E a \in Addr : HardReset(t, a) \/ LookUp(t, a)
          \/ HandlePacket(t)
          \/ Accept(t) \/ StreamEof(t) \/ StreamCleanup(t)
    \/ Reaper
    \/ \E s \in Session : DataPacket(s) \/ GoIdle(s)

Spec == Init /\ [][Next]_vars

(***************************************************************************)
(* The runtime polls every task that can run, so a handler that started    *)
(* finishes and the reaper keeps ticking.  Nothing is assumed of peers:    *)
(* packets, connections and silence may or may not come.                   *)
(***************************************************************************)
Fairness ==
    /\ \A t \in Task : WF_vars(HandlePacket(t)) /\ WF_vars(StreamCleanup(t))
    /\ WF_vars(Reaper)

FairSpec == Spec /\ Fairness

-----------------------------------------------------------------------------

(***************************************************************************)
(* A session in the table that has an address owns the route of that       *)
(* address, whatever eviction is doing meanwhile: the server can always    *)
(* reach a client it still counts as connected.  As a route has one        *)
(* owner, no two connected clients share an address either.                *)
(***************************************************************************)
RegisteredRouted ==
    \A a \in Addr, s \in Session :
        RegisteredAt(s, a) =>
            /\ session[s].assigned_ip # None =>
                   routes[session[s].assigned_ip] = a
            /\ session[s].assigned_ip_v6 # None =>
                   routes_v6[session[s].assigned_ip_v6] = a

(***************************************************************************)
(* Inbound data of a session in the table reaches that session's worker:   *)
(* no other session's creation or eviction takes its peer id away.         *)
(***************************************************************************)
RegisteredHasWorker ==
    \A a \in Addr, s \in Session :
        /\ RegisteredAt(s, a)
        /\ \A t \in Task : task[t].sess = s => task[t].pc # "worker"
        =>  /\ RouteData(s)
            /\ peers[PeerIdOf(s)] = a

\* A peer id in peers or data_routes belongs to a session that is in the
\* table or whose eviction has yet to reach these two tables.
PeersOwned ==
    \A p \in PeerId :
        peers[p] # None \/ data_routes[p] # None =>
            \E s \in Session :
                /\ PeerIdOf(s) = p
                /\ \/ Registered(s)
                   \/ reaper.pc = "cleanup" /\ reaper.sess = s
                   \/ \E t \in Task : task[t].pc = "eof" /\ task[t].sess = s

\* A session whose client has gone silent leaves the table, unless the
\* client speaks again.
IdleEvicted ==
    \A s \in Session :
        Registered(s) /\ session[s].idle ~> ~Registered(s) \/ ~session[s].idle

-----------------------------------------------------------------------------
(***************************************************************************)
(* What comments, documentation and messages of the repository say of the  *)
(* tables, and the code does not do in every configuration.                *)
(***************************************************************************)
Quiet ==
    /\ reaper.pc = "sleep"
    /\ \A t \in Task : task[t].pc \in {"recv", "closed"}

\* "also cleaning up the routes and peers maps" (src/src/server.rs:261-263)
\* and "IP/peer maps are cleaned up" (src/src/server.rs:612): once eviction
\* is over, every IPv4 route leads to the session that has its address.
RoutesOwned ==
    Quiet =>
        \A i \in Ip : routes[i] # None =>
            \E s \in Session : /\ RegisteredAt(s, routes[i])
                                /\ session[s].assigned_ip = i

\* "so a freed IP / peer_id can be reused immediately"
\* (src/src/server.rs:262-263): the pool runs dry only when each of its
\* addresses is routed or about to be.
ExhaustedMeansInUse ==
    next_pool_ip > PoolEnd =>
        \A i \in PoolIp :
            routes[i] # None \/ \E t \in Task : task[t].ip = i

\* "Static tunnel IP for this client (bypasses the pool)" (README.md:368) and
\* the refusal "static IP ... already in use" (src/src/server.rs:1092-1096):
\* no two sessions in the table have the same IPv4 address.
AddressesUnique ==
    \A s, r \in Session :
        /\ Registered(s) /\ Registered(r)
        /\ session[s].assigned_ip # None
        /\ session[s].assigned_ip = session[r].assigned_ip
        => s = r
=============================================================================
