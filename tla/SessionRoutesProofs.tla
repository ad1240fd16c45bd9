------------------------- MODULE SessionRoutesProofs -------------------------
(***************************************************************************)
(* Who owns a peer id and who owns a route: proofs about SessionTable, for *)
(* any number of peers, sessions, addresses and names.  The hypotheses say *)
(* in which configurations of the server the two properties hold.          *)
(***************************************************************************)
EXTENDS SessionTableProofs

\* The server has no TCP listener, so there is one receive task.
UdpOnly == TcpAddr = {}

\* Static addresses are outside the pool, and handed out by the UDP loop only.
StaticsApart ==
    \A cn \in CommonName :
        StaticIp[cn] # None => StaticIp[cn] \notin PoolIp /\ UdpOnly

AtWork(t) == task[t].pc \in {"lock", "drive", "route"}

\* A session is new until it is in the table, and a task at work on a session
\* found it there, under the address that the task's packet came from.
FreshInv ==
    /\ \A s \in Session : s >= next_peer_id => session[s] = NewSession
    /\ \A t \in Task : task[t].pc = "insert" =>
           /\ session[task[t].sess].assigned_ip = None
           /\ session[task[t].sess].assigned_ip_v6 = None
    /\ \A t \in Task : AtWork(t) =>
           /\ task[t].sess # None
           /\ NotInserting(task[t].sess)
           /\ \A a \in Addr : RegisteredAt(task[t].sess, a) => a = task[t].addr
    /\ \A t \in Task : task[t].pc = "route" => task[t].ip # None

\* With one receive task, only the reaper takes a session out of the table,
\* and it takes the one that it has read.  A new session is not idle, so the
\* reaper leaves it alone until its creation is over.
UdpInv ==
    /\ \A t \in Task : task[t].pc # "eof"
    /\ \A t \in Task : task[t].pc = "insert" => sessions[task[t].addr] = None
    /\ \A t \in Task : task[t].pc = "worker" => sessions[task[t].addr] = task[t].sess
    /\ reaper.pc \in {"read", "evict"} =>
           reaper.addr \in Addr /\ sessions[reaper.addr] = reaper.sess
    /\ \A t \in Task : Entering(t) =>
           /\ task[t].addr \in Addr
           /\ ~session[task[t].sess].idle
           /\ reaper.pc = "evict" => reaper.sess # task[t].sess

\* A session holds the address it was assigned and the one a task is about to
\* assign to it.
Holds(s, i) ==
    \/ session[s].assigned_ip = i
    \/ \E t \in Task : task[t].pc = "route" /\ task[t].sess = s /\ task[t].ip = i

\* The pool gives an address to one session, and what the reaper has read was
\* the address of the session that it evicts.
PoolInv ==
    /\ \A s \in Session, i \in PoolIp : Holds(s, i) => i < next_pool_ip
    /\ \A r, s \in Session, i \in PoolIp : Holds(r, i) /\ Holds(s, i) => r = s
    /\ reaper.assigned \in PoolIp =>
           /\ reaper.assigned < next_pool_ip
           /\ \A s \in Session : Holds(s, reaper.assigned) => s = reaper.sess

PoolV6Inv ==
    /\ \A s \in Session :
           session[s].assigned_ip_v6 # None => session[s].assigned_ip_v6 < next_pool_ip_v6
    /\ \A r, s \in Session :
           /\ session[r].assigned_ip_v6 # None
           /\ session[r].assigned_ip_v6 = session[s].assigned_ip_v6
           => r = s
    /\ reaper.assigned_v6 # None =>
           /\ reaper.assigned_v6 < next_pool_ip_v6
           /\ \A s \in Session :
                  session[s].assigned_ip_v6 = reaper.assigned_v6 => s = reaper.sess

\* With one receive task a static address has no route when it is handed out,
\* and keeps its route until the eviction of its session is over.
StaticInv ==
    /\ \A t \in Task : task[t].pc = "route" /\ task[t].ip \notin PoolIp =>
           routes[task[t].ip] = None
    /\ reaper.assigned # None /\ reaper.assigned \notin PoolIp =>
           /\ routes[reaper.assigned] # None
           /\ \A s \in Session :
                  Registered(s) /\ session[s].assigned_ip = reaper.assigned =>
                      s = reaper.sess

\* The reaper holds addresses from its reading to the end of its cleanup.
ReaperHolds ==
    /\ reaper.assigned # None => reaper.pc \in {"evict", "cleanup"}
    /\ reaper.assigned_v6 # None => reaper.pc \in {"evict", "cleanup"}

-----------------------------------------------------------------------------
(***************************************************************************)
(* What the steps do to the addresses and to the locals.                   *)
(***************************************************************************)
OthersWait(t) == \A u \in Task \ {t} : task'[u] = task[u]

SameAddresses(s) ==
    /\ session'[s].assigned_ip = session[s].assigned_ip
    /\ session'[s].assigned_ip_v6 = session[s].assigned_ip_v6

\* The handlers of a packet that hand out no address: the task goes back to
\* its socket or looks for the next message.
Handles(t) ==
    /\ task[t].pc \in {"lock", "drive"} /\ task[t].sess \in Session
    /\ UNCHANGED <<sessions, routes, routes_v6, peers, data_routes, pools, reaper>>
    /\ OthersWait(t)
    /\ \/ task'[t].pc = "recv" /\ task'[t].sess = None
       \/ /\ task'[t].pc = "drive" /\ task'[t].sess = task[t].sess
          /\ task'[t].addr = task[t].addr
    /\ ~session'[task[t].sess].idle
    /\ \A s \in Session : SameAddresses(s)
    /\ \A s \in Session \ {task[t].sess} : session'[s] = session[s]

\* The handlers of packets that hand out no address have that form.
LEMMA HandlerForm ==
    ASSUME TypeOK, NEW t \in Task,
           Touch(t) \/ FinalizeKeys(t) \/ KeyMethod2(t) \/ Exit(t)
    PROVE  Handles(t)
<1>1. task[t] \in TaskLocals /\ task \in [Task -> TaskLocals]
    BY DEF TypeOK
<1>2. /\ task[t].pc \in {"lock", "drive"} /\ task[t].sess \in Session
      /\ UNCHANGED <<sessions, routes, routes_v6, peers, data_routes, pools, reaper>>
      /\ task' = [task EXCEPT ![t] = Idling] \/ Continue(t)
    BY Zenon DEF Touch, FinalizeKeys, KeyMethod2, Exit, Locked, tables
<1>3. /\ OthersWait(t)
      /\ \/ task'[t].pc = "recv" /\ task'[t].sess = None
         \/ /\ task'[t].pc = "drive" /\ task'[t].sess = task[t].sess
            /\ task'[t].addr = task[t].addr
    <2>1. CASE task' = [task EXCEPT ![t] = Idling]
        BY <1>1, <2>1 DEF Idling, OthersWait
    <2>2. CASE Continue(t)
        BY <1>1, <2>2 DEF Continue, TaskLocals, OthersWait
    <2>3. QED
        BY <1>2, <2>1, <2>2
<1> DEFINE s == task[t].sess
<1>4. \E r : /\ session' = [session EXCEPT ![s] = r]
             /\ ~r.idle /\ r.assigned_ip = session[s].assigned_ip
             /\ r.assigned_ip_v6 = session[s].assigned_ip_v6
    <2>1. session[s] \in SessionStruct
        BY <1>2 DEF TypeOK
    <2>2. CASE Touch(t)
        <3> DEFINE r == [session[s] EXCEPT !.idle = FALSE]
        <3>1. session' = [session EXCEPT ![s] = r]
            BY <2>2 DEF Touch, Locked
        <3>2. /\ ~r.idle /\ r.assigned_ip = session[s].assigned_ip
              /\ r.assigned_ip_v6 = session[s].assigned_ip_v6
            BY <2>1 DEF SessionStruct
        <3> HIDE DEF r
        <3>3. QED
            BY <3>1, <3>2
    <2>3. CASE FinalizeKeys(t)
        <3>1. PICK cn \in CommonName \cup {None} :
                  session' = [session EXCEPT ![s].idle = FALSE, ![s].cn = cn,
                                             ![s].state = "KeyExchange"]
            BY <2>3, Zenon DEF FinalizeKeys, Locked
        <3> DEFINE r == [session[s] EXCEPT !.idle = FALSE, !.cn = cn, !.state = "KeyExchange"]
        <3>2. session' = [session EXCEPT ![s] = r]
            BY <1>2, <3>1 DEF TypeOK
        <3>3. /\ ~r.idle /\ r.assigned_ip = session[s].assigned_ip
              /\ r.assigned_ip_v6 = session[s].assigned_ip_v6
            BY <2>1 DEF SessionStruct
        <3> HIDE DEF r
        <3>4. QED
            BY <3>2, <3>3
    <2>4. CASE KeyMethod2(t)
        <3> DEFINE r == [session[s] EXCEPT !.idle = FALSE, !.state = "PushPending"]
        <3>1. session' = [session EXCEPT ![s] = r]
            BY <1>2, <2>4 DEF KeyMethod2, Locked, TypeOK
        <3>2. /\ ~r.idle /\ r.assigned_ip = session[s].assigned_ip
              /\ r.assigned_ip_v6 = session[s].assigned_ip_v6
            BY <2>1 DEF SessionStruct
        <3> HIDE DEF r
        <3>3. QED
            BY <3>1, <3>2
    <2>5. CASE Exit(t)
        <3> DEFINE r == [session[s] EXCEPT !.idle = FALSE, !.state = "Closed"]
        <3>1. session' = [session EXCEPT ![s] = r]
            BY <1>2, <2>5 DEF Exit, Locked, TypeOK
        <3>2. /\ ~r.idle /\ r.assigned_ip = session[s].assigned_ip
              /\ r.assigned_ip_v6 = session[s].assigned_ip_v6
            BY <2>1 DEF SessionStruct
        <3> HIDE DEF r
        <3>3. QED
            BY <3>1, <3>2
    <2>6. QED
        BY <2>2, <2>3, <2>4, <2>5
<1>5. /\ ~session'[s].idle
      /\ \A r \in Session : SameAddresses(r)
      /\ \A r \in Session \ {s} : session'[r] = session[r]
    BY <1>2, <1>4 DEF TypeOK, SameAddresses
<1>6. QED
    BY <1>2, <1>3, <1>5 DEF Handles

\* PUSH_REQUEST: refused, or an address is on its way to the session.  A
\* static one has no route; one of the pool is the cursor's.
Pushes(t) ==
    /\ task[t].pc \in {"lock", "drive"} /\ task[t].sess \in Session
    /\ UNCHANGED <<sessions, routes, routes_v6, peers, data_routes, next_peer_id,
                   next_pool_ip_v6, reaper>>
    /\ OthersWait(t)
    /\ \/ /\ task'[t].pc = "recv" /\ task'[t].sess = None
          /\ next_pool_ip' = next_pool_ip
       \/ /\ task'[t].pc = "route" /\ task'[t].sess = task[t].sess
          /\ task'[t].addr = task[t].addr
          /\ task'[t].ip # None
          /\ \/ /\ next_pool_ip \in PoolIp /\ task'[t].ip = next_pool_ip
                /\ next_pool_ip' = next_pool_ip + 1
             \/ /\ \E cn \in CommonName : task'[t].ip = StaticIp[cn]
                /\ routes[task'[t].ip] = None
                /\ next_pool_ip' = next_pool_ip
    /\ ~session'[task[t].sess].idle
    /\ \A s \in Session : SameAddresses(s)
    /\ \A s \in Session \ {task[t].sess} : session'[s] = session[s]

\* PUSH_REQUEST has that form, for static addresses and for the pool.
LEMMA PushForm ==
    ASSUME TypeOK, NEW t \in Task, PushStatic(t) \/ PushPool(t)
    PROVE  Pushes(t)
<1> DEFINE s == task[t].sess
<1>1. task[t] \in TaskLocals /\ task \in [Task -> TaskLocals]
    BY DEF TypeOK
<1>2. /\ task[t].pc \in {"lock", "drive"} /\ s \in Session
      /\ UNCHANGED <<sessions, routes, routes_v6, peers, data_routes, next_peer_id,
                     next_pool_ip_v6, reaper>>
      /\ session' = [session EXCEPT ![s].idle = FALSE]
    BY Zenon DEF PushStatic, PushPool, Locked, tables, pools
<1>3. /\ ~session'[s].idle
      /\ \A r \in Session : SameAddresses(r)
      /\ \A r \in Session \ {s} : session'[r] = session[r]
    BY <1>2 DEF TypeOK, SessionStruct, SameAddresses
<1>4. CASE /\ task' = [task EXCEPT ![t] = Idling]
           /\ next_pool_ip' = next_pool_ip
    BY <1>1, <1>2, <1>3, <1>4 DEF Pushes, OthersWait, Idling
<1>5. ASSUME NEW i, i # None,
             task' = [task EXCEPT ![t] = [task[t] EXCEPT !.pc = "route", !.ip = i]]
      PROVE  /\ OthersWait(t)
             /\ task'[t].pc = "route" /\ task'[t].sess = task[t].sess
             /\ task'[t].addr = task[t].addr /\ task'[t].ip = i
    BY <1>1, <1>5 DEF OthersWait, TaskLocals
<1>6. CASE PushStatic(t)
    <2>1. /\ StaticOf(s) # None /\ next_pool_ip' = next_pool_ip
          /\ \/ task' = [task EXCEPT ![t] = Idling]
             \/ /\ routes[StaticOf(s)] = None
                /\ task' = [task EXCEPT ![t] =
                       [task[t] EXCEPT !.pc = "route", !.ip = StaticOf(s)]]
        BY <1>6, Zenon DEF PushStatic, Locked, pools
    <2>2. \E cn \in CommonName : StaticOf(s) = StaticIp[cn]
        BY <1>2, <2>1 DEF StaticOf, TypeOK, SessionStruct
    <2>3. QED
        BY <1>2, <1>3, <1>4, <1>5, <2>1, <2>2, Zenon DEF Pushes
<1>7. CASE PushPool(t)
    <2>1. CASE AllocateIp = None
        BY <1>4, <1>7, <2>1 DEF PushPool
    <2>2. CASE AllocateIp # None
        <3>1. AllocateIp = next_pool_ip /\ next_pool_ip \in PoolIp
            BY <2>2, TableAssumption DEF AllocateIp, TypeOK, PoolIp
        <3>2. /\ task' = [task EXCEPT ![t] =
                     [task[t] EXCEPT !.pc = "route", !.ip = AllocateIp]]
              /\ next_pool_ip' = next_pool_ip + 1
            BY <1>7, <2>2 DEF PushPool
        <3>3. QED
            BY <1>2, <1>3, <1>5, <2>2, <3>1, <3>2, Zenon DEF Pushes
    <2>3. QED
        BY <2>1, <2>2
<1>8. QED
    BY <1>6, <1>7


\* The address is stored and routed, with an IPv6 one or without.
Assigns(t) ==
    /\ task[t].pc = "route"
    /\ UNCHANGED <<sessions, peers, data_routes, next_peer_id, next_pool_ip, reaper>>
    /\ OthersWait(t)
    /\ \/ task'[t].pc = "recv" /\ task'[t].sess = None
       \/ /\ task'[t].pc = "drive" /\ task'[t].sess = task[t].sess
          /\ task'[t].addr = task[t].addr
    /\ routes' = [routes EXCEPT ![task[t].ip] = task[t].addr]
    /\ session'[task[t].sess].assigned_ip = task[t].ip
    /\ session'[task[t].sess].idle = session[task[t].sess].idle
    /\ \A s \in Session \ {task[t].sess} : session'[s] = session[s]
    /\ \/ /\ UNCHANGED <<routes_v6, next_pool_ip_v6>>
          /\ session'[task[t].sess].assigned_ip_v6 = session[task[t].sess].assigned_ip_v6
       \/ /\ next_pool_ip_v6 \in IpV6
          /\ next_pool_ip_v6' = next_pool_ip_v6 + 1
          /\ routes_v6' = [routes_v6 EXCEPT ![next_pool_ip_v6] = task[t].addr]
          /\ session'[task[t].sess].assigned_ip_v6 = next_pool_ip_v6

\* AddRoutes has that form, whether an IPv6 address is given or not.
LEMMA AssignForm ==
    ASSUME TypeOK, FreshInv, NEW t \in Task, AddRoutes(t)
    PROVE  Assigns(t) /\ task[t].sess \in Session
<1> DEFINE s == task[t].sess
<1>1. task[t] \in TaskLocals /\ task \in [Task -> TaskLocals] /\ task[t].pc = "route"
    BY DEF TypeOK, AddRoutes
<1>2. s \in Session /\ session[s] \in SessionStruct
    BY <1>1 DEF TypeOK, FreshInv, AtWork, TaskLocals
<1>3. /\ UNCHANGED <<sessions, peers, data_routes, next_peer_id, next_pool_ip, reaper>>
      /\ routes' = [routes EXCEPT ![task[t].ip] = task[t].addr]
      /\ task' = [task EXCEPT ![t] = Idling] \/ Continue(t)
    BY DEF AddRoutes
<1>4. /\ OthersWait(t)
      /\ \/ task'[t].pc = "recv" /\ task'[t].sess = None
         \/ /\ task'[t].pc = "drive" /\ task'[t].sess = task[t].sess
            /\ task'[t].addr = task[t].addr
    <2>1. CASE task' = [task EXCEPT ![t] = Idling]
        BY <1>1, <2>1 DEF Idling, OthersWait
    <2>2. CASE Continue(t)
        BY <1>1, <2>2 DEF Continue, TaskLocals, OthersWait
    <2>3. QED
        BY <1>3, <2>1, <2>2
<1>5. CASE /\ UNCHANGED <<routes_v6, next_pool_ip_v6>>
           /\ session' = [session EXCEPT ![s].assigned_ip = task[t].ip]
    BY <1>1, <1>2, <1>3, <1>4, <1>5 DEF Assigns, TypeOK, SessionStruct
<1>6. CASE /\ UNCHANGED <<routes_v6, next_pool_ip_v6>>
           /\ session' = [session EXCEPT ![s].assigned_ip = task[t].ip,
                                         ![s].state = "Established"]
    BY <1>1, <1>2, <1>3, <1>4, <1>6 DEF Assigns, TypeOK, SessionStruct
<1>7. CASE /\ AllocateIpV6 # None
           /\ session' = [session EXCEPT ![s].assigned_ip = task[t].ip,
                                         ![s].assigned_ip_v6 = AllocateIpV6,
                                         ![s].state = "Established"]
           /\ routes_v6' = [routes_v6 EXCEPT ![AllocateIpV6] = task[t].addr]
           /\ next_pool_ip_v6' = AllocateIpV6 + 1
    <2>1. AllocateIpV6 = next_pool_ip_v6 /\ next_pool_ip_v6 \in IpV6
        BY <1>7, TableAssumption DEF AllocateIpV6, TypeOK, IpV6
    <2>2. /\ session'[s].assigned_ip = task[t].ip
          /\ session'[s].assigned_ip_v6 = next_pool_ip_v6
          /\ session'[s].idle = session[s].idle
          /\ \A r \in Session \ {s} : session'[r] = session[r]
        BY <1>2, <1>7, <2>1 DEF TypeOK, SessionStruct
    <2>3. QED
        BY <1>1, <1>2, <1>3, <1>4, <1>7, <2>1, <2>2 DEF Assigns
<1>8. QED
    BY <1>2, <1>5, <1>6, <1>7 DEF AddRoutes

\* A struct that is freed is a new one again; no other session changes.
LEMMA FreedForm ==
    ASSUME TypeOK, (\E t \in Task : StreamCleanup(t)) \/ EvictRest
    PROVE  \A s \in Session : session'[s] = session[s] \/ session'[s] = NewSession
BY DEF TypeOK, StreamCleanup, EvictRest

\* last_seen is set, or keepalive_timeout passes, for a session that has begun.
LEMMA IdleForm ==
    ASSUME IInv, FreshInv, NEW s \in Session, DataPacket(s) \/ GoIdle(s)
    PROVE  /\ UNCHANGED <<sessions, routes, routes_v6, peers, data_routes, pools,
                          task, reaper>>
           /\ s < next_peer_id
           /\ \A r \in Session : SameAddresses(r)
           /\ \A r \in Session \ {s} : session'[r] = session[r]
<1>1. /\ UNCHANGED <<sessions, routes, routes_v6, peers, data_routes, pools, task, reaper>>
      /\ \E b \in BOOLEAN : session' = [session EXCEPT ![s].idle = b]
    BY DEF DataPacket, GoIdle, tables
<1>2. s \in Nat /\ next_peer_id \in Nat
    BY TableAssumption DEF IInv, TypeOK, Session
<1>3. s < next_peer_id
    <2>1. CASE DataPacket(s)
        BY <1>2, <2>1 DEF FreshInv, DataPacket, NewSession
    <2>2. CASE GoIdle(s)
        BY <2>2, TableAssumption DEF GoIdle, IInv, TableInv, Registered, RegisteredAt, Known, Session
    <2>3. QED
        BY <2>1, <2>2
<1>4. /\ \A r \in Session : SameAddresses(r)
      /\ \A r \in Session \ {s} : session'[r] = session[r]
    BY <1>1 DEF IInv, TypeOK, SessionStruct, SameAddresses
<1>5. QED
    BY <1>1, <1>3, <1>4

-----------------------------------------------------------------------------
(***************************************************************************)
(* New sessions.                                                           *)
(***************************************************************************)
\* Steps that create no session, in which a task goes on with the session it
\* is at or with none.
LEMMA FreshKept ==
    ASSUME IInv, FreshInv, next_peer_id' = next_peer_id,
           \A a \in Addr : sessions'[a] \in {None, sessions[a]},
           \A s \in Session :
               \/ session'[s] = session[s]
               \/ session'[s] = NewSession
               \/ s < next_peer_id /\ (NotInserting(s) \/ SameAddresses(s)),
           \A t \in Task :
               \/ task'[t] = task[t]
               \/ task'[t].pc \notin {"insert", "lock", "drive", "route"}
               \/ /\ AtWork(t) /\ task'[t].pc \in {"drive", "route"}
                  /\ task'[t].sess = task[t].sess /\ task'[t].addr = task[t].addr
                  /\ task'[t].pc = "route" => task'[t].ip # None
    PROVE  FreshInv'
<1>1. \A s : NotInserting(s) => NotInserting(s)'
    BY DEF NotInserting
<1>2. \A s \in Session : s >= next_peer_id' => session'[s] = NewSession
    <2>1. \A s \in Session : ~(s < next_peer_id /\ s >= next_peer_id)
        BY DEF IInv, TypeOK, Session
    <2>2. QED
        BY <2>1 DEF FreshInv
<1>3. ASSUME NEW t \in Task, task'[t].pc = "insert"
      PROVE  /\ session'[task'[t].sess].assigned_ip = None
             /\ session'[task'[t].sess].assigned_ip_v6 = None
    <2>1. task'[t] = task[t] /\ task[t].pc = "insert"
        BY <1>3
    <2>2. task[t].sess \in Session
        BY <2>1 DEF IInv, TypeOK, TaskLocals, TaskInv, Entering
    <2>3. ~NotInserting(task[t].sess)
        BY <2>1 DEF NotInserting
    <2>4. \/ session'[task[t].sess] = NewSession
          \/ SameAddresses(task[t].sess)
        BY <2>2, <2>3 DEF SameAddresses
    <2>5. /\ session[task[t].sess].assigned_ip = None
          /\ session[task[t].sess].assigned_ip_v6 = None
        BY <2>1 DEF FreshInv
    <2>6. NewSession.assigned_ip = None /\ NewSession.assigned_ip_v6 = None
        BY DEF NewSession
    <2>7. QED
        BY <2>1, <2>4, <2>5, <2>6 DEF SameAddresses
<1>4. ASSUME NEW t \in Task, AtWork(t)'
      PROVE  /\ task'[t].sess # None
             /\ NotInserting(task[t].sess)'
             /\ \A a \in Addr : RegisteredAt(task[t].sess, a)' => a = task'[t].addr
    <2>1. AtWork(t) /\ task'[t].sess = task[t].sess /\ task'[t].addr = task[t].addr
        BY <1>4 DEF AtWork
    <2>2. \A a \in Addr : sessions'[a] = task[t].sess => sessions[a] = task[t].sess
        BY <2>1 DEF FreshInv
    <2>3. QED
        BY <1>1, <2>1, <2>2 DEF FreshInv, RegisteredAt
<1>5. \A t \in Task : task'[t].pc = "route" => task'[t].ip # None
    BY DEF FreshInv
<1>6. QED
    BY <1>2, <1>3, <1>4, <1>5 DEF FreshInv


\* A new session is NewSession but for its state, and no task is at work on it.
LEMMA HardResetFresh ==
    ASSUME IInv, FreshInv, NEW t \in Task, NEW a \in Addr, HardReset(t, a)
    PROVE  FreshInv'
<1> DEFINE n == next_peer_id
<1>1. n \in Session /\ n \in Nat /\ next_peer_id' = n + 1 /\ sessions' = sessions
    BY DEF HardReset, Session, tables
<1>2. session[n] = NewSession
    BY <1>1 DEF FreshInv
<1>3. /\ \A s \in Session \ {n} : session'[s] = session[s]
      /\ session'[n].assigned_ip = None /\ session'[n].assigned_ip_v6 = None
    BY <1>1, <1>2 DEF HardReset, IInv, TypeOK, NewSession, SessionStruct
<1>4. /\ OthersWait(t)
      /\ task'[t] = task[t] \/ (task'[t].pc = "insert" /\ task'[t].sess = n)
    BY DEF HardReset, IInv, TypeOK, OthersWait
<1>5. \A u \in Task : task[u].sess # n
    <2>1. \A u \in Task : task[u].sess \in Session \cup {None} /\ Known(task[u].sess)
        BY DEF IInv, TypeOK, TaskLocals, TaskInv
    <2>2. QED
        BY <1>1, <2>1, TableAssumption DEF Known, Session
<1> HIDE DEF n
<1>6. \A s \in Session : s >= next_peer_id' => session'[s] = NewSession
    <2>1. \A s \in Session : s >= n + 1 => s >= n /\ s # n
        BY <1>1 DEF Session
    <2>2. QED
        BY <1>1, <1>3, <2>1 DEF FreshInv, n
<1>7. \A u \in Task : task'[u].pc = "insert" =>
          /\ session'[task'[u].sess].assigned_ip = None
          /\ session'[task'[u].sess].assigned_ip_v6 = None
    <2>1. \A u \in Task : task[u].pc = "insert" => task[u].sess \in Session
        BY DEF IInv, TypeOK, TaskLocals, TaskInv, Entering
    <2>2. QED
        BY <1>3, <1>4, <1>5, <2>1 DEF FreshInv, OthersWait
<1>8. \A u \in Task : AtWork(u)' =>
          /\ task'[u].sess # None
          /\ NotInserting(task[u].sess)'
          /\ \A b \in Addr : RegisteredAt(task[u].sess, b)' => b = task'[u].addr
    <2>1. \A u \in Task : AtWork(u)' => AtWork(u) /\ task'[u] = task[u]
        BY <1>4 DEF AtWork, OthersWait
    <2>2. \A s : NotInserting(s) /\ s # n => NotInserting(s)'
        BY <1>4 DEF NotInserting, OthersWait
    <2>3. QED
        BY <1>1, <1>5, <2>1, <2>2 DEF FreshInv, RegisteredAt
<1>9. \A u \in Task : task'[u].pc = "route" => task'[u].ip # None
    BY <1>4 DEF FreshInv, OthersWait
<1>10. QED
    BY <1>6, <1>7, <1>8, <1>9 DEF FreshInv

\* A session enters the table under the address of its HARD_RESET, without
\* addresses of its own.
LEMMA InsertFresh ==
    ASSUME IInv, FreshInv, NEW t \in Task, InsertSession(t)
    PROVE  FreshInv'
<1>1. /\ task[t].pc = "insert" /\ task[t] \in TaskLocals
      /\ next_peer_id' = next_peer_id /\ session' = session
      /\ sessions' = [sessions EXCEPT ![task[t].addr] = task[t].sess]
    BY DEF InsertSession, IInv, TypeOK, pools
<1>2. OthersWait(t) /\ task'[t].pc = "worker"
    BY <1>1 DEF InsertSession, IInv, TypeOK, OthersWait, TaskLocals
<1>3. \A s : NotInserting(s) => NotInserting(s)' /\ s # task[t].sess
    BY <1>1, <1>2 DEF NotInserting, OthersWait
<1>4. \A s, a : a \in Addr /\ RegisteredAt(s, a)' /\ s # task[t].sess => RegisteredAt(s, a)
    BY <1>1 DEF RegisteredAt, IInv, TypeOK
<1>5. \A u \in Task : AtWork(u)' => AtWork(u) /\ task'[u] = task[u]
    BY <1>2 DEF AtWork, OthersWait
<1>6. \A u \in Task : AtWork(u)' =>
          /\ task'[u].sess # None
          /\ NotInserting(task[u].sess)'
          /\ \A b \in Addr : RegisteredAt(task[u].sess, b)' => b = task'[u].addr
    BY <1>3, <1>4, <1>5 DEF FreshInv
<1>7. QED
    BY <1>1, <1>2, <1>6 DEF FreshInv, OthersWait

\* The session found is in the table, so nobody is about to insert it.
LEMMA LookUpFresh ==
    ASSUME IInv, FreshInv, NEW t \in Task, NEW a \in Addr, LookUp(t, a)
    PROVE  FreshInv'
<1>1. /\ sessions[a] # None /\ UNCHANGED <<sessions, session, next_peer_id>>
      /\ OthersWait(t)
      /\ task'[t].pc = "lock" /\ task'[t].sess = sessions[a] /\ task'[t].addr = a
    BY DEF LookUp, IInv, TypeOK, tables, pools, OthersWait
<1>2. NotInserting(sessions[a])
    BY DEF NotInserting, IInv, TaskInv, Registered, RegisteredAt
<1>3. \A b \in Addr : RegisteredAt(sessions[a], b) => b = a
    BY <1>1 DEF IInv, TableInv, RegisteredAt
<1>4. \A s : NotInserting(s) => NotInserting(s)'
    BY <1>1 DEF NotInserting, OthersWait
<1>5. \A u \in Task : AtWork(u)' =>
          /\ task'[u].sess # None
          /\ NotInserting(task[u].sess)'
          /\ \A b \in Addr : RegisteredAt(task[u].sess, b)' => b = task'[u].addr
    <2>1. ASSUME NEW u \in Task, u # t, AtWork(u)'
          PROVE  AtWork(u) /\ task'[u] = task[u]
        BY <1>1, <2>1 DEF AtWork, OthersWait
    <2>2. QED
        BY <1>1, <1>2, <1>3, <1>4, <2>1 DEF FreshInv, RegisteredAt
<1>6. QED
    BY <1>1, <1>5 DEF FreshInv, OthersWait

\* Every step keeps FreshInv.
LEMMA NextFresh ==
    ASSUME IInv, FreshInv, [Next]_vars
    PROVE  FreshInv'
<1>0. TypeOK
    BY DEF IInv
<1>1. ASSUME NEW t \in Task, task[t].sess \in Session, AtWork(t)
      PROVE  task[t].sess < next_peer_id /\ NotInserting(task[t].sess)
    BY <1>1, TableAssumption DEF IInv, TaskInv, Known, FreshInv, Session
<1>2. ASSUME NEW t \in Task, Handles(t) \/ Pushes(t) PROVE FreshInv'
    <2>1. AtWork(t) /\ task[t].sess \in Session
        BY <1>2 DEF Handles, Pushes, AtWork
    <2>2. task[t].sess < next_peer_id /\ NotInserting(task[t].sess)
        BY <1>1, <2>1
    <2>3. QED
        BY <1>2, <2>1, <2>2, FreshKept DEF Handles, Pushes, OthersWait, pools
<1>3. ASSUME NEW t \in Task, AddRoutes(t) PROVE FreshInv'
    <2>1. Assigns(t) /\ task[t].sess \in Session /\ AtWork(t)
        BY <1>0, <1>3, AssignForm, Zenon DEF AddRoutes, AtWork
    <2>2. task[t].sess < next_peer_id /\ NotInserting(task[t].sess)
        BY <1>1, <2>1
    <2>3. QED
        BY <2>1, <2>2, FreshKept DEF Assigns, OthersWait
<1>4. ASSUME NEW t \in Task, SpawnDataWorker(t) \/ Accept(t) \/ StreamEof(t)
      PROVE  FreshInv'
    <2>1. /\ next_peer_id' = next_peer_id /\ session' = session
          /\ \A a \in Addr : sessions'[a] \in {None, sessions[a]}
        BY <1>0, <1>4 DEF SpawnDataWorker, Accept, StreamEof, TypeOK, tables, pools
    <2>2. \A u \in Task : task'[u] = task[u] \/ task'[u].pc \in {"recv", "closed", "eof"}
        BY <1>0, <1>4 DEF SpawnDataWorker, Accept, StreamEof, TypeOK, Idling
    <2>3. QED
        BY <2>1, <2>2, FreshKept
<1>5. ASSUME NEW t \in Task, StreamCleanup(t) PROVE FreshInv'
    <2>1. next_peer_id' = next_peer_id /\ sessions' = sessions
        BY <1>5 DEF StreamCleanup, pools
    <2>2. \A u \in Task : task'[u] = task[u] \/ task'[u].pc = "closed"
        BY <1>0, <1>5 DEF StreamCleanup, TypeOK, Idling
    <2>3. \A s \in Session : session'[s] = session[s] \/ session'[s] = NewSession
        BY <1>0, <1>5, FreedForm
    <2>4. QED
        BY <2>1, <2>2, <2>3, FreshKept
<1>6. CASE Reaper
    <2>1. /\ next_peer_id' = next_peer_id /\ task' = task
          /\ \A a \in Addr : sessions'[a] \in {None, sessions[a]}
        BY <1>0, <1>6, Zenon DEF Reaper, ReaperTick, ReaperGet, ReaperRead, EvictSession,
           EvictRest, ReaperDone, tables, pools, Remove, TypeOK
    <2>2. \A s \in Session : session'[s] = session[s] \/ session'[s] = NewSession
        BY <1>0, <1>6, FreedForm, Zenon DEF Reaper, ReaperTick, ReaperGet, ReaperRead,
           EvictSession, ReaperDone
    <2>3. QED
        BY <2>1, <2>2, FreshKept
<1>7. ASSUME NEW s \in Session, DataPacket(s) \/ GoIdle(s) PROVE FreshInv'
    <2>1. /\ UNCHANGED <<sessions, pools, task>>
          /\ s < next_peer_id
          /\ \A r \in Session : SameAddresses(r)
          /\ \A r \in Session \ {s} : session'[r] = session[r]
        BY <1>7, IdleForm
    <2>2. QED
        BY <2>1, FreshKept DEF pools
<1>8. CASE UNCHANGED vars
    BY <1>8, FreshKept DEF vars, tables, pools
<1>9. QED
    BY <1>0, <1>2, <1>3, <1>4, <1>5, <1>6, <1>7, <1>8, HandlerForm, PushForm,
       HardResetFresh, InsertFresh, LookUpFresh DEF Next, HandlePacket


-----------------------------------------------------------------------------
(***************************************************************************)
(* One receive task.                                                       *)
(***************************************************************************)
\* A step of the receive task that does not begin the creation of a session.
LEMMA UdpKept ==
    ASSUME UdpInv, UNCHANGED <<sessions, reaper>>,
           \A t \in Task : task'[t].pc \notin {"insert", "worker", "eof"}
    PROVE  UdpInv'
BY DEF UdpInv, Entering

\* A HARD_RESET begins a session only where the address has none.
LEMMA HardResetUdp ==
    ASSUME UdpOnly, IInv, FreshInv, UdpInv, NEW t \in Task, NEW a \in Addr, HardReset(t, a)
    PROVE  UdpInv'
<1> DEFINE n == next_peer_id
<1>1. Task = {t}
    BY DEF Task, UdpOnly
<1>2. /\ n \in Session /\ n \in Nat /\ UNCHANGED <<sessions, reaper>>
      /\ sessions[a] = None /\ task[t].pc = "recv"
    BY DEF HardReset, Session, tables
<1>3. ~session'[n].idle
    <2>1. session[n] = NewSession
        BY <1>2 DEF FreshInv
    <2>2. QED
        BY <1>2, <2>1 DEF HardReset, IInv, TypeOK, NewSession, SessionStruct
<1>4. reaper.sess # n
    <2>1. reaper.sess \in Session \cup {None} /\ Known(reaper.sess)
        BY DEF IInv, TypeOK, ReaperLocals, ReaperInv
    <2>2. QED
        BY <1>2, <2>1, TableAssumption DEF Known, Session
<1>5. \/ task'[t] = task[t]
      \/ task'[t].pc = "insert" /\ task'[t].sess = n /\ task'[t].addr = a
    BY DEF HardReset, IInv, TypeOK
<1> HIDE DEF n
<1>6. QED
    BY <1>1, <1>2, <1>3, <1>4, <1>5 DEF UdpInv, Entering

\* The new session takes a place that is still free: nobody else inserts.
LEMMA InsertUdp ==
    ASSUME UdpOnly, IInv, UdpInv, NEW t \in Task, InsertSession(t)
    PROVE  /\ UdpInv'
           /\ sessions[task[t].addr] = None
<1>1. Task = {t} /\ UNCHANGED <<session, reaper>> /\ task[t].pc = "insert"
    BY DEF Task, UdpOnly, InsertSession
<1>2. task'[t].pc = "worker" /\ task'[t].sess = task[t].sess /\ task'[t].addr = task[t].addr
    BY DEF InsertSession, IInv, TypeOK, TaskLocals
<1>3. task[t].addr \in Addr /\ sessions[task[t].addr] = None
    BY <1>1 DEF IInv, TypeOK, TaskLocals, TaskInv, UdpInv
<1>4. /\ sessions'[task[t].addr] = task[t].sess
      /\ \A b \in Addr \ {task[t].addr} : sessions'[b] = sessions[b]
    BY <1>3 DEF InsertSession, IInv, TypeOK
<1>5. reaper.pc \in {"read", "evict"} => sessions'[reaper.addr] = reaper.sess
    <2> SUFFICES ASSUME reaper.pc \in {"read", "evict"}
                 PROVE  sessions'[reaper.addr] = reaper.sess
        OBVIOUS
    <2>1. /\ reaper.sess # None /\ reaper.addr \in Addr
          /\ sessions[reaper.addr] = reaper.sess
        BY DEF IInv, ReaperInv, ReaperBusy, UdpInv
    <2>2. QED
        BY <1>3, <1>4, <2>1
<1>6. QED
    BY <1>1, <1>2, <1>3, <1>4, <1>5 DEF UdpInv, Entering


\* The reaper evicts the session it has read, which is not being created.
LEMMA ReaperUdp ==
    ASSUME UdpOnly, IInv, UdpInv, Reaper
    PROVE  UdpInv'
<1>0. reaper \in ReaperLocals /\ task' = task
    BY Zenon DEF IInv, TypeOK, Reaper, ReaperTick, ReaperGet, ReaperRead, EvictSession,
       EvictRest, ReaperDone
<1>1. CASE ReaperTick \/ ReaperDone
    <2>1. UNCHANGED <<sessions, session>> /\ reaper'.pc \in {"next", "sleep"}
        BY <1>0, <1>1 DEF ReaperTick, ReaperDone, ReaperLocals, tables
    <2>2. QED
        BY <1>0, <2>1 DEF UdpInv, Entering
<1>2. ASSUME NEW a \in Addr, ReaperGet(a) PROVE UdpInv'
    <2>1. /\ UNCHANGED <<sessions, session>>
          /\ \/ reaper'.pc = "next"
             \/ reaper'.pc = "read" /\ reaper'.addr = a /\ reaper'.sess = sessions[a]
        BY <1>0, <1>2 DEF ReaperGet, ReaperLocals, tables
    <2>2. QED
        BY <1>0, <2>1 DEF UdpInv, Entering
<1>3. CASE ReaperRead
    <2>1. /\ UNCHANGED <<sessions, session>> /\ reaper.pc = "read"
          /\ \/ reaper'.pc = "next"
             \/ /\ reaper'.pc = "evict" /\ session[reaper.sess].idle
                /\ reaper'.addr = reaper.addr /\ reaper'.sess = reaper.sess
        BY <1>0, <1>3 DEF ReaperRead, ReaperNext, ReaperLocals, tables
    <2>2. QED
        BY <1>0, <2>1 DEF UdpInv, Entering
<1>4. CASE EvictSession
    <2>1. /\ reaper.pc = "evict" /\ reaper'.pc = "cleanup" /\ session' = session
          /\ \A b \in Addr :
                sessions'[b] = IF b = reaper.addr THEN None ELSE sessions[b]
        BY <1>0, <1>4 DEF EvictSession, Remove, ReaperLocals, IInv, TypeOK
    <2>2. \A t \in Task : Entering(t) => task[t].addr \in Addr
        BY DEF UdpInv
    <2>3. QED
        BY <1>0, <2>1, <2>2 DEF UdpInv, Entering
<1>5. CASE EvictRest
    <2>1. /\ sessions' = sessions /\ reaper'.pc = "next"
          /\ \A s \in Session : session'[s] = session[s] \/ session'[s] = NewSession
        BY <1>0, <1>5, FreedForm DEF EvictRest, ReaperNext, ReaperLocals, IInv
    <2>2. \A t \in Task : Entering(t) => task[t].sess \in Session
        BY DEF IInv, TypeOK, TaskLocals, TaskInv
    <2>3. QED
        BY <1>0, <2>1, <2>2 DEF UdpInv, Entering, NewSession
<1>6. QED
    BY <1>1, <1>2, <1>3, <1>4, <1>5 DEF Reaper

\* Without TCP every step keeps UdpInv.
LEMMA NextUdp ==
    ASSUME UdpOnly, IInv, FreshInv, UdpInv, [Next]_vars
    PROVE  UdpInv'
<1>0. TypeOK /\ \A t \in Task : Task = {t} /\ t = Udp
    BY DEF IInv, Task, UdpOnly
<1>1. ASSUME NEW t \in Task, Handles(t) \/ Pushes(t) \/ Assigns(t) PROVE UdpInv'
    BY <1>0, <1>1, UdpKept DEF Handles, Pushes, Assigns
<1>2. ASSUME NEW t \in Task, SpawnDataWorker(t) \/ (\E a \in Addr : LookUp(t, a))
      PROVE  UdpInv'
    <2>1. UNCHANGED <<sessions, reaper>> /\ task'[t].pc \in {"recv", "lock"}
        BY <1>0, <1>2 DEF SpawnDataWorker, LookUp, TypeOK, Idling, tables
    <2>2. QED
        BY <1>0, <2>1, UdpKept
<1>3. ASSUME NEW s \in Session, DataPacket(s) \/ GoIdle(s) PROVE UdpInv'
    <2>1. /\ UNCHANGED <<sessions, task, reaper>>
          /\ \A r \in Session \ {s} : session'[r] = session[r]
        BY <1>3, IdleForm
    <2>2. ~session'[s].idle \/ \A t \in Task : task[t].sess # s
        BY <1>0, <1>3 DEF DataPacket, GoIdle, NoTaskHolds, TypeOK, SessionStruct
    <2>3. \A t \in Task : Entering(t) => task[t].sess \in Session
        BY DEF IInv, TypeOK, TaskLocals, TaskInv
    <2>4. QED
        BY <2>1, <2>2, <2>3 DEF UdpInv, Entering
<1>4. CASE UNCHANGED vars
    BY <1>4 DEF vars, tables, UdpInv, Entering
<1>5. ASSUME NEW t \in Task, Accept(t) \/ StreamEof(t) \/ StreamCleanup(t)
      PROVE  FALSE
    BY <1>0, <1>5 DEF Accept, StreamEof, StreamCleanup, UdpInv
<1>6. QED
    BY <1>0, <1>1, <1>2, <1>3, <1>4, <1>5, HandlerForm, PushForm, AssignForm,
       HardResetUdp, InsertUdp, ReaperUdp DEF Next, HandlePacket

-----------------------------------------------------------------------------
(***************************************************************************)
(* Peer ids.                                                               *)
(***************************************************************************)
\* A step that adds no peer id, after which every owner still is one.
LEMMA PeersKept ==
    ASSUME PeersOwned, UdpInv,
           \A p \in PeerId : peers[p] = None => peers'[p] = None,
           \A p \in PeerId : data_routes[p] = None => data_routes'[p] = None,
           \A s \in Session : Registered(s) =>
               Registered(s)' \/ (reaper'.pc = "cleanup" /\ reaper'.sess = s),
           reaper.pc = "cleanup" => reaper'.pc = "cleanup" /\ reaper'.sess = reaper.sess
    PROVE  PeersOwned'
<1> SUFFICES ASSUME NEW p \in PeerId, peers'[p] # None \/ data_routes'[p] # None
             PROVE  \E s \in Session :
                        /\ PeerIdOf(s) = p
                        /\ Registered(s)' \/ (reaper'.pc = "cleanup" /\ reaper'.sess = s)
    BY DEF PeersOwned, PeerIdOf
<1>1. PICK s \in Session :
          /\ PeerIdOf(s) = p
          /\ Registered(s) \/ (reaper.pc = "cleanup" /\ reaper.sess = s)
    BY DEF PeersOwned, UdpInv
<1>2. QED
    BY <1>1

\* Without TCP every step leaves each peer id with an owner.
LEMMA NextPeers ==
    ASSUME UdpOnly, IInv, FreshInv, UdpInv, PeersOwned, [Next]_vars
    PROVE  PeersOwned'
<1>0. TypeOK /\ \A t \in Task : Task = {t} /\ t = Udp
    BY DEF IInv, Task, UdpOnly
<1>1. CASE UNCHANGED <<sessions, peers, data_routes, reaper>>
    BY <1>1, PeersKept DEF Registered, RegisteredAt
<1>2. ASSUME NEW t \in Task, InsertSession(t) PROVE PeersOwned'
    <2>1. UNCHANGED <<peers, data_routes, reaper>> /\ sessions[task[t].addr] = None
        BY <1>2, InsertUdp DEF InsertSession
    <2>2. \A s \in Session : Registered(s) => Registered(s)'
        BY <1>0, <1>2, <2>1, TableAssumption
           DEF InsertSession, Registered, RegisteredAt, TypeOK, Session
    <2>3. QED
        BY <2>1, <2>2, PeersKept
<1>3. ASSUME NEW t \in Task, SpawnDataWorker(t) PROVE PeersOwned'
    <2>1. /\ task[t].pc = "worker" /\ UNCHANGED <<sessions, reaper>>
          /\ task[t].sess \in Session /\ task[t].addr \in Addr
        BY <1>0, <1>3, Zenon
           DEF SpawnDataWorker, TypeOK, TaskLocals, IInv, TaskInv, Entering, UdpInv
    <2>2. PICK s \in Session : s = task[t].sess
        BY <2>1
    <2>3. /\ Registered(s)'
          /\ peers' = [peers EXCEPT ![PeerIdOf(s)] = task[t].addr]
          /\ data_routes' = [data_routes EXCEPT ![PeerIdOf(s)] = s]
        BY <1>3, <2>1, <2>2, Zenon DEF SpawnDataWorker, UdpInv, Registered, RegisteredAt
    <2> SUFFICES ASSUME NEW p \in PeerId, peers'[p] # None \/ data_routes'[p] # None
                 PROVE  \E r \in Session :
                            /\ PeerIdOf(r) = p
                            /\ Registered(r)' \/ (reaper'.pc = "cleanup" /\ reaper'.sess = r)
        BY Zenon DEF PeersOwned, PeerIdOf
    <2>4. CASE p = PeerIdOf(s)
        BY <2>3, <2>4
    <2>5. CASE p # PeerIdOf(s)
        <3>1. peers[p] # None \/ data_routes[p] # None
            BY <1>0, <2>3, <2>5 DEF TypeOK
        <3>2. PICK r \in Session :
                  /\ PeerIdOf(r) = p
                  /\ Registered(r) \/ (reaper.pc = "cleanup" /\ reaper.sess = r)
            BY <3>1 DEF PeersOwned, UdpInv
        <3>3. QED
            BY <2>1, <3>2 DEF Registered, RegisteredAt
    <2>6. QED
        BY <2>4, <2>5
<1>4. CASE Reaper
    <2>0. reaper \in ReaperLocals
        BY <1>0 DEF TypeOK
    <2>1. CASE ReaperTick \/ (\E a \in Addr : ReaperGet(a)) \/ ReaperRead \/ ReaperDone
        <3>1. UNCHANGED <<sessions, peers, data_routes>> /\ reaper.pc # "cleanup"
            BY <2>1, Zenon DEF ReaperTick, ReaperGet, ReaperRead, ReaperDone, tables
        <3>2. QED
            BY <3>1, PeersKept DEF Registered, RegisteredAt
    <2>2. CASE EvictSession
        <3>1. /\ reaper.pc = "evict" /\ UNCHANGED <<peers, data_routes>>
              /\ reaper'.pc = "cleanup" /\ reaper'.sess = reaper.sess
              /\ \A b \in Addr : b # reaper.addr => sessions'[b] = sessions[b]
            BY <1>0, <2>0, <2>2 DEF EvictSession, Remove, TypeOK, ReaperLocals
        <3>2. sessions[reaper.addr] = reaper.sess
            BY <3>1 DEF UdpInv
        <3>3. \A s \in Session : Registered(s) => Registered(s)' \/ reaper.sess = s
            BY <3>1, <3>2 DEF Registered, RegisteredAt
        <3>4. QED
            BY <3>1, <3>3, PeersKept
    <2>3. CASE EvictRest
        <3> DEFINE q == PeerIdOf(reaper.sess)
        <3>1. /\ reaper.pc = "cleanup" /\ sessions' = sessions
              /\ \A p \in PeerId : peers'[p] = IF p = q THEN None ELSE peers[p]
              /\ \A p \in PeerId :
                    data_routes'[p] = IF p = q THEN None ELSE data_routes[p]
            BY <1>0, <2>3 DEF EvictRest, Remove, TypeOK
        <3> SUFFICES ASSUME NEW p \in PeerId, peers'[p] # None \/ data_routes'[p] # None
                     PROVE  \E s \in Session : PeerIdOf(s) = p /\ Registered(s)'
            BY DEF PeersOwned, PeerIdOf
        <3>2. p # q /\ (peers[p] # None \/ data_routes[p] # None)
            BY <3>1
        <3>3. PICK s \in Session : PeerIdOf(s) = p /\ Registered(s)
            BY <3>2 DEF PeersOwned, UdpInv
        <3>4. QED
            BY <3>1, <3>3 DEF Registered, RegisteredAt
    <2>4. QED
        BY <1>4, <2>1, <2>2, <2>3 DEF Reaper
<1>5. ASSUME NEW t \in Task, Handles(t) \/ Pushes(t) \/ Assigns(t) PROVE PeersOwned'
    BY <1>1, <1>5 DEF Handles, Pushes, Assigns
<1>6. ASSUME NEW t \in Task, NEW a \in Addr, HardReset(t, a) \/ LookUp(t, a)
      PROVE  PeersOwned'
    BY <1>1, <1>6 DEF HardReset, LookUp, tables
<1>7. ASSUME NEW s \in Session, DataPacket(s) \/ GoIdle(s) PROVE PeersOwned'
    BY <1>1, <1>7 DEF DataPacket, GoIdle, tables
<1>8. CASE UNCHANGED vars
    BY <1>1, <1>8 DEF vars, tables
<1>9. ASSUME NEW t \in Task, Accept(t) \/ StreamEof(t) \/ StreamCleanup(t)
      PROVE  FALSE
    BY <1>0, <1>9 DEF Accept, StreamEof, StreamCleanup, UdpInv
<1>10. QED
    BY <1>0, <1>2, <1>3, <1>4, <1>5, <1>6, <1>7, <1>8, <1>9, HandlerForm, PushForm,
       AssignForm DEF Next, HandlePacket

\* A server that starts has neither sessions nor tasks at work.
LEMMA InitFresh == Init => FreshInv /\ UdpInv /\ ReaperHolds
<1> SUFFICES ASSUME Init PROVE FreshInv /\ UdpInv /\ ReaperHolds
    OBVIOUS
<1>1. \A t \in Task : task[t].pc \in {"recv", "closed"}
    BY DEF Init, Idling
<1>2. QED
    BY <1>1 DEF Init, FreshInv, UdpInv, AtWork, Entering, ReaperHolds

\* FreshInv holds on every transport.
LEMMA FreshInvariant == Spec => [](IInv /\ FreshInv)
<1>1. Init => FreshInv
    BY InitFresh
<1>2. IInv /\ FreshInv /\ [Next]_vars => FreshInv'
    BY NextFresh
<1>3. QED
    BY <1>1, <1>2, IInvariant, PTL DEF Spec

\* PeersOwned for a server without TCP, whatever the number of peers, and even
\* after the peer ids have wrapped: the reaper never leaves an entry of peers
\* or data_routes behind, because the session it removes by address is the one
\* whose peer id it removes.
THEOREM NoPeerLeaks == UdpOnly => (Spec => []PeersOwned)
<1> SUFFICES ASSUME UdpOnly PROVE Spec => []PeersOwned
    OBVIOUS
<1>1. Init => UdpInv /\ PeersOwned
    BY InitFresh DEF Init, PeersOwned
<1>2. IInv /\ FreshInv /\ UdpInv /\ PeersOwned /\ [Next]_vars => UdpInv' /\ PeersOwned'
    BY NextUdp, NextPeers
<1>3. QED
    BY <1>1, <1>2, FreshInvariant, PTL DEF Spec


-----------------------------------------------------------------------------
(***************************************************************************)
(* The pools.                                                              *)
(***************************************************************************)
\* What the reaper has in hand after a step: nothing, what it had, or what it
\* has just read of the session it is at.
LEMMA ReaperForm ==
    ASSUME IInv, ReaperHolds, Reaper
    PROVE  /\ UNCHANGED <<pools, task>>
           /\ ReaperHolds'
           /\ \/ reaper'.assigned = None /\ reaper'.assigned_v6 = None
              \/ /\ reaper'.assigned = reaper.assigned
                 /\ reaper'.assigned_v6 = reaper.assigned_v6
                 /\ reaper'.sess = reaper.sess
                 /\ EvictSession
              \/ /\ reaper.pc = "read" /\ reaper'.sess = reaper.sess
                 /\ reaper.sess \in Session
                 /\ reaper'.assigned = session[reaper.sess].assigned_ip
                 /\ reaper'.assigned_v6 = session[reaper.sess].assigned_ip_v6
                 /\ ReaperRead
<1>0. reaper \in ReaperLocals /\ UNCHANGED <<pools, task>>
    BY Zenon DEF IInv, TypeOK, Reaper, ReaperTick, ReaperGet, ReaperRead, EvictSession,
       EvictRest, ReaperDone
<1>1. CASE ReaperTick \/ ReaperDone \/ (\E a \in Addr : ReaperGet(a))
    <2>1. /\ reaper.pc \in {"sleep", "next"}
          /\ reaper'.assigned = reaper.assigned
          /\ reaper'.assigned_v6 = reaper.assigned_v6
        BY <1>0, <1>1, Zenon DEF ReaperTick, ReaperDone, ReaperGet, ReaperLocals
    <2>2. QED
        BY <1>0, <2>1 DEF ReaperHolds
<1>2. CASE ReaperRead
    <2>1. /\ reaper.pc = "read" /\ reaper.sess \in Session
        BY <1>0, <1>2 DEF ReaperRead, ReaperLocals, IInv, ReaperInv, ReaperBusy
    <2>2. \/ reaper'.assigned = None /\ reaper'.assigned_v6 = None
          \/ /\ reaper'.pc = "evict" /\ reaper'.sess = reaper.sess
             /\ reaper'.assigned = session[reaper.sess].assigned_ip
             /\ reaper'.assigned_v6 = session[reaper.sess].assigned_ip_v6
        BY <1>0, <1>2 DEF ReaperRead, ReaperNext, ReaperLocals
    <2>3. QED
        BY <1>0, <1>2, <2>1, <2>2 DEF ReaperHolds
<1>3. CASE EvictSession
    <2>1. /\ reaper'.pc = "cleanup" /\ reaper'.sess = reaper.sess
          /\ reaper'.assigned = reaper.assigned
          /\ reaper'.assigned_v6 = reaper.assigned_v6
        BY <1>0, <1>3 DEF EvictSession, ReaperLocals
    <2>2. QED
        BY <1>0, <1>3, <2>1 DEF ReaperHolds
<1>4. CASE EvictRest
    <2>1. reaper'.assigned = None /\ reaper'.assigned_v6 = None
        BY <1>0, <1>4 DEF EvictRest, ReaperNext, ReaperLocals
    <2>2. QED
        BY <1>0, <2>1 DEF ReaperHolds
<1>5. QED
    BY <1>1, <1>2, <1>3, <1>4 DEF Reaper

\* Steps in which no session gets an address that it did not hold.
LEMMA PoolKept ==
    ASSUME PoolInv, next_pool_ip' = next_pool_ip,
           \A s \in Session, i \in PoolIp : Holds(s, i)' => Holds(s, i),
           reaper'.assigned \in PoolIp =>
               \/ reaper'.assigned = reaper.assigned /\ reaper'.sess = reaper.sess
               \/ reaper'.sess \in Session /\ Holds(reaper'.sess, reaper'.assigned)
    PROVE  PoolInv'
<1>1. /\ \A s \in Session, i \in PoolIp : Holds(s, i)' => i < next_pool_ip'
      /\ \A r, s \in Session, i \in PoolIp : Holds(r, i)' /\ Holds(s, i)' => r = s
    BY DEF PoolInv
<1>2. ASSUME reaper'.assigned \in PoolIp
      PROVE  /\ reaper'.assigned < next_pool_ip'
             /\ \A s \in Session : Holds(s, reaper'.assigned) => s = reaper'.sess
    BY <1>2 DEF PoolInv
<1>3. ASSUME reaper'.assigned \in PoolIp, NEW s \in Session, Holds(s, reaper.assigned)'
      PROVE  Holds(s, reaper'.assigned)
    <2>1. PICK i \in PoolIp : i = reaper'.assigned
        BY <1>3
    <2>2. Holds(s, i)'
        BY <1>3, <2>1 DEF Holds
    <2>3. QED
        BY <2>1, <2>2
<1>4. QED
    BY <1>1, <1>2, <1>3 DEF PoolInv

\* An address that is not of the pool is a static one.
LEMMA StaticOrPool ==
    ASSUME StaticsApart
    PROVE  /\ \A i \in Ip : i \in PoolIp \/ UdpOnly
           /\ \A cn \in CommonName : StaticIp[cn] \notin PoolIp
           /\ None \notin PoolIp
<1>1. None \notin PoolIp
    BY TableAssumption DEF PoolIp
<1>2. QED
    BY <1>1 DEF StaticsApart, Ip

\* An address of the pool is handed out: nobody had it before.
LEMMA PushPoolInv ==
    ASSUME IInv, PoolInv, StaticsApart, NEW t \in Task, Pushes(t)
    PROVE  PoolInv'
<1>1. reaper' = reaper
    BY DEF Pushes
<1>2. CASE \A s \in Session, i \in PoolIp : Holds(s, i)' => Holds(s, i)
    <2>1. CASE next_pool_ip' = next_pool_ip
        BY <1>1, <1>2, <2>1, PoolKept
    <2>2. CASE next_pool_ip' = next_pool_ip + 1
        <3>1. \A i \in PoolIp : i < next_pool_ip => i < next_pool_ip'
            BY <2>2 DEF IInv, TypeOK, PoolIp
        <3>2. \A s \in Session, i \in PoolIp : Holds(s, i)' => i < next_pool_ip'
            BY <1>2, <3>1 DEF PoolInv
        <3>3. \A r, s \in Session, i \in PoolIp : Holds(r, i)' /\ Holds(s, i)' => r = s
            BY <1>2 DEF PoolInv
        <3>4. ASSUME reaper.assigned \in PoolIp, NEW s \in Session, Holds(s, reaper.assigned)'
              PROVE  s = reaper.sess
            <4>1. PICK i \in PoolIp : i = reaper.assigned
                BY <3>4
            <4>2. Holds(s, i)'
                BY <1>1, <3>4, <4>1 DEF Holds
            <4>3. QED
                BY <1>2, <4>1, <4>2 DEF PoolInv
        <3>5. QED
            BY <1>1, <3>1, <3>2, <3>3, <3>4 DEF PoolInv
    <2>3. QED
        BY <2>1, <2>2 DEF Pushes
<1>3. CASE /\ task'[t].pc = "route" /\ task'[t].sess = task[t].sess
           /\ next_pool_ip \in PoolIp /\ task'[t].ip = next_pool_ip
           /\ next_pool_ip' = next_pool_ip + 1
    <2>1. PICK n \in PoolIp : n = next_pool_ip
        BY <1>3
    <2>2. PICK q \in Session : q = task[t].sess
        BY DEF Pushes
    <2>3. \A s \in Session, i \in PoolIp : Holds(s, i)' => Holds(s, i) \/ (s = q /\ i = n)
        <3>1. \A s \in Session : session'[s].assigned_ip = session[s].assigned_ip
            BY DEF Pushes, SameAddresses
        <3>2. \A u \in Task : task'[u] = task[u] \/ u = t
            BY Zenon DEF Pushes, OthersWait
        <3>3. task'[t].sess = q /\ task'[t].ip = n
            BY <1>3, <2>1, <2>2
        <3>4. QED
            BY <3>1, <3>2, <3>3 DEF Holds
    <2>4. \A i \in PoolIp : i < n => i < next_pool_ip' /\ i # n
        <3>1. n \in Int /\ PoolIp \subseteq Int /\ next_pool_ip' = n + 1
            BY <1>3, <2>1 DEF PoolIp
        <3>2. QED
            BY <3>1
    <2>5. n < next_pool_ip'
        BY <1>3, <2>1 DEF PoolIp
    <2>6. \A s \in Session, i \in PoolIp : Holds(s, i)' => i < next_pool_ip'
        BY <2>1, <2>3, <2>4, <2>5 DEF PoolInv
    <2>7. \A r, s \in Session, i \in PoolIp : Holds(r, i)' /\ Holds(s, i)' => r = s
        BY <2>1, <2>3, <2>4 DEF PoolInv
    <2>8. ASSUME reaper.assigned \in PoolIp
          PROVE  /\ reaper.assigned < next_pool_ip'
                 /\ \A s \in Session : Holds(s, reaper.assigned)' => s = reaper.sess
        <3>1. PICK i \in PoolIp : i = reaper.assigned
            BY <2>8
        <3>2. i < n /\ \A s \in Session : Holds(s, i) => s = reaper.sess
            BY <2>1, <2>8, <3>1 DEF PoolInv
        <3>3. \A s \in Session : Holds(s, reaper.assigned)' => Holds(s, i)'
            BY <1>1, <3>1 DEF Holds
        <3>4. QED
            BY <2>3, <2>4, <3>1, <3>2, <3>3
    <2>9. QED
        BY <1>1, <2>6, <2>7, <2>8 DEF PoolInv
<1>4. CASE \/ task'[t].pc = "recv"
           \/ task'[t].pc = "route" /\ \E cn \in CommonName : task'[t].ip = StaticIp[cn]
    <2>1. \A s \in Session, i \in PoolIp : Holds(s, i)' => Holds(s, i)
        <3>1. \A s \in Session : session'[s].assigned_ip = session[s].assigned_ip
            BY DEF Pushes, SameAddresses
        <3>2. \A u \in Task : task'[u] = task[u] \/ u = t
            BY DEF Pushes, OthersWait
        <3>3. task'[t].pc = "route" => task'[t].ip \notin PoolIp
            BY <1>4, StaticOrPool
        <3>4. QED
            BY <3>1, <3>2, <3>3 DEF Holds
    <2>2. QED
        BY <1>2, <2>1
<1>5. QED
    BY <1>3, <1>4 DEF Pushes


\* The steps that create and find sessions, and those of a stream before its
\* cleanup: no address changes hands, and a session that enters the table has
\* none.
Plain(t) ==
    /\ UNCHANGED <<routes, routes_v6, next_pool_ip, next_pool_ip_v6, reaper>>
    /\ OthersWait(t)
    /\ task'[t] = task[t] \/ task'[t].pc # "route"
    /\ \A s \in Session : SameAddresses(s)
    /\ \A a \in Addr, s \in Session :
           RegisteredAt(s, a)' =>
               \/ RegisteredAt(s, a)
               \/ session[s].assigned_ip = None /\ session[s].assigned_ip_v6 = None

\* HARD_RESET, its two later parts, the lookup of a session and the steps of a
\* stream before its cleanup have that form.
LEMMA PlainForm ==
    ASSUME IInv, FreshInv, NEW t \in Task,
           \/ \E a \in Addr : HardReset(t, a) \/ LookUp(t, a)
           \/ InsertSession(t) \/ SpawnDataWorker(t) \/ Accept(t) \/ StreamEof(t)
    PROVE  Plain(t)
<1>0. TypeOK /\ task[t] \in TaskLocals
    BY DEF IInv, TypeOK
<1>1. ASSUME NEW a \in Addr, HardReset(t, a) PROVE Plain(t)
    <2>1. /\ UNCHANGED <<sessions, routes, routes_v6, next_pool_ip, next_pool_ip_v6, reaper>>
          /\ OthersWait(t)
          /\ task'[t] = task[t] \/ task'[t].pc = "insert"
        BY <1>0, <1>1 DEF HardReset, TypeOK, tables, OthersWait
    <2>2. \A s \in Session : SameAddresses(s)
        BY <1>0, <1>1 DEF HardReset, TypeOK, SessionStruct, SameAddresses
    <2>3. QED
        BY <2>1, <2>2 DEF Plain, RegisteredAt
<1>2. ASSUME \/ \E a \in Addr : LookUp(t, a)
             \/ SpawnDataWorker(t) \/ Accept(t)
      PROVE  Plain(t)
    <2>1. UNCHANGED <<sessions, session, routes, routes_v6, next_pool_ip,
                      next_pool_ip_v6, reaper>>
        BY <1>2 DEF LookUp, SpawnDataWorker, Accept, tables, pools
    <2>2. OthersWait(t) /\ task'[t].pc \in {"recv", "lock"}
        <3>1. ASSUME NEW a \in Addr, LookUp(t, a)
              PROVE  OthersWait(t) /\ task'[t].pc \in {"recv", "lock"}
            BY <1>0, <3>1 DEF LookUp, TypeOK, OthersWait
        <3>2. CASE SpawnDataWorker(t) \/ Accept(t)
            <4>1. task' = [task EXCEPT ![t] = Idling] /\ task \in [Task -> TaskLocals]
                BY <1>0, <3>2, Zenon DEF SpawnDataWorker, Accept, TypeOK
            <4>2. QED
                BY <4>1 DEF OthersWait, Idling
        <3>3. QED
            BY <1>2, <3>1, <3>2, Zenon
    <2>3. QED
        BY <2>1, <2>2 DEF Plain, RegisteredAt, SameAddresses
<1>3. CASE StreamEof(t)
    <2>1. /\ UNCHANGED <<session, routes, routes_v6, next_pool_ip, next_pool_ip_v6, reaper>>
          /\ OthersWait(t) /\ task'[t].pc \in {"closed", "eof"}
        BY <1>0, <1>3 DEF StreamEof, TypeOK, pools, OthersWait, Idling
    <2>2. \A a \in Addr, s \in Session : RegisteredAt(s, a)' => RegisteredAt(s, a)
        BY <1>0, <1>3, TableAssumption DEF StreamEof, TypeOK, RegisteredAt, Session
    <2>3. QED
        BY <2>1, <2>2, Zenon DEF Plain, SameAddresses
<1>4. CASE InsertSession(t)
    <2>1. /\ UNCHANGED <<session, routes, routes_v6, next_pool_ip, next_pool_ip_v6, reaper>>
          /\ OthersWait(t) /\ task'[t].pc = "worker" /\ task[t].pc = "insert"
        BY <1>0, <1>4 DEF InsertSession, TypeOK, TaskLocals, pools, OthersWait
    <2>2. \A a \in Addr, s \in Session :
              RegisteredAt(s, a)' => RegisteredAt(s, a) \/ s = task[t].sess
        BY <1>0, <1>4 DEF InsertSession, TypeOK, RegisteredAt
    <2>3. QED
        BY <2>1, <2>2, Zenon DEF Plain, SameAddresses, FreshInv
<1>5. QED
    BY <1>1, <1>2, <1>3, <1>4

\* Every step keeps the addresses of the IPv4 pool apart.
LEMMA NextPool ==
    ASSUME IInv, FreshInv, ReaperHolds, PoolInv, StaticsApart, [Next]_vars
    PROVE  PoolInv' /\ ReaperHolds'
<1>0. TypeOK /\ None \notin PoolIp /\ NewSession.assigned_ip = None
    BY StaticOrPool DEF IInv, NewSession
<1>1. ASSUME UNCHANGED reaper PROVE ReaperHolds'
    BY <1>1 DEF ReaperHolds
<1>2. ASSUME NEW t \in Task, Handles(t) \/ Plain(t) PROVE PoolInv' /\ ReaperHolds'
    <2>1. \A s \in Session, i \in PoolIp : Holds(s, i)' => Holds(s, i)
        <3>1. \A s \in Session : session'[s].assigned_ip = session[s].assigned_ip
            BY <1>2 DEF Handles, Plain, SameAddresses
        <3>2. \A u \in Task : task'[u] = task[u] \/ task'[u].pc # "route"
            BY <1>2 DEF Handles, Plain, OthersWait
        <3>3. QED
            BY <3>1, <3>2 DEF Holds
    <2>2. next_pool_ip' = next_pool_ip /\ reaper' = reaper
        BY <1>2 DEF Handles, Plain, pools
    <2>3. QED
        BY <1>1, <2>1, <2>2, PoolKept
<1>3. ASSUME NEW t \in Task, AddRoutes(t) PROVE PoolInv' /\ ReaperHolds'
    <2>1. Assigns(t) /\ task[t].sess \in Session
        BY <1>0, <1>3, AssignForm
    <2>2. \A s \in Session, i \in PoolIp : Holds(s, i)' => Holds(s, i)
        BY <2>1 DEF Assigns, OthersWait, Holds
    <2>3. QED
        BY <1>1, <2>1, <2>2, PoolKept, Zenon DEF Assigns
<1>4. ASSUME NEW t \in Task, StreamCleanup(t) PROVE PoolInv' /\ ReaperHolds'
    <2>1. \A s \in Session : session'[s] = session[s] \/ session'[s] = NewSession
        BY <1>0, <1>4, FreedForm
    <2>2. /\ OthersWait(t) /\ task'[t].pc = "closed"
          /\ next_pool_ip' = next_pool_ip /\ reaper' = reaper
        BY <1>0, <1>4 DEF StreamCleanup, TypeOK, OthersWait, Idling, pools
    <2>3. \A s \in Session, i \in PoolIp : Holds(s, i)' => Holds(s, i)
        BY <1>0, <2>1, <2>2 DEF OthersWait, Holds
    <2>4. QED
        BY <1>1, <2>2, <2>3, PoolKept
<1>5. CASE Reaper
    <2>1. \A s \in Session : session'[s] = session[s] \/ session'[s] = NewSession
        BY <1>0, <1>5, FreedForm, Zenon DEF Reaper, ReaperTick, ReaperGet, ReaperRead,
           EvictSession, ReaperDone
    <2>2. next_pool_ip' = next_pool_ip /\ task' = task /\ ReaperHolds'
        BY <1>5, ReaperForm DEF pools
    <2>3. \A s \in Session, i \in PoolIp : Holds(s, i)' => Holds(s, i)
        BY <1>0, <2>1, <2>2 DEF Holds
    <2>4. reaper'.assigned \in PoolIp =>
              \/ reaper'.assigned = reaper.assigned /\ reaper'.sess = reaper.sess
              \/ reaper'.sess \in Session /\ Holds(reaper'.sess, reaper'.assigned)
        BY <1>0, <1>5, ReaperForm DEF Holds
    <2>5. QED
        BY <2>2, <2>3, <2>4, PoolKept
<1>6. ASSUME NEW s \in Session, DataPacket(s) \/ GoIdle(s) PROVE PoolInv' /\ ReaperHolds'
    <2>1. UNCHANGED <<pools, task, reaper>> /\ \A r \in Session : SameAddresses(r)
        BY <1>6, IdleForm
    <2>2. \A r \in Session, i \in PoolIp : Holds(r, i)' => Holds(r, i)
        BY <2>1 DEF SameAddresses, Holds
    <2>3. QED
        BY <1>1, <2>1, <2>2, PoolKept DEF pools
<1>7. CASE UNCHANGED vars
    <2>1. \A r \in Session, i \in PoolIp : Holds(r, i)' => Holds(r, i)
        BY <1>7 DEF vars, Holds
    <2>2. QED
        BY <1>1, <1>7, <2>1, PoolKept DEF vars, pools
<1>8. ASSUME NEW t \in Task, Pushes(t) PROVE PoolInv' /\ ReaperHolds'
    BY <1>1, <1>8, PushPoolInv, Zenon DEF Pushes
<1>9. QED
    BY <1>0, <1>2, <1>3, <1>4, <1>5, <1>6, <1>7, <1>8, HandlerForm, PushForm, PlainForm
       DEF Next, HandlePacket

\* The IPv6 pool, with steps in which no session gets an address of it.
LEMMA PoolV6Kept ==
    ASSUME PoolV6Inv, next_pool_ip_v6' = next_pool_ip_v6,
           \A s \in Session :
               session'[s].assigned_ip_v6 \in {None, session[s].assigned_ip_v6},
           reaper'.assigned_v6 # None =>
               \/ reaper'.assigned_v6 = reaper.assigned_v6 /\ reaper'.sess = reaper.sess
               \/ /\ reaper'.sess \in Session
                  /\ session[reaper'.sess].assigned_ip_v6 = reaper'.assigned_v6
    PROVE  PoolV6Inv'
<1>1. /\ \A s \in Session :
             session'[s].assigned_ip_v6 # None =>
                 session'[s].assigned_ip_v6 < next_pool_ip_v6'
      /\ \A r, s \in Session :
             /\ session'[r].assigned_ip_v6 # None
             /\ session'[r].assigned_ip_v6 = session'[s].assigned_ip_v6
             => r = s
    BY DEF PoolV6Inv
<1>2. ASSUME reaper'.assigned_v6 # None
      PROVE  /\ reaper'.assigned_v6 < next_pool_ip_v6'
             /\ \A s \in Session :
                    session[s].assigned_ip_v6 = reaper'.assigned_v6 => s = reaper'.sess
    BY <1>2 DEF PoolV6Inv
<1>3. QED
    BY <1>1, <1>2, Zenon DEF PoolV6Inv

\* Every step keeps the addresses of the IPv6 pool apart.
LEMMA NextPoolV6 ==
    ASSUME IInv, FreshInv, ReaperHolds, PoolV6Inv, [Next]_vars
    PROVE  PoolV6Inv'
<1>0. TypeOK /\ NewSession.assigned_ip_v6 = None
    BY DEF IInv, NewSession
<1>1. ASSUME NEW t \in Task, Handles(t) \/ Pushes(t) \/ Plain(t) PROVE PoolV6Inv'
    <2>1. /\ next_pool_ip_v6' = next_pool_ip_v6 /\ reaper' = reaper
          /\ \A s \in Session : SameAddresses(s)
        BY <1>1, Zenon DEF Handles, Pushes, Plain, pools
    <2>2. QED
        BY <2>1, PoolV6Kept DEF SameAddresses
<1>2. ASSUME NEW t \in Task, AddRoutes(t) PROVE PoolV6Inv'
    <2>1. Assigns(t) /\ task[t].sess \in Session /\ reaper' = reaper
        BY <1>0, <1>2, AssignForm, Zenon DEF AddRoutes
    <2>2. CASE /\ next_pool_ip_v6' = next_pool_ip_v6
               /\ session'[task[t].sess].assigned_ip_v6 = session[task[t].sess].assigned_ip_v6
        <3>1. \A s \in Session :
                  session'[s].assigned_ip_v6 \in {None, session[s].assigned_ip_v6}
            BY <2>1, <2>2, Zenon DEF Assigns
        <3>2. QED
            BY <2>1, <2>2, <3>1, PoolV6Kept, Zenon
    <2>3. CASE /\ next_pool_ip_v6' = next_pool_ip_v6 + 1
               /\ session'[task[t].sess].assigned_ip_v6 = next_pool_ip_v6
        <3>1. /\ \A s \in Session : session[s].assigned_ip_v6 \in IpV6 \cup {None}
              /\ reaper.assigned_v6 \in IpV6 \cup {None}
              /\ next_pool_ip_v6 \in Nat
            BY <1>0 DEF TypeOK, SessionStruct, ReaperLocals
        <3>2. \A i \in IpV6 \cup {None} : i # None /\ i < next_pool_ip_v6 =>
                  i < next_pool_ip_v6' /\ i # next_pool_ip_v6
            BY <2>3, <3>1, TableAssumption DEF IpV6
        <3>3. next_pool_ip_v6 < next_pool_ip_v6'
            BY <2>3, <3>1
        <3>4. \A s \in Session \ {task[t].sess} : session'[s] = session[s]
            BY <2>1 DEF Assigns
        <3>5. PICK q \in Session : q = task[t].sess
            BY <2>1
        <3>6. \A s \in Session :
                  \/ session'[s].assigned_ip_v6 = session[s].assigned_ip_v6 /\ s # q
                  \/ session'[s].assigned_ip_v6 = next_pool_ip_v6 /\ s = q
            BY <2>3, <3>4, <3>5
        <3>7. \A s \in Session : session[s].assigned_ip_v6 # None =>
                  /\ session[s].assigned_ip_v6 < next_pool_ip_v6'
                  /\ session[s].assigned_ip_v6 # next_pool_ip_v6
            BY <3>1, <3>2 DEF PoolV6Inv
        <3>8. \A s \in Session : session'[s].assigned_ip_v6 # None =>
                  session'[s].assigned_ip_v6 < next_pool_ip_v6'
            BY <3>3, <3>6, <3>7, Zenon
        <3>9. \A r, s \in Session :
                  /\ session'[r].assigned_ip_v6 # None
                  /\ session'[r].assigned_ip_v6 = session'[s].assigned_ip_v6
                  => r = s
            BY <3>6, <3>7 DEF PoolV6Inv
        <3>10. reaper.assigned_v6 # None =>
                   /\ reaper.assigned_v6 < next_pool_ip_v6'
                   /\ reaper.assigned_v6 # next_pool_ip_v6
            BY <3>1, <3>2 DEF PoolV6Inv
        <3>11. \A s \in Session :
                   /\ reaper.assigned_v6 # None
                   /\ session'[s].assigned_ip_v6 = reaper.assigned_v6
                   => s = reaper.sess
            BY <3>6, <3>10 DEF PoolV6Inv
        <3>12. QED
            BY <2>1, <3>8, <3>9, <3>10, <3>11 DEF PoolV6Inv
    <2>4. QED
        BY <2>1, <2>2, <2>3, Zenon DEF Assigns
<1>3. ASSUME NEW t \in Task, StreamCleanup(t) PROVE PoolV6Inv'
    <2>1. \A s \in Session : session'[s] = session[s] \/ session'[s] = NewSession
        BY <1>0, <1>3, FreedForm
    <2>2. next_pool_ip_v6' = next_pool_ip_v6 /\ reaper' = reaper
        BY <1>3 DEF StreamCleanup, pools
    <2>3. QED
        BY <1>0, <2>1, <2>2, PoolV6Kept
<1>4. CASE Reaper
    <2>1. \A s \in Session : session'[s] = session[s] \/ session'[s] = NewSession
        BY <1>0, <1>4, FreedForm, Zenon DEF Reaper, ReaperTick, ReaperGet, ReaperRead,
           EvictSession, ReaperDone
    <2>2. next_pool_ip_v6' = next_pool_ip_v6
        BY <1>4, ReaperForm DEF pools
    <2>3. reaper'.assigned_v6 # None =>
              \/ reaper'.assigned_v6 = reaper.assigned_v6 /\ reaper'.sess = reaper.sess
              \/ /\ reaper'.sess \in Session
                 /\ session[reaper'.sess].assigned_ip_v6 = reaper'.assigned_v6
        BY <1>4, ReaperForm
    <2>4. QED
        BY <1>0, <2>1, <2>2, <2>3, PoolV6Kept
<1>5. ASSUME NEW s \in Session, DataPacket(s) \/ GoIdle(s) PROVE PoolV6Inv'
    <2>1. UNCHANGED <<pools, reaper>> /\ \A r \in Session : SameAddresses(r)
        BY <1>5, IdleForm
    <2>2. QED
        BY <2>1, PoolV6Kept DEF pools, SameAddresses
<1>6. CASE UNCHANGED vars
    BY <1>6, PoolV6Kept DEF vars, pools
<1>7. QED
    BY <1>0, <1>1, <1>2, <1>3, <1>4, <1>5, <1>6, HandlerForm, PushForm, PlainForm
       DEF Next, HandlePacket


-----------------------------------------------------------------------------
(***************************************************************************)
(* Routes.                                                                 *)
(***************************************************************************)
\* A step that leaves the routes and the reaper alone, hands out no address
\* and brings none into the table.
LEMMA StaticKept ==
    ASSUME StaticInv, UNCHANGED <<routes, reaper>>,
           \A t \in Task : task'[t] = task[t] \/ task'[t].pc # "route",
           \A a \in Addr, s \in Session :
               /\ RegisteredAt(s, a)'
               /\ session'[s].assigned_ip # None
               => RegisteredAt(s, a) /\ session'[s].assigned_ip = session[s].assigned_ip
    PROVE  StaticInv'
<1>1. \A t \in Task : task'[t].pc = "route" /\ task'[t].ip \notin PoolIp =>
          routes'[task'[t].ip] = None
    BY Zenon DEF StaticInv
<1>2. \A s \in Session : Registered(s)' /\ session'[s].assigned_ip # None =>
          Registered(s) /\ session'[s].assigned_ip = session[s].assigned_ip
    BY DEF Registered
<1>3. QED
    BY <1>1, <1>2 DEF StaticInv

\* The reaper reads a static address with its route in place, which no other
\* session in the table can have.
LEMMA ReaperStatic ==
    ASSUME IInv, FreshInv, UdpInv, ReaperHolds, StaticInv, RegisteredRouted, Reaper
    PROVE  StaticInv'
<1>0. TypeOK /\ None \notin Addr /\ task' = task
    BY ReaperForm, TableAssumption DEF IInv
<1>1. CASE EvictRest
    <2>1. reaper'.assigned = None
        BY <1>0, <1>1 DEF EvictRest, ReaperNext, TypeOK, ReaperLocals
    <2>2. \A i \in Ip : routes[i] = None => routes'[i] = None
        BY <1>0, <1>1, Zenon DEF EvictRest, Remove, TypeOK
    <2>3. \A t \in Task : task[t].pc = "route" => task[t].ip \in Ip
        BY <1>0 DEF TypeOK, TaskLocals, FreshInv
    <2>4. QED
        BY <1>0, <2>1, <2>2, <2>3 DEF StaticInv
<1>2. CASE ReaperRead
    <2>1. routes' = routes /\ sessions' = sessions /\ session' = session
        BY <1>2 DEF ReaperRead, tables
    <2>2. CASE reaper'.assigned = None
        BY <1>0, <2>1, <2>2, Zenon DEF StaticInv
    <2>3. CASE reaper'.assigned # None
        <3>1. /\ reaper.pc = "read" /\ reaper'.sess = reaper.sess
              /\ reaper.sess \in Session
              /\ reaper'.assigned = session[reaper.sess].assigned_ip
            BY <1>2, <2>3, ReaperForm DEF ReaperRead, EvictSession
        <3>2. reaper.addr \in Addr /\ RegisteredAt(reaper.sess, reaper.addr)
            BY <3>1 DEF UdpInv, RegisteredAt
        <3>3. routes[reaper'.assigned] = reaper.addr
            <4>1. session[reaper.sess].assigned_ip # None =>
                      routes[session[reaper.sess].assigned_ip] = reaper.addr
                BY <3>1, <3>2, Zenon DEF RegisteredRouted
            <4>2. QED
                BY <2>3, <3>1, <4>1
        <3>4. ASSUME NEW s \in Session, Registered(s),
                     session[s].assigned_ip = reaper'.assigned
              PROVE  s = reaper.sess
            <4>1. PICK a \in Addr : RegisteredAt(s, a)
                BY <3>4 DEF Registered
            <4>2. a = reaper.addr
                BY <2>3, <3>3, <3>4, <4>1 DEF RegisteredRouted
            <4>3. QED
                BY <3>2, <4>1, <4>2 DEF RegisteredAt
        <3>5. QED
            BY <1>0, <2>1, <3>1, <3>2, <3>3, <3>4 DEF StaticInv, Registered, RegisteredAt
    <2>4. QED
        BY <2>2, <2>3
<1>3. CASE EvictSession
    <2>1. /\ UNCHANGED <<routes, session>>
          /\ reaper'.assigned = reaper.assigned /\ reaper'.sess = reaper.sess
          /\ \A b \in Addr : sessions'[b] \in {None, sessions[b]}
        BY <1>0, <1>3 DEF EvictSession, Remove, TypeOK, ReaperLocals
    <2>2. \A s \in Session : Registered(s)' => Registered(s)
        BY <2>1, TableAssumption DEF Registered, RegisteredAt, Session
    <2>3. QED
        BY <1>0, <2>1, <2>2 DEF StaticInv
<1>4. CASE ReaperTick \/ ReaperDone \/ (\E a \in Addr : ReaperGet(a))
    <2>1. routes' = routes /\ reaper.pc \in {"sleep", "next"}
        BY <1>4, Zenon DEF ReaperTick, ReaperDone, ReaperGet, tables
    <2>2. reaper'.assigned = None
        BY <1>4, <2>1, ReaperForm DEF EvictSession, ReaperHolds
    <2>3. QED
        BY <1>0, <2>1, <2>2 DEF StaticInv
<1>5. QED
    BY <1>1, <1>2, <1>3, <1>4 DEF Reaper

\* Without TCP every step keeps StaticInv.
LEMMA NextStatic ==
    ASSUME UdpOnly, IInv, FreshInv, UdpInv, ReaperHolds, StaticInv, RegisteredRouted,
           [Next]_vars
    PROVE  StaticInv'
<1>0. TypeOK /\ \A t \in Task : Task = {t} /\ t = Udp
    BY DEF IInv, Task, UdpOnly
<1>1. ASSUME NEW t \in Task, Handles(t) \/ Plain(t) PROVE StaticInv'
    <2>1. UNCHANGED <<routes, reaper>>
        BY <1>1, Zenon DEF Handles, Plain
    <2>2. \A u \in Task : task'[u] = task[u] \/ task'[u].pc # "route"
        BY <1>1, Zenon DEF Handles, Plain, OthersWait
    <2>3. \A a \in Addr, s \in Session :
              /\ RegisteredAt(s, a)'
              /\ session'[s].assigned_ip # None
              => RegisteredAt(s, a) /\ session'[s].assigned_ip = session[s].assigned_ip
        BY <1>1 DEF Handles, Plain, SameAddresses, RegisteredAt
    <2>4. QED
        BY <2>1, <2>2, <2>3, StaticKept, Zenon
<1>2. ASSUME NEW t \in Task, Pushes(t) PROVE StaticInv'
    <2>1. UNCHANGED <<routes, reaper, sessions>> /\ \A s \in Session : SameAddresses(s)
        BY <1>2 DEF Pushes
    <2>2. task'[t].pc = "route" /\ task'[t].ip \notin PoolIp => routes[task'[t].ip] = None
        BY <1>2 DEF Pushes
    <2>3. QED
        BY <1>0, <2>1, <2>2 DEF StaticInv, SameAddresses, Registered, RegisteredAt
<1>3. ASSUME NEW t \in Task, AddRoutes(t) PROVE StaticInv'
    <2>1. /\ Assigns(t) /\ task[t].sess \in Session
          /\ UNCHANGED <<sessions, reaper>>
          /\ task[t].pc = "route" /\ task'[t].pc # "route"
          /\ \A s \in Session \ {task[t].sess} : session'[s] = session[s]
          /\ session'[task[t].sess].assigned_ip = task[t].ip
          /\ routes' = [routes EXCEPT ![task[t].ip] = task[t].addr]
        BY <1>0, <1>3, AssignForm, Zenon DEF Assigns
    <2>2. CASE reaper.assigned # None /\ reaper.assigned \notin PoolIp
        <3>1. reaper.assigned # task[t].ip
            BY <2>1, <2>2 DEF StaticInv
        <3>2. routes'[reaper.assigned] = routes[reaper.assigned]
            BY <1>0, <2>1, <2>2, <3>1, Zenon DEF TypeOK, ReaperLocals
        <3>3. \A s \in Session :
                  Registered(s)' /\ session'[s].assigned_ip = reaper.assigned =>
                      Registered(s) /\ session[s].assigned_ip = reaper.assigned
            BY <2>1, <3>1, Zenon DEF Registered, RegisteredAt
        <3>4. QED
            BY <1>0, <2>1, <2>2, <3>2, <3>3, Zenon DEF StaticInv
    <2>3. CASE ~(reaper.assigned # None /\ reaper.assigned \notin PoolIp)
        BY <1>0, <2>1, <2>3 DEF StaticInv
    <2>4. QED
        BY <2>2, <2>3
<1>4. ASSUME NEW s \in Session, DataPacket(s) \/ GoIdle(s) PROVE StaticInv'
    <2>1. /\ UNCHANGED <<sessions, routes, task, reaper>>
          /\ \A r \in Session : SameAddresses(r)
        BY <1>4, IdleForm
    <2>2. QED
        BY <2>1, StaticKept DEF SameAddresses, RegisteredAt
<1>5. CASE UNCHANGED vars
    BY <1>5, StaticKept DEF vars, tables, RegisteredAt
<1>6. ASSUME NEW t \in Task, StreamCleanup(t) PROVE FALSE
    BY <1>6 DEF StreamCleanup, UdpInv
<1>7. QED
    BY <1>0, <1>1, <1>2, <1>3, <1>4, <1>5, <1>6, HandlerForm, PushForm, PlainForm,
       ReaperStatic DEF Next, HandlePacket


\* Steps that take no route away and bring no address into the table.
LEMMA RoutedKept ==
    ASSUME RegisteredRouted, UNCHANGED <<routes, routes_v6>>,
           \A a \in Addr, s \in Session :
               RegisteredAt(s, a)' =>
                   /\ session'[s].assigned_ip # None =>
                          /\ RegisteredAt(s, a)
                          /\ session'[s].assigned_ip = session[s].assigned_ip
                   /\ session'[s].assigned_ip_v6 # None =>
                          /\ RegisteredAt(s, a)
                          /\ session'[s].assigned_ip_v6 = session[s].assigned_ip_v6
    PROVE  RegisteredRouted'
<1>1. SUFFICES ASSUME NEW a \in Addr, NEW s \in Session, RegisteredAt(s, a)'
      PROVE  /\ session'[s].assigned_ip # None => routes'[session'[s].assigned_ip] = a
             /\ session'[s].assigned_ip_v6 # None =>
                    routes_v6'[session'[s].assigned_ip_v6] = a
    BY DEF RegisteredRouted
<1>2. ASSUME session'[s].assigned_ip # None PROVE routes'[session'[s].assigned_ip] = a
    <2>1. RegisteredAt(s, a) /\ session'[s].assigned_ip = session[s].assigned_ip
        BY <1>1, <1>2
    <2>2. routes[session[s].assigned_ip] = a
        <3>1. session[s].assigned_ip # None
            BY <1>2, <2>1
        <3>2. QED
            BY <2>1, <3>1 DEF RegisteredRouted
    <2>3. QED
        BY <2>1, <2>2
<1>3. ASSUME session'[s].assigned_ip_v6 # None
      PROVE  routes_v6'[session'[s].assigned_ip_v6] = a
    <2>1. RegisteredAt(s, a) /\ session'[s].assigned_ip_v6 = session[s].assigned_ip_v6
        BY <1>1, <1>3
    <2>2. routes_v6[session[s].assigned_ip_v6] = a
        <3>1. session[s].assigned_ip_v6 # None
            BY <1>3, <2>1
        <3>2. QED
            BY <2>1, <3>1 DEF RegisteredRouted
    <2>3. QED
        BY <2>1, <2>2
<1>4. QED
    BY <1>2, <1>3

\* A cleanup takes the routes of addresses that no session in the table has.
LEMMA RoutedAfterCleanup ==
    ASSUME TypeOK, RegisteredRouted, sessions' = sessions,
           NEW i \in Ip \cup {None}, NEW j \in IpV6 \cup {None},
           routes' = Remove(routes, {i}), routes_v6' = Remove(routes_v6, {j}),
           \A s \in Session : session'[s] = session[s] \/ session'[s] = NewSession,
           \A s \in Session : Registered(s) =>
               /\ session[s].assigned_ip # None => session[s].assigned_ip # i
               /\ session[s].assigned_ip_v6 # None => session[s].assigned_ip_v6 # j
    PROVE  RegisteredRouted'
<1>1. SUFFICES ASSUME NEW a \in Addr, NEW s \in Session, RegisteredAt(s, a)'
      PROVE  /\ session'[s].assigned_ip # None => routes'[session'[s].assigned_ip] = a
             /\ session'[s].assigned_ip_v6 # None =>
                    routes_v6'[session'[s].assigned_ip_v6] = a
    BY Zenon DEF RegisteredRouted
<1>2. RegisteredAt(s, a) /\ Registered(s)
    BY <1>1 DEF RegisteredAt, Registered
<1>3. CASE session'[s] = NewSession
    <2>1. NewSession.assigned_ip = None /\ NewSession.assigned_ip_v6 = None
        BY Zenon DEF NewSession
    <2>2. QED
        BY <1>3, <2>1
<1>4. CASE session'[s] = session[s]
    <2>1. /\ session[s].assigned_ip \in Ip \cup {None}
          /\ session[s].assigned_ip_v6 \in IpV6 \cup {None}
        BY Zenon DEF TypeOK, SessionStruct
    <2>2. \A k \in Ip : k # i => routes'[k] = routes[k]
        BY Zenon DEF TypeOK, Remove
    <2>3. \A k \in IpV6 : k # j => routes_v6'[k] = routes_v6[k]
        BY DEF TypeOK, Remove
    <2>4. /\ session[s].assigned_ip # None =>
                 session[s].assigned_ip # i /\ routes[session[s].assigned_ip] = a
          /\ session[s].assigned_ip_v6 # None =>
                 session[s].assigned_ip_v6 # j /\ routes_v6[session[s].assigned_ip_v6] = a
        BY <1>2, Zenon DEF RegisteredRouted
    <2>5. QED
        BY <1>4, <2>1, <2>2, <2>3, <2>4, Zenon
<1>5. QED
    BY <1>3, <1>4, Zenon

\* The types of the route tables and of the IPv6 cursor.
LEMMA RouteTypes ==
    TypeOK => /\ routes \in [Ip -> Addr \cup {None}]
              /\ routes_v6 \in [IpV6 -> Addr \cup {None}]
              /\ next_pool_ip_v6 \in Nat
<1>1. TypeOK => /\ routes \in [Ip -> Addr \cup {None}]
                /\ routes_v6 \in [IpV6 -> Addr \cup {None}]
    BY DEF TypeOK
<1>2. TypeOK => next_pool_ip_v6 \in Nat
    BY TableAssumption DEF TypeOK
<1>3. QED
    BY <1>1, <1>2

\* The address that AddRoutes stores belongs to its session alone.
LEMMA RoutedAfterAssign ==
    ASSUME IInv, FreshInv, PoolInv, PoolV6Inv, UdpOnly => StaticInv, StaticsApart,
           RegisteredRouted, NEW t \in Task, Assigns(t), task[t].sess \in Session
    PROVE  RegisteredRouted'
<1>0. /\ TypeOK /\ task[t].ip \in Ip /\ task[t].pc = "route" /\ sessions' = sessions
      /\ None \notin Addr
    BY TableAssumption, Zenon DEF IInv, TypeOK, TaskLocals, FreshInv, Assigns
<1>1. SUFFICES ASSUME NEW a \in Addr, NEW s \in Session, RegisteredAt(s, a)'
      PROVE  /\ session'[s].assigned_ip # None => routes'[session'[s].assigned_ip] = a
             /\ session'[s].assigned_ip_v6 # None =>
                    routes_v6'[session'[s].assigned_ip_v6] = a
    BY Zenon DEF RegisteredRouted
<1>2. RegisteredAt(s, a)
    BY <1>0, <1>1, Zenon DEF RegisteredAt
<1>3. session[s] \in SessionStruct
    BY <1>0 DEF TypeOK
<1>4. routes' = [routes EXCEPT ![task[t].ip] = task[t].addr]
    BY DEF Assigns
<1>5. /\ routes \in [Ip -> Addr \cup {None}] /\ routes_v6 \in [IpV6 -> Addr \cup {None}]
      /\ next_pool_ip_v6 \in Nat
    BY <1>0, RouteTypes
<1>6. CASE s = task[t].sess
    <2>1. a = task[t].addr
        BY <1>0, <1>2, <1>6, Zenon DEF FreshInv, AtWork
    <2>2. routes'[session'[s].assigned_ip] = a
        BY <1>0, <1>4, <1>5, <1>6, <2>1, Zenon DEF Assigns
    <2>3. CASE /\ routes_v6' = routes_v6
               /\ session'[s].assigned_ip_v6 = session[s].assigned_ip_v6
        <3>1. session[s].assigned_ip_v6 # None => routes_v6[session[s].assigned_ip_v6] = a
            BY <1>2, Zenon DEF RegisteredRouted
        <3>2. QED
            BY <2>2, <2>3, <3>1, Zenon
    <2>4. CASE /\ next_pool_ip_v6 \in IpV6
               /\ routes_v6' = [routes_v6 EXCEPT ![next_pool_ip_v6] = task[t].addr]
               /\ session'[s].assigned_ip_v6 = next_pool_ip_v6
        BY <1>5, <2>1, <2>2, <2>4
    <2>5. QED
        BY <1>6, <2>3, <2>4, Zenon DEF Assigns
<1>7. CASE s # task[t].sess
    <2>1. session'[s] = session[s]
        BY <1>7 DEF Assigns
    <2>2. ASSUME session[s].assigned_ip # None PROVE session[s].assigned_ip # task[t].ip
        <3>1. SUFFICES ASSUME session[s].assigned_ip = task[t].ip PROVE FALSE
            OBVIOUS
        <3>2. Holds(s, task[t].ip) /\ Holds(task[t].sess, task[t].ip)
            BY <1>0, <3>1 DEF Holds
        <3>3. task[t].ip \notin PoolIp
            BY <1>7, <3>2 DEF PoolInv
        <3>4. routes[task[t].ip] = None
            BY <1>0, <3>3, StaticOrPool DEF StaticInv
        <3>5. routes[session[s].assigned_ip] = a
            BY <1>2, <2>2 DEF RegisteredRouted
        <3>6. QED
            BY <1>0, <3>1, <3>4, <3>5
    <2>3. session[s].assigned_ip # None => routes'[session[s].assigned_ip] = a
        BY <1>2, <1>3, <1>4, <1>5, <2>2 DEF RegisteredRouted, SessionStruct
    <2>4. ASSUME session[s].assigned_ip_v6 # None
          PROVE  routes_v6'[session[s].assigned_ip_v6] = a
        <3>1. /\ session[s].assigned_ip_v6 \in IpV6
              /\ session[s].assigned_ip_v6 # next_pool_ip_v6
              /\ routes_v6[session[s].assigned_ip_v6] = a
            <4>1. session[s].assigned_ip_v6 \in IpV6
                BY <1>3, <2>4 DEF SessionStruct
            <4>2. session[s].assigned_ip_v6 < next_pool_ip_v6
                BY <2>4 DEF PoolV6Inv
            <4>3. session[s].assigned_ip_v6 # next_pool_ip_v6
                BY <1>5, <4>1, <4>2 DEF IpV6
            <4>4. QED
                BY <1>2, <2>4, <4>1, <4>3 DEF RegisteredRouted
        <3>2. \/ routes_v6' = routes_v6
              \/ routes_v6' = [routes_v6 EXCEPT ![next_pool_ip_v6] = task[t].addr]
            BY DEF Assigns
        <3>3. QED
            BY <1>5, <3>1, <3>2
    <2>5. QED
        BY <2>1, <2>3, <2>4
<1>8. QED
    BY <1>6, <1>7, Zenon

\* Every step leaves the sessions in the table with their routes.
LEMMA NextRouted ==
    ASSUME IInv, FreshInv, ReaperHolds, PoolInv, PoolV6Inv, UdpOnly => UdpInv /\ StaticInv,
           StaticsApart, RegisteredRouted, [Next]_vars
    PROVE  RegisteredRouted'
<1>0. TypeOK
    BY DEF IInv
<1>1. ASSUME NEW t \in Task, Handles(t) \/ Pushes(t) \/ Plain(t) PROVE RegisteredRouted'
    <2>1. UNCHANGED <<routes, routes_v6>> /\ \A s \in Session : SameAddresses(s)
        BY <1>1, Zenon DEF Handles, Pushes, Plain
    <2>2. \A a \in Addr, s \in Session :
              RegisteredAt(s, a)' =>
                  \/ RegisteredAt(s, a)
                  \/ session[s].assigned_ip = None /\ session[s].assigned_ip_v6 = None
        BY <1>1, Zenon DEF Handles, Pushes, Plain, RegisteredAt
    <2>3. QED
        BY <2>1, <2>2, RoutedKept DEF SameAddresses
<1>2. ASSUME NEW t \in Task, AddRoutes(t) PROVE RegisteredRouted'
    BY <1>0, <1>2, AssignForm, RoutedAfterAssign
<1>3. ASSUME NEW t \in Task, StreamCleanup(t) PROVE RegisteredRouted'
    <2>1. PICK q \in Session : q = task[t].sess
        BY <1>3 DEF StreamCleanup, IInv, TypeOK, TaskLocals, TaskInv
    <2>2. /\ routes' = Remove(routes, {session[q].assigned_ip})
          /\ routes_v6' = Remove(routes_v6, {session[q].assigned_ip_v6})
          /\ sessions' = sessions /\ task[t].pc = "eof" /\ ~Registered(q)
        BY <1>3, <2>1 DEF StreamCleanup, IInv, TaskInv
    <2>3. ~UdpOnly
        BY <2>2 DEF UdpInv
    <2>4. /\ session[q].assigned_ip \in Ip \cup {None}
          /\ session[q].assigned_ip_v6 \in IpV6 \cup {None}
        BY <1>0 DEF TypeOK, SessionStruct
    <2>5. ASSUME NEW s \in Session, Registered(s)
          PROVE  /\ session[s].assigned_ip # None =>
                        session[s].assigned_ip # session[q].assigned_ip
                 /\ session[s].assigned_ip_v6 # None =>
                        session[s].assigned_ip_v6 # session[q].assigned_ip_v6
        <3>1. s # q
            BY <2>2, <2>5
        <3>2. \A i \in PoolIp : ~(Holds(s, i) /\ Holds(q, i))
            BY <3>1 DEF PoolInv
        <3>3. session[q].assigned_ip # None => session[q].assigned_ip \in PoolIp
            BY <2>3, <2>4, StaticOrPool
        <3>4. QED
            BY <3>1, <3>2, <3>3 DEF Holds, PoolV6Inv
    <2>6. \A s \in Session : session'[s] = session[s] \/ session'[s] = NewSession
        BY <1>0, <1>3, FreedForm
    <2>7. QED
        BY <1>0, <2>2, <2>4, <2>5, <2>6, RoutedAfterCleanup, Zenon
<1>4. CASE EvictRest
    <2>1. PICK q \in Session : q = reaper.sess
        BY <1>4 DEF EvictRest, IInv, TypeOK, ReaperLocals, ReaperInv, ReaperBusy
    <2>2. /\ routes' = Remove(routes, {reaper.assigned})
          /\ routes_v6' = Remove(routes_v6, {reaper.assigned_v6})
          /\ sessions' = sessions /\ ~Registered(q)
        BY <1>4, <2>1, Zenon DEF EvictRest, IInv, ReaperInv
    <2>3. /\ reaper.assigned \in Ip \cup {None}
          /\ reaper.assigned_v6 \in IpV6 \cup {None}
        BY <1>0 DEF TypeOK, ReaperLocals
    <2>4. ASSUME NEW s \in Session, Registered(s)
          PROVE  /\ session[s].assigned_ip # None =>
                        session[s].assigned_ip # reaper.assigned
                 /\ session[s].assigned_ip_v6 # None =>
                        session[s].assigned_ip_v6 # reaper.assigned_v6
        <3>1. s # reaper.sess
            BY <2>1, <2>2, <2>4
        <3>2. reaper.assigned \in PoolIp => session[s].assigned_ip # reaper.assigned
            BY <3>1, Zenon DEF PoolInv, Holds
        <3>3. reaper.assigned # None /\ reaper.assigned \notin PoolIp =>
                  session[s].assigned_ip # reaper.assigned
            BY <2>3, <2>4, <3>1, StaticOrPool DEF StaticInv
        <3>4. QED
            BY <3>1, <3>2, <3>3 DEF PoolV6Inv
    <2>5. \A s \in Session : session'[s] = session[s] \/ session'[s] = NewSession
        BY <1>0, <1>4, FreedForm
    <2>6. QED
        BY <1>0, <2>2, <2>3, <2>4, <2>5, RoutedAfterCleanup
<1>5. CASE EvictSession
    <2>1. UNCHANGED <<routes, routes_v6, session>>
        BY <1>5 DEF EvictSession
    <2>2. \A a \in Addr, s \in Session : RegisteredAt(s, a)' => RegisteredAt(s, a)
        BY <1>0, <1>5, TableAssumption DEF EvictSession, Remove, TypeOK, RegisteredAt, Session
    <2>3. QED
        BY <2>1, <2>2, RoutedKept
<1>6. CASE ReaperTick \/ ReaperDone \/ ReaperRead \/ (\E a \in Addr : ReaperGet(a))
    <2>1. UNCHANGED <<sessions, routes, routes_v6, session>>
        BY <1>6, Zenon DEF ReaperTick, ReaperDone, ReaperRead, ReaperGet, tables
    <2>2. QED
        BY <2>1, RoutedKept DEF RegisteredAt
<1>7. ASSUME NEW s \in Session, DataPacket(s) \/ GoIdle(s) PROVE RegisteredRouted'
    <2>1. UNCHANGED <<sessions, routes, routes_v6>> /\ \A r \in Session : SameAddresses(r)
        BY <1>7, IdleForm
    <2>2. QED
        BY <2>1, RoutedKept DEF RegisteredAt, SameAddresses
<1>8. CASE UNCHANGED vars
    BY <1>8, RoutedKept DEF vars, tables, RegisteredAt
<1>9. QED
    BY <1>0, <1>1, <1>2, <1>3, <1>4, <1>5, <1>6, <1>7, <1>8, HandlerForm, PushForm,
       PlainForm DEF Next, HandlePacket, Reaper

\* A server that starts has handed out no address.
LEMMA InitRouted ==
    Init => PoolInv /\ PoolV6Inv /\ StaticInv /\ RegisteredRouted
<1> SUFFICES ASSUME Init PROVE PoolInv /\ PoolV6Inv /\ StaticInv /\ RegisteredRouted
    OBVIOUS
<1>1. \A t \in Task : task[t].pc \in {"recv", "closed"}
    BY DEF Init, Idling
<1>2. /\ reaper.assigned = None /\ reaper.assigned_v6 = None
      /\ \A s \in Session : session[s].assigned_ip = None /\ session[s].assigned_ip_v6 = None
    BY DEF Init, NewSession
<1>3. None \notin PoolIp
    BY TableAssumption DEF PoolIp
<1>4. QED
    BY <1>1, <1>2, <1>3, Zenon DEF PoolInv, PoolV6Inv, StaticInv, RegisteredRouted, Holds

\* RegisteredRouted for every number of peers and sessions, over UDP and TCP:
\* the address of a session in the table is routed to that session's socket
\* address, whatever the order in which add_routes, the end of other streams
\* and the idle reaper touch the tables.  Static addresses must be outside the
\* pool and, where there are any, the server must not listen on TCP: otherwise
\* two sessions can have one address, and the second route replaces the first.
THEOREM RoutesKept == StaticsApart => (Spec => []RegisteredRouted)
<1> DEFINE RouteInv == /\ ReaperHolds /\ PoolInv /\ PoolV6Inv
                       /\ UdpOnly => UdpInv /\ StaticInv
                       /\ RegisteredRouted
<1> SUFFICES ASSUME StaticsApart PROVE Spec => []RegisteredRouted
    OBVIOUS
<1>1. Init => RouteInv
    BY InitFresh, InitRouted
<1>2. IInv /\ FreshInv /\ RouteInv /\ [Next]_vars => RouteInv'
    <2> SUFFICES ASSUME IInv, FreshInv, RouteInv, [Next]_vars PROVE RouteInv'
        OBVIOUS
    <2>1. ReaperHolds' /\ PoolInv' /\ PoolV6Inv'
        BY NextPool, NextPoolV6
    <2>2. ASSUME UdpOnly PROVE UdpInv' /\ StaticInv'
        BY <2>2, NextUdp, NextStatic
    <2>3. RegisteredRouted'
        BY NextRouted
    <2>4. QED
        BY <2>1, <2>2, <2>3 DEF UdpOnly
<1>3. RouteInv => RegisteredRouted
    OBVIOUS
<1> HIDE DEF RouteInv
<1>4. QED
    BY <1>1, <1>2, <1>3, FreshInvariant, PTL DEF Spec

=============================================================================
