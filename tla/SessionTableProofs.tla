------------------------- MODULE SessionTableProofs -------------------------
(***************************************************************************)
(* Proofs about SessionTable, for any number of peers, streams, sessions,  *)
(* addresses and names.                                                    *)
(***************************************************************************)
EXTENDS SessionTable, TLAPS

(***************************************************************************)
(* What the reaper's locals and the tasks' locals say of the table.  A     *)
(* session is in the table under one address at most and enters it once:   *)
(* a task about to insert a session is the only one to know it, and a      *)
(* session whose cleanup has begun has left the table for good.            *)
(***************************************************************************)
Entering(t) == task[t].pc \in {"insert", "worker"}

Known(s) == s # None => s < next_peer_id

ReaperBusy == reaper.pc \in {"read", "evict", "cleanup"}

NotInserting(s) == \A t \in Task : task[t].pc = "insert" => task[t].sess # s

TableInv ==
    /\ \A a \in Addr : Known(sessions[a])
    /\ \A a, b \in Addr : sessions[a] # None /\ sessions[a] = sessions[b] => a = b

TaskInv ==
    /\ \A t \in Task : Known(task[t].sess)
    /\ \A t \in Task : Entering(t) => task[t].sess # None
    /\ \A t \in Task : task[t].pc = "insert" => ~Registered(task[t].sess)
    /\ \A t \in Task : task[t].pc = "insert" => task[t].addr # None
    /\ \A t \in Task : task[t].pc = "worker" =>
           \A a \in Addr : RegisteredAt(task[t].sess, a) => a = task[t].addr
    /\ \A t, u \in Task :
           Entering(t) /\ Entering(u) /\ task[t].sess = task[u].sess => t = u
    /\ \A t \in Task : task[t].pc = "eof" =>
           /\ task[t].sess # None
           /\ ~Registered(task[t].sess)
           /\ NotInserting(task[t].sess)

ReaperInv ==
    /\ Known(reaper.sess)
    /\ ReaperBusy =>
           /\ reaper.sess # None
           /\ NotInserting(reaper.sess)
           /\ \A a \in Addr : RegisteredAt(reaper.sess, a) => a = reaper.addr
    /\ reaper.pc = "cleanup" => ~Registered(reaper.sess)

IInv == TypeOK /\ TableInv /\ TaskInv /\ ReaperInv

\* The 24-bit peer ids have not run out, so that two sessions differ in theirs.
NoWrap == MaxSessions < PeerIdSpace

-----------------------------------------------------------------------------
(***************************************************************************)
(* Types.                                                                  *)
(***************************************************************************)
LEMMA StaticType ==
    ASSUME TypeOK, NEW s \in Session
    PROVE  StaticOf(s) \in Ip \cup {None}
BY DEF TypeOK, SessionStruct, StaticOf, Ip

\* allocate_ip: an address of the pool, and a cursor that stops at its end.
LEMMA AllocateIpType ==
    ASSUME TypeOK
    PROVE  /\ AllocateIp \in Ip \cup {None}
           /\ AllocateIp # None => next_pool_ip + 1 \in PoolStart .. PoolEnd + 1
BY TableAssumption DEF TypeOK, AllocateIp, Ip, PoolIp

\* allocate_ip_v6: the same for the other pool.
LEMMA AllocateIpV6Type ==
    ASSUME TypeOK
    PROVE  /\ AllocateIpV6 \in IpV6 \cup {None}
           /\ AllocateIpV6 # None => AllocateIpV6 + 1 \in 1 .. PoolEndV6 + 1
BY TableAssumption DEF TypeOK, AllocateIpV6, IpV6

\* A new session is a session.
LEMMA NewSessionType == NewSession \in SessionStruct
BY DEF NewSession, SessionStruct, SessionState

\* A waiting task's locals have their type.
LEMMA IdlingType ==
    /\ Idling \in TaskLocals
    /\ [Idling EXCEPT !.pc = "closed"] \in TaskLocals
BY DEF Idling, TaskLocals, TaskPc

\* What a handler does to its task's locals keeps their type.
LEMMA ContinueType ==
    ASSUME TypeOK, NEW t \in Task, Continue(t)
    PROVE  task' \in [Task -> TaskLocals]
<1>1. [task[t] EXCEPT !.pc = "drive", !.ip = None] \in TaskLocals
    BY DEF TypeOK, TaskLocals, TaskPc
<1>2. QED
    BY <1>1 DEF TypeOK, Continue

\* Removing entries from a table (DashMap::remove) keeps its type.
LEMMA RemoveType ==
    ASSUME NEW D, NEW R, NEW f \in [D -> R \cup {None}], NEW K
    PROVE  Remove(f, K) \in [D -> R \cup {None}]
BY DEF Remove

\* Setting last_seen, or its passing, keeps the type of the session.
LEMMA IdleType ==
    ASSUME TypeOK, NEW s \in Session, NEW b \in BOOLEAN
    PROVE  [session EXCEPT ![s].idle = b] \in [Session -> SessionStruct]
<1>1. [session[s] EXCEPT !.idle = b] \in SessionStruct
    BY DEF TypeOK, SessionStruct
<1>2. QED
    BY <1>1 DEF TypeOK

\* finalize_keys sets last_seen, the common name and the state.
LEMMA FinalizedType ==
    ASSUME NEW r \in SessionStruct, NEW cn \in CommonName \cup {None}
    PROVE  [r EXCEPT !.idle = FALSE, !.cn = cn, !.state = "KeyExchange"]
               \in SessionStruct
<1>1. "KeyExchange" \in SessionState
    BY DEF SessionState
<1>2. QED
    BY <1>1 DEF SessionStruct

\* The tables start with their types.
LEMMA InitType == Init => TypeOK
<1> SUFFICES ASSUME Init PROVE TypeOK
    OBVIOUS
<1>1. /\ next_peer_id \in 1 .. MaxSessions + 1
      /\ next_pool_ip \in PoolStart .. PoolEnd + 1
      /\ next_pool_ip_v6 \in 1 .. PoolEndV6 + 1
    BY TableAssumption DEF Init
<1>2. session \in [Session -> SessionStruct] /\ task \in [Task -> TaskLocals]
    BY NewSessionType, IdlingType DEF Init
<1>3. reaper \in ReaperLocals
    BY DEF Init, ReaperLocals, ReaperPc
<1>4. QED
    BY <1>1, <1>2, <1>3 DEF Init, TypeOK

\* The steps of handle_control_packet up to the session's worker.
LEMMA EnterType ==
    ASSUME TypeOK, NEW t \in Task,
           \/ \E a \in Addr : HardReset(t, a) \/ LookUp(t, a)
           \/ InsertSession(t) \/ SpawnDataWorker(t)
    PROVE  TypeOK'
<1>1. ASSUME NEW a \in Addr, HardReset(t, a) PROVE TypeOK'
    <2>1. next_peer_id \in Session /\ next_peer_id' \in 1 .. MaxSessions + 1
        BY <1>1, TableAssumption DEF HardReset, Session
    <2>2. session' \in [Session -> SessionStruct]
        BY <1>1, <2>1 DEF HardReset, TypeOK, SessionStruct, SessionState
    <2>3. task' \in [Task -> TaskLocals]
        <3>1. [pc |-> "insert", addr |-> a, sess |-> next_peer_id, ip |-> None]
                  \in TaskLocals
            BY <2>1 DEF TaskLocals, TaskPc
        <3>2. QED
            BY <1>1, <3>1 DEF HardReset, TypeOK
    <2>4. QED
        BY <1>1, <2>1, <2>2, <2>3 DEF HardReset, TypeOK, tables
<1>2. ASSUME NEW a \in Addr, LookUp(t, a) PROVE TypeOK'
    <2>1. [pc |-> "lock", addr |-> a, sess |-> sessions[a], ip |-> None] \in TaskLocals
        BY DEF TypeOK, TaskLocals, TaskPc
    <2>2. QED
        BY <1>2, <2>1 DEF LookUp, TypeOK, tables, pools
<1>3. CASE InsertSession(t)
    <2>1. task[t] \in TaskLocals
        BY DEF TypeOK
    <2>2. sessions' \in [Addr -> Session \cup {None}]
        BY <1>3, <2>1 DEF InsertSession, TypeOK, TaskLocals
    <2>3. task' \in [Task -> TaskLocals]
        BY <1>3, <2>1 DEF InsertSession, TypeOK, TaskLocals, TaskPc
    <2>4. QED
        BY <1>3, <2>2, <2>3 DEF InsertSession, TypeOK, pools
<1>4. CASE SpawnDataWorker(t)
    <2>1. task[t].addr \in Addr \cup {None} /\ task[t].sess \in Session \cup {None}
        BY DEF TypeOK, TaskLocals
    <2>2. /\ peers' \in [PeerId -> Addr \cup {None}]
          /\ data_routes' \in [PeerId -> Session \cup {None}]
        BY <1>4, <2>1 DEF SpawnDataWorker, TypeOK
    <2>3. task' \in [Task -> TaskLocals]
        BY <1>4, IdlingType DEF SpawnDataWorker, TypeOK
    <2>4. QED
        BY <1>4, <2>2, <2>3 DEF SpawnDataWorker, TypeOK, pools
<1>5. QED
    BY <1>1, <1>2, <1>3, <1>4

\* The steps a task takes while it holds the session's mutex.
LEMMA HandlerType ==
    ASSUME TypeOK, NEW t \in Task,
           \/ Touch(t) \/ FinalizeKeys(t) \/ KeyMethod2(t)
           \/ PushStatic(t) \/ PushPool(t) \/ Exit(t)
    PROVE  TypeOK'
<1>1. CASE Touch(t)
    <2>1. session' \in [Session -> SessionStruct]
        BY <1>1, IdleType DEF Touch
    <2>2. task' \in [Task -> TaskLocals]
        BY <1>1, IdlingType DEF Touch, TypeOK
    <2>3. QED
        BY <1>1, <2>1, <2>2 DEF Touch, TypeOK, tables, pools
<1>2. CASE FinalizeKeys(t)
    <2>1. session' \in [Session -> SessionStruct]
        <3>1. PICK s \in Session, cn \in CommonName \cup {None} :
                  session' = [session EXCEPT ![s].idle = FALSE, ![s].cn = cn,
                                             ![s].state = "KeyExchange"]
            BY <1>2 DEF FinalizeKeys
        <3>2. [session[s] EXCEPT !.idle = FALSE, !.cn = cn, !.state = "KeyExchange"]
                  \in SessionStruct
            <4>1. session[s] \in SessionStruct
                BY DEF TypeOK
            <4>2. QED
                BY <4>1, FinalizedType
        <3>3. session' = [session EXCEPT ![s] =
                  [session[s] EXCEPT !.idle = FALSE, !.cn = cn, !.state = "KeyExchange"]]
            BY <3>1 DEF TypeOK
        <3>4. QED
            BY <3>2, <3>3 DEF TypeOK
    <2>2. QED
        BY <1>2, <2>1, ContinueType DEF FinalizeKeys, TypeOK, tables, pools
<1>3. CASE KeyMethod2(t)
    <2>1. session' \in [Session -> SessionStruct]
        BY <1>3 DEF KeyMethod2, TypeOK, SessionStruct, SessionState
    <2>2. QED
        BY <1>3, <2>1, ContinueType DEF KeyMethod2, TypeOK, tables, pools
<1>4. CASE PushStatic(t)
    <2>1. PICK s \in Session : PushStatic(t)!(s)
        BY <1>4 DEF PushStatic
    <2>2. session' \in [Session -> SessionStruct]
        BY <2>1, IdleType
    <2>3. [task[t] EXCEPT !.pc = "route", !.ip = StaticOf(s)] \in TaskLocals
        BY StaticType DEF TypeOK, TaskLocals, TaskPc
    <2>4. task' \in [Task -> TaskLocals]
        BY <2>1, <2>3, IdlingType DEF TypeOK
    <2>5. QED
        BY <2>1, <2>2, <2>4 DEF TypeOK, tables, pools
<1>5. CASE PushPool(t)
    <2>1. session' \in [Session -> SessionStruct]
        BY <1>5, IdleType DEF PushPool
    <2>2. [task[t] EXCEPT !.pc = "route", !.ip = AllocateIp] \in TaskLocals
        BY AllocateIpType DEF TypeOK, TaskLocals, TaskPc
    <2>3. task' \in [Task -> TaskLocals]
        BY <1>5, <2>2, IdlingType DEF PushPool, TypeOK
    <2>4. next_pool_ip' \in PoolStart .. PoolEnd + 1
        BY <1>5, AllocateIpType DEF PushPool, TypeOK
    <2>5. QED
        BY <1>5, <2>1, <2>3, <2>4 DEF PushPool, TypeOK, tables
<1>6. CASE Exit(t)
    <2>1. session' \in [Session -> SessionStruct]
        BY <1>6 DEF Exit, TypeOK, SessionStruct, SessionState
    <2>2. task' \in [Task -> TaskLocals]
        BY <1>6, IdlingType DEF Exit, TypeOK
    <2>3. QED
        BY <1>6, <2>1, <2>2 DEF Exit, TypeOK, tables, pools
<1>7. QED
    BY <1>1, <1>2, <1>3, <1>4, <1>5, <1>6

\* Storing and routing an address keeps the types.
LEMMA AddRoutesType ==
    ASSUME TypeOK, NEW t \in Task, AddRoutes(t)
    PROVE  TypeOK'
<1>1. /\ task[t].addr \in Addr \cup {None} /\ task[t].ip \in Ip \cup {None}
    BY DEF TypeOK, TaskLocals
<1>2. routes' \in [Ip -> Addr \cup {None}]
    BY <1>1 DEF AddRoutes, TypeOK
<1>3. /\ routes_v6' \in [IpV6 -> Addr \cup {None}]
      /\ next_pool_ip_v6' \in 1 .. PoolEndV6 + 1
    BY <1>1, AllocateIpV6Type DEF AddRoutes, TypeOK
<1>4. session' \in [Session -> SessionStruct]
    <2> DEFINE s == task[t].sess
    <2>1. CASE s \in Session
        <3>1. session[s] \in SessionStruct /\ "Established" \in SessionState
            BY <2>1 DEF TypeOK, SessionState
        <3>2. [session[s] EXCEPT !.assigned_ip = task[t].ip] \in SessionStruct
            BY <1>1, <3>1 DEF SessionStruct
        <3>3. [session[s] EXCEPT !.assigned_ip = task[t].ip, !.state = "Established"]
                  \in SessionStruct
            BY <1>1, <3>1 DEF SessionStruct
        <3>4. ASSUME NEW i6 \in IpV6
              PROVE  [session[s] EXCEPT !.assigned_ip = task[t].ip,
                                        !.assigned_ip_v6 = i6,
                                        !.state = "Established"] \in SessionStruct
            BY <1>1, <3>1 DEF SessionStruct
        <3>5. \E r \in SessionStruct : session' = [session EXCEPT ![s] = r]
            <4>1. CASE session' = [session EXCEPT ![s].assigned_ip = task[t].ip]
                BY <3>2, <4>1
            <4>2. CASE session' = [session EXCEPT ![s].assigned_ip = task[t].ip,
                                                  ![s].state = "Established"]
                BY <2>1, <3>3, <4>2 DEF TypeOK
            <4>3. CASE /\ AllocateIpV6 # None
                       /\ session' = [session EXCEPT ![s].assigned_ip = task[t].ip,
                                                     ![s].assigned_ip_v6 = AllocateIpV6,
                                                     ![s].state = "Established"]
                BY <2>1, <3>4, <4>3, AllocateIpV6Type DEF TypeOK
            <4>4. QED
                BY <4>1, <4>2, <4>3 DEF AddRoutes
        <3>6. QED
            BY <3>5 DEF TypeOK
    <2>2. CASE s \notin Session
        BY <2>2 DEF AddRoutes, TypeOK
    <2>3. QED
        BY <2>1, <2>2
<1>5. task' \in [Task -> TaskLocals]
    BY ContinueType, IdlingType DEF AddRoutes, TypeOK
<1>6. QED
    BY <1>2, <1>3, <1>4, <1>5 DEF AddRoutes, TypeOK

\* run_tcp_stream.
LEMMA StreamType ==
    ASSUME TypeOK, NEW t \in Task, Accept(t) \/ StreamEof(t) \/ StreamCleanup(t)
    PROVE  TypeOK'
<1>1. CASE Accept(t)
    BY <1>1, IdlingType DEF Accept, TypeOK, tables, pools
<1>2. CASE StreamEof(t)
    <2>1. t \in Addr
        BY <1>2 DEF StreamEof, Task, Addr
    <2>2. [pc |-> "eof", addr |-> t, sess |-> sessions[t], ip |-> None] \in TaskLocals
        BY <2>1 DEF TypeOK, TaskLocals, TaskPc
    <2>3. task' \in [Task -> TaskLocals]
        BY <1>2, <2>2, IdlingType DEF StreamEof, TypeOK
    <2>4. sessions' \in [Addr -> Session \cup {None}]
        BY <1>2 DEF StreamEof, TypeOK
    <2>5. QED
        BY <1>2, <2>3, <2>4 DEF StreamEof, TypeOK, pools
<1>3. CASE StreamCleanup(t)
    <2>1. /\ routes' \in [Ip -> Addr \cup {None}]
          /\ routes_v6' \in [IpV6 -> Addr \cup {None}]
          /\ peers' \in [PeerId -> Addr \cup {None}]
          /\ data_routes' \in [PeerId -> Session \cup {None}]
        BY <1>3, RemoveType DEF StreamCleanup, TypeOK
    <2>2. session' \in [Session -> SessionStruct]
        BY <1>3, NewSessionType DEF StreamCleanup, TypeOK
    <2>3. task' \in [Task -> TaskLocals]
        BY <1>3, IdlingType DEF StreamCleanup, TypeOK
    <2>4. QED
        BY <1>3, <2>1, <2>2, <2>3 DEF StreamCleanup, TypeOK, pools
<1>4. QED
    BY <1>1, <1>2, <1>3

\* The reaper; a session it reads is one that it got from the table.
LEMMA ReaperType ==
    ASSUME TypeOK, ReaperInv, Reaper
    PROVE  TypeOK'
<1>1. CASE ReaperTick \/ ReaperDone
    <2>1. reaper' \in ReaperLocals
        <3>1. {a \in Addr : sessions[a] # None} \in SUBSET Addr
            OBVIOUS
        <3>2. QED
            BY <1>1, <3>1 DEF ReaperTick, ReaperDone, TypeOK, ReaperLocals, ReaperPc
    <2>2. QED
        BY <1>1, <2>1 DEF ReaperTick, ReaperDone, TypeOK, tables, pools
<1>2. ASSUME NEW a \in Addr, ReaperGet(a) PROVE TypeOK'
    <2>1. reaper' \in ReaperLocals
        BY <1>2 DEF ReaperGet, TypeOK, ReaperLocals, ReaperPc
    <2>2. QED
        BY <1>2, <2>1 DEF ReaperGet, TypeOK, tables, pools
<1>3. ReaperNext(reaper) \in ReaperLocals
    BY DEF ReaperNext, TypeOK, ReaperLocals, ReaperPc
<1>4. CASE ReaperRead
    <2>1. session[reaper.sess] \in SessionStruct
        BY <1>4 DEF ReaperRead, ReaperInv, ReaperBusy, TypeOK, ReaperLocals
    <2>2. /\ session[reaper.sess].assigned_ip \in Ip \cup {None}
          /\ session[reaper.sess].assigned_ip_v6 \in IpV6 \cup {None}
        BY <2>1 DEF SessionStruct
    <2>3. reaper' \in ReaperLocals
        BY <1>3, <1>4, <2>2 DEF ReaperRead, TypeOK, ReaperLocals, ReaperPc
    <2>4. QED
        BY <1>4, <2>3 DEF ReaperRead, TypeOK, tables, pools
<1>5. CASE EvictSession
    <2>1. reaper' \in ReaperLocals
        BY <1>5 DEF EvictSession, TypeOK, ReaperLocals, ReaperPc
    <2>2. sessions' \in [Addr -> Session \cup {None}]
        BY <1>5, RemoveType DEF EvictSession, TypeOK
    <2>3. QED
        BY <1>5, <2>1, <2>2 DEF EvictSession, TypeOK, pools
<1>6. CASE EvictRest
    <2>1. /\ routes' \in [Ip -> Addr \cup {None}]
          /\ routes_v6' \in [IpV6 -> Addr \cup {None}]
          /\ peers' \in [PeerId -> Addr \cup {None}]
          /\ data_routes' \in [PeerId -> Session \cup {None}]
        BY <1>6, RemoveType DEF EvictRest, TypeOK
    <2>2. session' \in [Session -> SessionStruct]
        BY <1>6, NewSessionType DEF EvictRest, TypeOK
    <2>3. QED
        BY <1>3, <1>6, <2>1, <2>2 DEF EvictRest, TypeOK, pools
<1>7. QED
    BY <1>1, <1>2, <1>4, <1>5, <1>6 DEF Reaper

\* Every step keeps the types.
LEMMA NextType == TypeOK /\ ReaperInv /\ [Next]_vars => TypeOK'
<1> SUFFICES ASSUME TypeOK, ReaperInv, [Next]_vars PROVE TypeOK'
    OBVIOUS
<1>1. ASSUME NEW s \in Session, DataPacket(s) \/ GoIdle(s) PROVE TypeOK'
    <2>1. session' \in [Session -> SessionStruct]
        BY <1>1, IdleType DEF DataPacket, GoIdle
    <2>2. QED
        BY <1>1, <2>1 DEF DataPacket, GoIdle, TypeOK, tables, pools
<1>2. CASE UNCHANGED vars
    BY <1>2 DEF vars, TypeOK, tables, pools
<1>3. QED
    BY <1>1, <1>2, EnterType, HandlerType, AddRoutesType, StreamType, ReaperType
       DEF Next, HandlePacket

-----------------------------------------------------------------------------
(***************************************************************************)
(* The table and the locals.                                               *)
(***************************************************************************)
LEMMA InitIInv == Init => IInv
<1> SUFFICES ASSUME Init PROVE IInv
    OBVIOUS
<1>1. \A t \in Task : task[t].sess = None /\ task[t].pc \in {"recv", "closed"}
    BY DEF Init, Idling
<1>2. TableInv
    BY DEF Init, TableInv, Known
<1>3. TaskInv
    BY <1>1 DEF TaskInv, Known, Entering
<1>4. ReaperInv
    BY DEF Init, ReaperInv, Known, ReaperBusy
<1>5. QED
    BY <1>2, <1>3, <1>4, InitType DEF IInv

\* A step of task t that leaves the table, the counter and the reaper alone,
\* and leaves t neither entering a session nor cleaning one up.
Ordinary(t) ==
    /\ UNCHANGED <<sessions, next_peer_id, reaper>>
    /\ \A u \in Task \ {t} : task'[u] = task[u]
    /\ task'[t].pc \notin {"insert", "worker", "eof"}
    /\ \/ task'[t].sess \in {None, task[t].sess}
       \/ \E a \in Addr : task'[t].sess = sessions[a]

\* Such a step keeps the invariant.
LEMMA OrdinaryKeeps ==
    ASSUME IInv, NEW t \in Task, Ordinary(t)
    PROVE  TableInv' /\ TaskInv' /\ ReaperInv'
<1>1. TableInv'
    BY DEF IInv, TableInv, Ordinary, Known
<1>2. \A u \in Task : task'[u].pc \in {"insert", "worker", "eof"} =>
          u # t /\ task'[u] = task[u]
    BY DEF Ordinary
<1>3. \A s : NotInserting(s) => NotInserting(s)'
    BY <1>2 DEF NotInserting
<1>4. \A u \in Task : Known(task[u].sess)'
    BY DEF IInv, TaskInv, TableInv, Known, Ordinary
<1>5. \A s, a : RegisteredAt(s, a)' <=> RegisteredAt(s, a)
    BY DEF RegisteredAt, Ordinary
<1>6. TaskInv'
    BY <1>2, <1>3, <1>4, <1>5 DEF IInv, TaskInv, Entering, Registered
<1>7. ReaperInv'
    BY <1>3, <1>5 DEF IInv, ReaperInv, ReaperBusy, Known, Registered, Ordinary
<1>8. QED
    BY <1>1, <1>6, <1>7

\* The handlers of a known session's packets are ordinary steps.
LEMMA HandlerOrdinary ==
    ASSUME TypeOK, NEW t \in Task,
           \/ Touch(t) \/ FinalizeKeys(t) \/ KeyMethod2(t)
           \/ PushStatic(t) \/ PushPool(t) \/ AddRoutes(t) \/ Exit(t)
    PROVE  /\ Ordinary(t)
           /\ task[t].pc # "worker"
           /\ UNCHANGED <<peers, data_routes>>
<1>1. task[t] \in TaskLocals
    BY DEF TypeOK
<1>2. task[t].pc \in {"lock", "drive", "route"}
    BY DEF Touch, FinalizeKeys, KeyMethod2, PushStatic, PushPool, AddRoutes, Exit, Locked
<1>3. UNCHANGED <<sessions, next_peer_id, reaper, peers, data_routes>>
    BY DEF Touch, FinalizeKeys, KeyMethod2, PushStatic, PushPool, AddRoutes, Exit,
       tables, pools
<1>4. \/ task' = [task EXCEPT ![t] = Idling]
      \/ Continue(t)
      \/ \E ip : task' = [task EXCEPT ![t] = [task[t] EXCEPT !.pc = "route", !.ip = ip]]
    BY DEF Touch, FinalizeKeys, KeyMethod2, PushStatic, PushPool, AddRoutes, Exit
<1>5. /\ \A u \in Task \ {t} : task'[u] = task[u]
      /\ task'[t].pc \in {"recv", "drive", "route"}
      /\ task'[t].sess \in {None, task[t].sess}
    <2>1. CASE task' = [task EXCEPT ![t] = Idling]
        BY <2>1 DEF TypeOK, Idling
    <2>2. CASE Continue(t)
        BY <1>1, <2>2 DEF TypeOK, Continue, TaskLocals
    <2>3. ASSUME NEW ip,
                 task' = [task EXCEPT ![t] = [task[t] EXCEPT !.pc = "route", !.ip = ip]]
          PROVE  /\ \A u \in Task \ {t} : task'[u] = task[u]
                 /\ task'[t].pc = "route" /\ task'[t].sess = task[t].sess
        BY <1>1, <2>3 DEF TypeOK, TaskLocals
    <2>4. QED
        BY <1>4, <2>1, <2>2, <2>3
<1>6. QED
    BY <1>2, <1>3, <1>5 DEF Ordinary

\* So are finding the session, the end of its creation and of its cleanup,
\* and a new stream.
LEMMA OtherOrdinary ==
    ASSUME TypeOK, NEW t \in Task,
           \/ \E a \in Addr : LookUp(t, a)
           \/ SpawnDataWorker(t) \/ Accept(t) \/ StreamCleanup(t)
    PROVE  Ordinary(t)
<1>1. ASSUME NEW a \in Addr, LookUp(t, a) PROVE Ordinary(t)
    BY <1>1 DEF LookUp, Ordinary, TypeOK, tables, pools
<1>2. CASE SpawnDataWorker(t) \/ Accept(t)
    BY <1>2 DEF SpawnDataWorker, Accept, Ordinary, TypeOK, tables, pools, Idling
<1>3. CASE StreamCleanup(t)
    BY <1>3 DEF StreamCleanup, Ordinary, TypeOK, pools, Idling
<1>4. QED
    BY <1>1, <1>2, <1>3

\* A new session is unknown to the table, to every task and to the reaper.
LEMMA HardResetKeeps ==
    ASSUME IInv, NEW t \in Task, NEW a \in Addr, HardReset(t, a)
    PROVE  TableInv' /\ TaskInv' /\ ReaperInv'
<1> DEFINE n == next_peer_id
<1>1. /\ n \in Nat /\ n \in Session /\ n # None /\ next_peer_id' = n + 1
      /\ UNCHANGED <<sessions, reaper>>
    BY TableAssumption DEF HardReset, tables, Session
<1>2. /\ \A b \in Addr : sessions[b] \in Session \cup {None}
      /\ \A u \in Task : task[u].sess \in Session \cup {None}
      /\ reaper.sess \in Session \cup {None}
    BY DEF IInv, TypeOK, TaskLocals, ReaperLocals
<1>3. \A s \in Session \cup {None} : Known(s) => Known(s)' /\ s # n
    BY <1>1 DEF Known, Session
<1>4. ~Registered(n)
    BY <1>2, <1>3 DEF IInv, TableInv, Registered, RegisteredAt
<1>5. /\ \A u \in Task : task[u].sess # n
      /\ reaper.sess # n
    BY <1>2, <1>3 DEF IInv, TaskInv, ReaperInv
<1>6. TableInv'
    BY <1>1, <1>2, <1>3 DEF IInv, TableInv
<1>7. CASE task' = task
    BY <1>1, <1>2, <1>3, <1>6, <1>7 DEF IInv, TaskInv, ReaperInv, Entering,
       NotInserting, ReaperBusy, Registered, RegisteredAt
<1>8. CASE task' = [task EXCEPT ![t] =
               [pc |-> "insert", addr |-> a, sess |-> n, ip |-> None]]
    <2>1. /\ \A u \in Task \ {t} : task'[u] = task[u]
          /\ task'[t].pc = "insert" /\ task'[t].addr = a /\ task'[t].sess = n
        BY <1>8 DEF IInv, TypeOK
    <2>2. a # None
        BY TableAssumption
    <2>3. \A s \in Session \cup {None} : NotInserting(s) /\ s # n => NotInserting(s)'
        BY <2>1 DEF NotInserting
    <2>4. \A u \in Task : Known(task[u].sess)'
        <3>1. Known(task[t].sess)'
            BY <1>1, <2>1 DEF Known
        <3>2. ASSUME NEW u \in Task \ {t} PROVE Known(task[u].sess)'
            <4>1. Known(task[u].sess) /\ task'[u] = task[u]
                BY <2>1 DEF IInv, TaskInv
            <4>2. task[u].sess = None \/ task[u].sess \in Nat
                BY <1>2 DEF Session
            <4>3. QED
                BY <1>1, <4>1, <4>2 DEF Known
        <3>3. QED
            BY <3>1, <3>2
    <2>5. \A s, b : RegisteredAt(s, b)' <=> RegisteredAt(s, b)
        BY <1>1 DEF RegisteredAt
    <2> HIDE DEF n
    <2>6. TaskInv'
        <3>1. \A r : ~Registered(r) => \A b \in Addr : sessions'[b] # r
            BY <1>1 DEF Registered, RegisteredAt
        <3>2. ASSUME NEW u \in Task, task'[u].pc = "insert"
              PROVE  ~Registered(task[u].sess)'
            <4>1. ~Registered(task'[u].sess)
                BY <1>4, <2>1, <3>2 DEF IInv, TaskInv
            <4>2. QED
                BY <3>1, <4>1 DEF Registered, RegisteredAt
        <3>3. \A u \in Task : Entering(u)' => task'[u].sess # None
            BY <1>1, <2>1 DEF IInv, TaskInv, Entering
        <3>4. \A u \in Task : task'[u].pc = "insert" => task'[u].addr # None
            BY <2>1, <2>2 DEF IInv, TaskInv
        <3>5. \A u \in Task : task'[u].pc = "worker" =>
                  \A b \in Addr : RegisteredAt(task[u].sess, b)' => b = task'[u].addr
            BY <2>1, <2>5 DEF IInv, TaskInv
        <3>6. \A u, v \in Task :
                  Entering(u)' /\ Entering(v)' /\ task'[u].sess = task'[v].sess
                      => u = v
            <4>1. \A u, v \in Task \ {t} :
                      Entering(u)' /\ Entering(v)' /\ task'[u].sess = task'[v].sess
                          => u = v
                BY <2>1 DEF IInv, TaskInv, Entering
            <4>2. \A u \in Task \ {t} : task'[u].sess # task'[t].sess
                BY <1>5, <2>1
            <4>3. QED
                BY <4>1, <4>2
        <3>7. ASSUME NEW u \in Task, task'[u].pc = "eof"
              PROVE  /\ task'[u].sess # None
                     /\ ~Registered(task[u].sess)'
                     /\ NotInserting(task[u].sess)'
            <4>1. u # t /\ task'[u] = task[u]
                BY <2>1, <3>7
            <4>2. /\ task[u].sess # None
                  /\ ~Registered(task[u].sess)
                  /\ NotInserting(task[u].sess)
                BY <3>7, <4>1 DEF IInv, TaskInv
            <4>3. ~Registered(task[u].sess)'
                BY <2>5, <4>1, <4>2 DEF Registered
            <4>4. NotInserting(task[u].sess)'
                BY <1>5, <2>1, <4>1, <4>2 DEF NotInserting
            <4>5. QED
                BY <4>1, <4>2, <4>3, <4>4
        <3>8. QED
            BY <2>4, <3>1, <3>2, <3>3, <3>4, <3>5, <3>6, <3>7 DEF TaskInv
    <2>7. ReaperInv'
        BY <1>1, <1>2, <1>3, <1>5, <2>3, <2>5
           DEF IInv, ReaperInv, ReaperBusy, Registered
    <2>8. QED
        BY <1>6, <2>6, <2>7
<1>9. QED
    BY <1>7, <1>8 DEF HardReset

\* The session that enters the table was in it nowhere, and nobody who is
\* cleaning up knows it.
LEMMA InsertSessionKeeps ==
    ASSUME IInv, NEW t \in Task, InsertSession(t)
    PROVE  TableInv' /\ TaskInv' /\ ReaperInv'
<1> DEFINE s == task[t].sess
           a == task[t].addr
<1>1. /\ task[t] \in TaskLocals /\ task[t].pc = "insert"
      /\ s # None /\ a \in Addr /\ ~Registered(s) /\ Known(s)
    BY DEF IInv, TypeOK, TaskInv, TaskLocals, InsertSession, Entering
<1>2. /\ sessions'[a] = s /\ \A b \in Addr \ {a} : sessions'[b] = sessions[b]
      /\ UNCHANGED <<next_peer_id, reaper>>
    BY <1>1 DEF IInv, TypeOK, InsertSession, pools
<1>3. /\ \A u \in Task \ {t} : task'[u] = task[u]
      /\ task'[t].pc = "worker" /\ task'[t].sess = s /\ task'[t].addr = a
    BY <1>1 DEF IInv, TypeOK, InsertSession, TaskLocals
<1>4. \A b \in Addr : sessions[b] # s
    BY <1>1 DEF Registered, RegisteredAt
<1>5. \A r, b : b \in Addr /\ RegisteredAt(r, b)' =>
          \/ r = s /\ b = a
          \/ r # s /\ RegisteredAt(r, b)
    BY <1>2, <1>4 DEF RegisteredAt
<1>6. \A r : NotInserting(r) => NotInserting(r)' /\ r # s
    BY <1>1, <1>3 DEF NotInserting
<1>7. \A r : Known(r)' <=> Known(r)
    BY <1>2 DEF Known
<1>8. \A u \in Task \ {t} : Entering(u) => task[u].sess # s
    BY <1>1 DEF IInv, TaskInv, Entering
<1> HIDE DEF s, a
<1>9. TableInv'
    BY <1>1, <1>2, <1>4, <1>7 DEF IInv, TableInv
<1>10. TaskInv'
    <2>1. \A u \in Task : Known(task[u].sess)'
        BY <1>1, <1>2, <1>3 DEF IInv, TaskInv, Known
    <2>2. \A u \in Task : Entering(u)' <=> Entering(u)
        BY <1>1, <1>3 DEF Entering
    <2>3. \A u \in Task : task'[u].sess = task[u].sess /\ task'[u].addr = task[u].addr
        BY <1>3 DEF s, a
    <2>4. \A u \in Task : task'[u].pc = "insert" =>
              u # t /\ task[u].pc = "insert" /\ task[u].sess # s
        BY <1>3, <1>8 DEF Entering
    <2>5. \A u \in Task : task'[u].pc = "eof" =>
              u # t /\ task[u].pc = "eof"
        BY <1>3
    <2>6. \A u \in Task : task'[u].pc = "worker" =>
              \A b \in Addr : RegisteredAt(task[u].sess, b)' => b = task'[u].addr
        BY <1>2, <1>3, <1>4, <1>8 DEF IInv, TaskInv, Entering, RegisteredAt
    <2>7. \A r : ~Registered(r) /\ r # s => ~Registered(r)'
        BY <1>5 DEF Registered
    <2>8. \A u \in Task : task'[u].pc = "insert" => ~Registered(task[u].sess)'
        BY <2>3, <2>4, <2>7 DEF IInv, TaskInv
    <2>9. \A u \in Task : task'[u].pc = "eof" =>
              /\ task'[u].sess # None
              /\ ~Registered(task[u].sess)'
              /\ NotInserting(task[u].sess)'
        BY <1>6, <2>3, <2>5, <2>7 DEF IInv, TaskInv
    <2>10. QED
        BY <2>1, <2>2, <2>3, <2>4, <2>6, <2>8, <2>9 DEF IInv, TaskInv
<1>11. ReaperInv'
    BY <1>2, <1>5, <1>6, <1>7 DEF IInv, ReaperInv, ReaperBusy, Registered
<1>12. QED
    BY <1>9, <1>10, <1>11

\* Steps that only take sessions out of the table.
LEMMA ShrinkKeeps ==
    ASSUME IInv, NEW A,
           \A b \in Addr : sessions'[b] = IF b \in A THEN None ELSE sessions[b],
           next_peer_id' = next_peer_id
    PROVE  /\ TableInv'
           /\ \A s, b : s # None /\ b \in Addr /\ RegisteredAt(s, b)' =>
                 RegisteredAt(s, b) /\ b \notin A
           /\ \A s : Known(s)' <=> Known(s)
BY DEF IInv, TableInv, RegisteredAt, Known

\* The end of a stream: its session has left the table for good.
LEMMA StreamEofKeeps ==
    ASSUME IInv, NEW t \in Task, StreamEof(t)
    PROVE  TableInv' /\ TaskInv' /\ ReaperInv'
<1> DEFINE s == sessions[t]
<1>1. t \in Addr /\ s \in Session \cup {None}
    BY DEF StreamEof, Task, Addr, IInv, TypeOK
<1>2. /\ \A b \in Addr : sessions'[b] = IF b \in {t} THEN None ELSE sessions[b]
      /\ UNCHANGED <<next_peer_id, reaper>>
    BY <1>1 DEF StreamEof, IInv, TypeOK, pools
<1>3. /\ TableInv'
      /\ \A r, b : r # None /\ b \in Addr /\ RegisteredAt(r, b)' => RegisteredAt(r, b) /\ b # t
      /\ \A r : Known(r)' <=> Known(r)
    BY <1>2, ShrinkKeeps
<1>4. \A u \in Task \ {t} : task'[u] = task[u]
    BY DEF StreamEof, IInv, TypeOK
<1>5. \/ s = None /\ task'[t].pc = "closed" /\ task'[t].sess = None
      \/ s # None /\ task'[t].pc = "eof" /\ task'[t].sess = s
    BY DEF StreamEof, IInv, TypeOK, Idling
<1>6. \A r : NotInserting(r) => NotInserting(r)'
    BY <1>4, <1>5 DEF NotInserting
<1>7. \A r : r # None /\ ~Registered(r) => ~Registered(r)'
    BY <1>3 DEF Registered
<1>8. s # None => NotInserting(s)
    BY <1>1 DEF IInv, TaskInv, NotInserting, Registered, RegisteredAt
<1>9. s # None => \A b \in Addr : sessions'[b] # s
    BY <1>1, <1>2 DEF IInv, TableInv
<1> HIDE DEF s
<1>10. TaskInv'
    <2>1. \A u \in Task : Known(task[u].sess)'
        <3>1. s # None => s < next_peer_id
            BY <1>1 DEF IInv, TableInv, Known, s
        <3>2. Known(task[t].sess)'
            BY <1>2, <1>5, <3>1 DEF Known
        <3>3. \A u \in Task \ {t} : Known(task[u].sess)'
            BY <1>2, <1>4 DEF IInv, TaskInv, Known
        <3>4. QED
            BY <3>2, <3>3
    <2>2. \A u \in Task : task'[u].pc \in {"insert", "worker"} => u # t /\ task'[u] = task[u]
        BY <1>4, <1>5
    <2>3. \A u \in Task : task'[u].pc \in {"insert", "worker"} => task[u].sess # None
        BY <2>2 DEF IInv, TaskInv, Entering
    <2>4. \A u \in Task : task'[u].pc = "insert" => ~Registered(task[u].sess)'
        BY <1>7, <2>2, <2>3 DEF IInv, TaskInv
    <2>5. \A u \in Task : task'[u].pc = "worker" =>
              \A b \in Addr : RegisteredAt(task[u].sess, b)' => b = task'[u].addr
        BY <1>3, <2>2, <2>3 DEF IInv, TaskInv
    <2>6. ASSUME NEW u \in Task, task'[u].pc = "eof"
          PROVE  /\ task'[u].sess # None
                 /\ ~Registered(task[u].sess)'
                 /\ NotInserting(task[u].sess)'
        <3>1. CASE u = t
            BY <1>5, <1>6, <1>8, <1>9, <2>6, <3>1 DEF Registered, RegisteredAt
        <3>2. CASE u # t
            BY <1>4, <1>6, <1>7, <2>6, <3>2 DEF IInv, TaskInv
        <3>3. QED
            BY <3>1, <3>2
    <2>7. QED
        BY <2>1, <2>2, <2>3, <2>4, <2>5, <2>6 DEF IInv, TaskInv, Entering
<1>11. ReaperInv'
    BY <1>2, <1>3, <1>6, <1>7 DEF IInv, ReaperInv, ReaperBusy
<1>12. QED
    BY <1>3, <1>10, <1>11

\* Steps that leave the tasks, the counter and the table alone.
LEMMA TasksKept ==
    ASSUME IInv, UNCHANGED <<sessions, next_peer_id, task>>
    PROVE  TableInv' /\ TaskInv'
BY DEF IInv, TableInv, TaskInv, Known, Entering, NotInserting, Registered, RegisteredAt

\* The reaper: between its reading and its cleanup the session it works on
\* can only be in the table under the address that it removes.
LEMMA ReaperKeeps ==
    ASSUME IInv, Reaper
    PROVE  TableInv' /\ TaskInv' /\ ReaperInv'
<1>0. reaper \in ReaperLocals
    BY DEF IInv, TypeOK
<1>1. CASE ReaperTick \/ ReaperDone
    <2>1. /\ UNCHANGED <<sessions, next_peer_id, task>>
          /\ reaper'.pc \in {"sleep", "next"} /\ reaper'.sess = reaper.sess
        BY <1>0, <1>1 DEF ReaperTick, ReaperDone, ReaperLocals, tables, pools
    <2>2. QED
        BY <2>1, TasksKept DEF IInv, ReaperInv, ReaperBusy, Known
<1>2. ASSUME NEW a \in Addr, ReaperGet(a) PROVE TableInv' /\ TaskInv' /\ ReaperInv'
    <2>1. UNCHANGED <<sessions, next_peer_id, task>>
        BY <1>2 DEF ReaperGet, tables, pools
    <2>2. CASE sessions[a] = None
        <3>1. reaper'.pc = "next" /\ reaper'.sess = reaper.sess
            BY <1>0, <1>2, <2>2 DEF ReaperGet, ReaperLocals
        <3>2. QED
            BY <2>1, <3>1, TasksKept DEF IInv, ReaperInv, ReaperBusy, Known
    <2>3. CASE sessions[a] # None
        <3>1. reaper'.pc = "read" /\ reaper'.sess = sessions[a] /\ reaper'.addr = a
            BY <1>0, <1>2, <2>3 DEF ReaperGet, ReaperLocals
        <3>2. Known(reaper.sess)'
            BY <2>1, <3>1 DEF IInv, TableInv, Known
        <3>3. NotInserting(reaper.sess)'
            BY <2>1, <3>1 DEF IInv, TaskInv, NotInserting, Registered, RegisteredAt
        <3>4. \A b \in Addr : RegisteredAt(reaper.sess, b)' => b = a
            BY <2>1, <2>3, <3>1 DEF IInv, TableInv, RegisteredAt
        <3>5. QED
            BY <2>1, <2>3, <3>1, <3>2, <3>3, <3>4, TasksKept DEF ReaperInv, ReaperBusy
    <2>4. QED
        BY <2>2, <2>3
<1>3. ReaperNext(reaper).pc = "next" /\ ReaperNext(reaper).sess = None
    BY <1>0 DEF ReaperNext, ReaperLocals
<1>4. CASE ReaperRead
    <2>1. UNCHANGED <<sessions, next_peer_id, task>> /\ reaper.pc = "read"
        BY <1>4 DEF ReaperRead, tables, pools
    <2>2. \/ reaper'.pc = "next" /\ reaper'.sess = None
          \/ /\ reaper'.pc = "evict" /\ reaper'.sess = reaper.sess
             /\ reaper'.addr = reaper.addr
        BY <1>0, <1>3, <1>4 DEF ReaperRead, ReaperLocals
    <2>3. QED
        BY <2>1, <2>2, TasksKept DEF IInv, ReaperInv, ReaperBusy, Known,
           NotInserting, RegisteredAt
<1>5. CASE EvictSession
    <2>1. /\ \A b \in Addr :
                sessions'[b] = IF b \in {reaper.addr} THEN None ELSE sessions[b]
          /\ UNCHANGED <<next_peer_id, task>>
          /\ reaper.pc = "evict" /\ reaper'.pc = "cleanup"
          /\ reaper'.sess = reaper.sess /\ reaper'.addr = reaper.addr
        BY <1>0, <1>5 DEF EvictSession, Remove, IInv, TypeOK, ReaperLocals, pools
    <2>2. /\ TableInv'
          /\ \A r, b : r # None /\ b \in Addr /\ RegisteredAt(r, b)' =>
                RegisteredAt(r, b) /\ b # reaper.addr
          /\ \A r : Known(r)' <=> Known(r)
        BY <2>1, ShrinkKeeps
    <2>3. \A r : r # None /\ ~Registered(r) => ~Registered(r)'
        BY <2>2 DEF Registered
    <2>4. \A r : NotInserting(r)' <=> NotInserting(r)
        BY <2>1 DEF NotInserting
    <2>5. TaskInv'
        BY <2>1, <2>2, <2>3, <2>4 DEF IInv, TaskInv, Entering
    <2>6. ReaperInv'
        BY <2>1, <2>2, <2>4 DEF IInv, ReaperInv, ReaperBusy, Registered
    <2>7. QED
        BY <2>2, <2>5, <2>6
<1>6. CASE EvictRest
    <2>1. /\ UNCHANGED <<sessions, next_peer_id, task>>
          /\ reaper'.pc = "next" /\ reaper'.sess = None
        BY <1>3, <1>6 DEF EvictRest, pools
    <2>2. QED
        BY <2>1, TasksKept DEF ReaperInv, ReaperBusy, Known
<1>7. QED
    BY <1>1, <1>2, <1>4, <1>5, <1>6 DEF Reaper

\* Every step keeps the invariant.
LEMMA NextIInv == IInv /\ [Next]_vars => IInv'
<1> SUFFICES ASSUME IInv, [Next]_vars PROVE TableInv' /\ TaskInv' /\ ReaperInv'
    BY NextType DEF IInv
<1>1. ASSUME NEW s \in Session, DataPacket(s) \/ GoIdle(s)
      PROVE  UNCHANGED <<sessions, next_peer_id, task, reaper>>
    BY <1>1 DEF DataPacket, GoIdle, tables, pools
<1>2. CASE UNCHANGED <<sessions, next_peer_id, task, reaper>>
    BY <1>2, TasksKept DEF IInv, ReaperInv, ReaperBusy, Known, NotInserting,
       Registered, RegisteredAt
<1>3. CASE UNCHANGED vars
    BY <1>2, <1>3 DEF vars, tables, pools
<1>4. ASSUME NEW t \in Task,
             \/ \E a \in Addr : LookUp(t, a)
             \/ SpawnDataWorker(t) \/ Accept(t) \/ StreamCleanup(t)
             \/ Touch(t) \/ FinalizeKeys(t) \/ KeyMethod2(t)
             \/ PushStatic(t) \/ PushPool(t) \/ AddRoutes(t) \/ Exit(t)
      PROVE  TableInv' /\ TaskInv' /\ ReaperInv'
    BY <1>4, HandlerOrdinary, OtherOrdinary, OrdinaryKeeps DEF IInv
<1>5. QED
    BY <1>1, <1>2, <1>3, <1>4, HardResetKeeps, InsertSessionKeeps, StreamEofKeeps,
       ReaperKeeps DEF Next, HandlePacket

\* The invariant holds in every state.
LEMMA IInvariant == Spec => []IInv
BY InitIInv, NextIInv, PTL DEF Spec

\* The tables, the Session structs and the locals of every task keep their
\* types: above all the pool's cursors stop at the end of the pools and what
\* the reaper reads is a session.
THEOREM TypeCorrect == Spec => []TypeOK
<1>1. IInv => TypeOK
    BY DEF IInv
<1>2. QED
    BY <1>1, IInvariant, PTL

-----------------------------------------------------------------------------
(***************************************************************************)
(* Inbound data reaches the worker.                                        *)
(***************************************************************************)
LEMMA PeerIdUnwrapped ==
    ASSUME NoWrap, NEW s \in Session
    PROVE  PeerIdOf(s) = s /\ s \in PeerId
BY TableAssumption DEF NoWrap, PeerIdOf, PeerId, Session

\* A step that touches neither table of peer ids, inserts no session and does
\* not end the creation of one.
LEMMA WorkersKept ==
    ASSUME RegisteredHasWorker, UNCHANGED <<peers, data_routes>>,
           \A a \in Addr : sessions'[a] \in {None, sessions[a]},
           \A t \in Task : task[t].pc = "worker" => task'[t] = task[t]
    PROVE  RegisteredHasWorker'
<1> SUFFICES ASSUME NEW a \in Addr, NEW s \in Session, RegisteredAt(s, a)',
                    \A t \in Task : task'[t].sess = s => task'[t].pc # "worker"
             PROVE  RouteData(s)' /\ peers'[PeerIdOf(s)] = a
    BY DEF RegisteredHasWorker, PeerIdOf
<1>1. RegisteredAt(s, a)
    BY TableAssumption DEF RegisteredAt, Session
<1>2. \A t \in Task : task[t].sess = s => task[t].pc # "worker"
    OBVIOUS
<1>3. QED
    BY <1>1, <1>2 DEF RegisteredHasWorker, RouteData, PeerIdOf

\* Taking the entries of a session that is not in the table takes them from
\* no session that is.
LEMMA RemoveKeepsWorkers ==
    ASSUME NoWrap, TypeOK, RegisteredHasWorker, NEW r \in Session, ~Registered(r),
           sessions' = sessions,
           \A t \in Task : task[t].pc = "worker" => task'[t] = task[t],
           peers' = Remove(peers, {PeerIdOf(r)}),
           data_routes' = Remove(data_routes, {PeerIdOf(r)})
    PROVE  RegisteredHasWorker'
<1> SUFFICES ASSUME NEW a \in Addr, NEW s \in Session, RegisteredAt(s, a)',
                    \A t \in Task : task'[t].sess = s => task'[t].pc # "worker"
             PROVE  data_routes'[PeerIdOf(s)] = s /\ peers'[PeerIdOf(s)] = a
    BY DEF RegisteredHasWorker, RouteData, PeerIdOf
<1>1. RegisteredAt(s, a) /\ s # r
    BY DEF RegisteredAt, Registered
<1>2. PeerIdOf(s) \in PeerId /\ PeerIdOf(s) # PeerIdOf(r)
    BY <1>1, PeerIdUnwrapped
<1>3. data_routes[PeerIdOf(s)] = s /\ peers[PeerIdOf(s)] = a
    BY <1>1 DEF RegisteredHasWorker, RouteData
<1>4. QED
    BY <1>2, <1>3 DEF Remove, TypeOK

\* A session gets its worker under the address it is in the table with.
LEMMA SpawnGivesWorker ==
    ASSUME NoWrap, IInv, RegisteredHasWorker, NEW t \in Task, SpawnDataWorker(t)
    PROVE  RegisteredHasWorker'
<1> DEFINE r == task[t].sess
<1>1. r \in Session /\ task[t].pc = "worker"
    BY DEF SpawnDataWorker, IInv, TypeOK, TaskLocals, TaskInv, Entering
<1>2. PeerIdOf(r) = r /\ r \in PeerId
    BY <1>1, PeerIdUnwrapped
<1> SUFFICES ASSUME NEW a \in Addr, NEW s \in Session, RegisteredAt(s, a)',
                    \A u \in Task : task'[u].sess = s => task'[u].pc # "worker"
             PROVE  data_routes'[PeerIdOf(s)] = s /\ peers'[PeerIdOf(s)] = a
    BY DEF RegisteredHasWorker, RouteData, PeerIdOf
<1>3. RegisteredAt(s, a)
    BY DEF SpawnDataWorker, RegisteredAt
<1>4. PeerIdOf(s) = s /\ s \in PeerId
    BY PeerIdUnwrapped
<1>5. CASE s = r
    <2>1. a = task[t].addr
        BY <1>1, <1>3, <1>5 DEF IInv, TaskInv
    <2>2. QED
        BY <1>2, <1>5, <2>1 DEF SpawnDataWorker, IInv, TypeOK
<1>6. CASE s # r
    <2>1. \A u \in Task \ {t} : task'[u] = task[u]
        BY DEF SpawnDataWorker, IInv, TypeOK
    <2>2. \A u \in Task : task[u].sess = s => task[u].pc # "worker"
        BY <1>6, <2>1
    <2>3. data_routes[PeerIdOf(s)] = s /\ peers[PeerIdOf(s)] = a
        BY <1>3, <2>2 DEF RegisteredHasWorker, RouteData
    <2>4. QED
        BY <1>2, <1>4, <1>6, <2>3 DEF SpawnDataWorker, IInv, TypeOK
<1>7. QED
    BY <1>5, <1>6

\* A session just inserted is the one its task is at work on.
LEMMA InsertKeepsWorkers ==
    ASSUME IInv, RegisteredHasWorker, NEW t \in Task, InsertSession(t)
    PROVE  RegisteredHasWorker'
<1> SUFFICES ASSUME NEW a \in Addr, NEW s \in Session, RegisteredAt(s, a)',
                    \A u \in Task : task'[u].sess = s => task'[u].pc # "worker"
             PROVE  data_routes'[PeerIdOf(s)] = s /\ peers'[PeerIdOf(s)] = a
    BY DEF RegisteredHasWorker, RouteData, PeerIdOf
<1>1. /\ task'[t].pc = "worker" /\ task'[t].sess = task[t].sess
      /\ \A u \in Task \ {t} : task'[u] = task[u]
      /\ task[t].pc = "insert"
    BY DEF InsertSession, IInv, TypeOK, TaskLocals
<1>2. s # task[t].sess
    BY <1>1
<1>3. RegisteredAt(s, a)
    BY <1>2 DEF InsertSession, RegisteredAt, IInv, TypeOK
<1>4. \A u \in Task : task[u].sess = s => task[u].pc # "worker"
    BY <1>1
<1>5. QED
    BY <1>3, <1>4 DEF RegisteredHasWorker, RouteData, InsertSession

\* Every step leaves the sessions in the table with their workers.
LEMMA NextWorkers ==
    ASSUME NoWrap, IInv, RegisteredHasWorker, [Next]_vars
    PROVE  RegisteredHasWorker'
<1>1. ASSUME NEW t \in Task, NEW a \in Addr, HardReset(t, a) \/ LookUp(t, a)
      PROVE  RegisteredHasWorker'
    <2>1. \A u \in Task : task[u].pc = "worker" => task'[u] = task[u]
        BY <1>1 DEF HardReset, LookUp, IInv, TypeOK
    <2>2. QED
        BY <1>1, <2>1, WorkersKept DEF HardReset, LookUp, tables
<1>2. ASSUME NEW t \in Task,
             \/ Touch(t) \/ FinalizeKeys(t) \/ KeyMethod2(t)
             \/ PushStatic(t) \/ PushPool(t) \/ AddRoutes(t) \/ Exit(t)
      PROVE  RegisteredHasWorker'
    <2>1. Ordinary(t) /\ task[t].pc # "worker" /\ UNCHANGED <<peers, data_routes>>
        BY <1>2, HandlerOrdinary DEF IInv
    <2>2. QED
        BY <2>1, WorkersKept DEF Ordinary
<1>3. ASSUME NEW t \in Task, Accept(t) \/ StreamEof(t) PROVE RegisteredHasWorker'
    <2>1. \A u \in Task : task[u].pc = "worker" => task'[u] = task[u]
        BY <1>3 DEF Accept, StreamEof, IInv, TypeOK
    <2>2. \A a \in Addr : sessions'[a] \in {None, sessions[a]}
        BY <1>3 DEF Accept, StreamEof, IInv, TypeOK, tables
    <2>3. QED
        BY <1>3, <2>1, <2>2, WorkersKept DEF Accept, StreamEof, tables
<1>4. ASSUME NEW t \in Task, StreamCleanup(t) PROVE RegisteredHasWorker'
    <2>1. task[t].sess \in Session /\ ~Registered(task[t].sess)
        BY <1>4 DEF StreamCleanup, IInv, TaskInv, TypeOK, TaskLocals
    <2>2. \A u \in Task : task[u].pc = "worker" => task'[u] = task[u]
        BY <1>4 DEF StreamCleanup, IInv, TypeOK
    <2>3. QED
        BY <1>4, <2>1, <2>2, RemoveKeepsWorkers DEF StreamCleanup, IInv
<1>5. CASE Reaper
    <2>1. CASE ReaperTick \/ (\E a \in Addr : ReaperGet(a)) \/ ReaperRead \/ ReaperDone
        BY <2>1, WorkersKept DEF ReaperTick, ReaperGet, ReaperRead, ReaperDone, tables
    <2>2. CASE EvictSession
        <3>1. \A a \in Addr : sessions'[a] \in {None, sessions[a]}
            BY <2>2 DEF EvictSession, Remove, IInv, TypeOK
        <3>2. QED
            BY <2>2, <3>1, WorkersKept DEF EvictSession
    <2>3. CASE EvictRest
        <3>1. reaper.sess \in Session /\ ~Registered(reaper.sess)
            BY <2>3 DEF EvictRest, IInv, ReaperInv, ReaperBusy, TypeOK, ReaperLocals
        <3>2. QED
            BY <2>3, <3>1, RemoveKeepsWorkers DEF EvictRest, IInv
    <2>4. QED
        BY <1>5, <2>1, <2>2, <2>3 DEF Reaper
<1>6. ASSUME NEW s \in Session, DataPacket(s) \/ GoIdle(s) PROVE RegisteredHasWorker'
    BY <1>6, WorkersKept DEF DataPacket, GoIdle, tables
<1>7. CASE UNCHANGED vars
    BY <1>7, WorkersKept DEF vars, tables
<1>8. QED
    BY <1>1, <1>2, <1>3, <1>4, <1>5, <1>6, <1>7, SpawnGivesWorker, InsertKeepsWorkers
       DEF Next, HandlePacket

\* RegisteredHasWorker for every number of peers, streams and sessions, as
\* long as the 24-bit peer ids last: whatever handle_control_packet, the end
\* of streams and the reaper do concurrently, route_data finds the worker of
\* a session in the table, and peers its address.
THEOREM WorkerReachable == NoWrap => (Spec => []RegisteredHasWorker)
<1> SUFFICES ASSUME NoWrap PROVE Spec => []RegisteredHasWorker
    OBVIOUS
<1>1. Init => RegisteredHasWorker
    BY TableAssumption DEF Init, RegisteredHasWorker, RegisteredAt, Session
<1>2. IInv /\ RegisteredHasWorker /\ [Next]_vars => RegisteredHasWorker'
    BY NextWorkers
<1>3. QED
    BY <1>1, <1>2, IInvariant, PTL DEF Spec
=============================================================================
