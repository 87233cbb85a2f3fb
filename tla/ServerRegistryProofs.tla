------------------------- MODULE ServerRegistryProofs -------------------------
(***************************************************************************)
(* Proofs about the server's registry, for every number of clients, of     *)
(* addresses, of web-API handlers and of acknowledgements in flight.       *)
(***************************************************************************)
EXTENDS ServerRegistry, TLAPS

------------------------------------------------------------------------------
(* Maps.                                                                   *)

(* A partial function is a function on its own domain.                     *)
LEMMA PartialFunDomain ==
  ASSUME NEW S, NEW T, NEW m
  PROVE  m \in PartialFun(S, T) <=> DOMAIN m \subseteq S /\ m \in [DOMAIN m -> T]
  BY DEF PartialFun

(* m[k] = v adds one entry and keeps the map's type.                       *)
LEMMA PutType ==
  ASSUME NEW S, NEW T, NEW m \in PartialFun(S, T), NEW k \in S, NEW v \in T
  PROVE  /\ Put(m, k, v) \in PartialFun(S, T)
         /\ DOMAIN Put(m, k, v) = DOMAIN m \cup {k}
         /\ \A x \in DOMAIN m \cup {k} : Put(m, k, v)[x] = IF x = k THEN v ELSE m[x]
  BY PartialFunDomain DEF Put

(* delete(m, k) removes one entry and keeps the map's type.                *)
LEMMA DeleteType ==
  ASSUME NEW S, NEW T, NEW m \in PartialFun(S, T), NEW k
  PROVE  /\ Delete(m, k) \in PartialFun(S, T)
         /\ DOMAIN Delete(m, k) = DOMAIN m \ {k}
         /\ \A x \in DOMAIN m \ {k} : Delete(m, k)[x] = m[x]
  BY PartialFunDomain DEF Delete

(* The map with no entries has every type.                                 *)
LEMMA EmptyType ==
  ASSUME NEW S, NEW T
  PROVE  [x \in {} |-> NoIP] \in PartialFun(S, T)
  BY PartialFunDomain

------------------------------------------------------------------------------
(* Type correctness.                                                       *)

(* What allocateIP may return is an address.                               *)
LEMMA OfferType ==
  ASSUME TypeOK, NEW c \in Client
  PROVE  Offer(c) \subseteq IP
  BY PartialFunDomain DEF TypeOK, Offer, Lowest, Unused

(* An acknowledgement that is sent is in flight, or lost at once.          *)
LEMMA SendAckType ==
  ASSUME TypeOK, NEW c \in Client, NEW a \in AnyIP, NEW s \in {"ok", "conflict"}, SendAck(c, a, s)
  PROVE  acks' \subseteq Ack /\ acks' \subseteq acks \cup {[client |-> c, ip |-> a, status |-> s]}
  BY DEF TypeOK, SendAck, Ack

LEMMA NoLocalType == NoLocal \in Local
  BY RegistryAssumption DEF NoLocal, Local, AnyIP

LEMMA ThreadType == UDP \in Thread /\ Cleaner \in Thread /\ Admin \subseteq Thread
  BY DEF Thread

(* A claim is only pooled, and a route only moved, to a real address.      *)
HasAddress == \A t \in Thread : pc[t] \in {"persist", "update2", "update3"} => loc[t].ip # NoIP

TypeInv == TypeOK /\ HasAddress

LEMMA HandlerType == \A h \in Admin : h \in Thread \ {UDP, Cleaner}
  BY RegistryAssumption DEF Thread

LEMMA InitTypeInv == Init => TypeInv
  BY EmptyType, NoLocalType DEF Init, TypeInv, HasAddress, TypeOK, AnyIP, Step, Thread

LEMMA NextTypeInv == TypeInv /\ [Next]_vars => TypeInv'
<1> SUFFICES ASSUME TypeInv, [Next]_vars PROVE TypeInv'
  OBVIOUS
<1> TypeOK
  BY DEF TypeInv
<1> USE NoLocalType, ThreadType
<1>1. ASSUME NEW c \in Client, HeartbeatConflict(c) PROVE TypeInv'
  <2>1. sessions[c] \in AnyIP
    BY <1>1, PartialFunDomain DEF HeartbeatConflict, TypeOK
  <2>2. acks' \subseteq Ack
    BY <1>1, <2>1, SendAckType DEF HeartbeatConflict
  <2> QED BY <1>1, <2>2 DEF HeartbeatConflict, TypeInv, HasAddress, TypeOK, server, threads
<1>2. ASSUME NEW c \in Client, HeartbeatKnown(c) PROVE TypeInv'
  <2>1. sessions[c] \in AnyIP
    BY <1>2, PartialFunDomain DEF HeartbeatKnown, TypeOK
  <2>2. acks' \subseteq Ack
    BY <1>2, <2>1, SendAckType DEF HeartbeatKnown
  <2> QED BY <1>2, <2>2 DEF HeartbeatKnown, TypeInv, HasAddress, TypeOK, server, threads
<1>3. ASSUME NEW c \in Client, HeartbeatNew(c) PROVE TypeInv'
  BY <1>3 DEF HeartbeatNew, Goto, TypeInv, HasAddress, TypeOK, Local, AnyIP, Step, server, clients
<1>4. ASSUME NEW c \in Client, HandleData(c) PROVE TypeInv'
  BY <1>4 DEF HandleData, TypeInv, HasAddress, TypeOK, threads, clients
<1>5. CASE AllocateIP
  <2> DEFINE c == loc[UDP].client
  <2>1. c \in Client
    BY DEF TypeOK, Local
  <2>2. CASE UNCHANGED <<loc, ipPool>>
    BY <1>5, <2>2 DEF AllocateIP, Goto, TypeInv, HasAddress, TypeOK, Step, clients
  <2>3. ASSUME NEW a \in Offer(c), loc' = [loc EXCEPT ![UDP].ip = a], ipPool' = Put(ipPool, c, a)
        PROVE  TypeInv'
    <3>1. a \in IP
      BY <2>1, OfferType
    <3>2. ipPool' \in PartialFun(Client, IP)
      BY <2>1, <2>3, <3>1, PutType DEF TypeOK
    <3>3. loc' \in [Thread -> Local]
      BY <2>3, <3>1 DEF TypeOK, Local, AnyIP
    <3> QED BY <1>5, <3>2, <3>3 DEF AllocateIP, Goto, TypeInv, HasAddress, TypeOK, Step, clients
  <2> QED BY <1>5, <2>2, <2>3 DEF AllocateIP
<1>6. CASE Register
  <2> DEFINE c == loc[UDP].client  a == loc[UDP].ip
  <2>1. c \in Client /\ a \in AnyIP
    BY DEF TypeOK, Local
  <2>2. sessions' \in PartialFun(Client, AnyIP)
    <3>1. sessions' = Put(sessions, c, a)
      BY <1>6 DEF Register
    <3>2. sessions \in PartialFun(Client, AnyIP)
      BY DEF TypeOK
    <3> HIDE DEF c, a
    <3> QED BY <2>1, <3>1, <3>2, PutType
  <2>3. CASE a = NoIP
    <3>1. acks' \subseteq Ack
      BY <1>6, <2>1, <2>3, SendAckType DEF Register
    <3> QED BY <1>6, <2>2, <2>3, <3>1 DEF Register, Return, Goto, TypeInv, HasAddress, TypeOK, Step
  <2>4. CASE a # NoIP
    <3>1. a \in IP
      BY <2>1, <2>4 DEF AnyIP
    <3>2. routeTable' = Put(routeTable, a, c)
      BY <1>6, <2>4 DEF Register
    <3> HIDE DEF c, a
    <3>3. routeTable' \in PartialFun(IP, Client)
      BY <2>1, <3>1, <3>2, PutType DEF TypeOK
    <3> QED BY <1>6, <2>2, <2>4, <3>3 DEF a, Register, Goto, TypeInv, HasAddress, TypeOK, Step
  <2> QED BY <2>3, <2>4
<1>7. CASE PersistClaim
  <2> DEFINE c == loc[UDP].client  a == loc[UDP].ip
  <2>1. c \in Client /\ a \in IP
    BY <1>7 DEF PersistClaim, TypeInv, HasAddress, TypeOK, Local, AnyIP
  <2>2. acks' \subseteq Ack
    BY <1>7, <2>1, SendAckType DEF PersistClaim, AnyIP
  <2>3. ipPool' = ipPool \/ ipPool' = Put(ipPool, c, a)
    BY <1>7 DEF PersistClaim
  <2> HIDE DEF c, a
  <2>4. ipPool' \in PartialFun(Client, IP)
    <3>1. Put(ipPool, c, a) \in PartialFun(Client, IP)
      BY <2>1, PutType DEF TypeOK
    <3> QED BY <2>3, <3>1 DEF TypeOK
  <2> QED BY <1>7, <2>2, <2>4 DEF PersistClaim, Return, Goto, TypeInv, HasAddress, TypeOK, Step
<1>8. ASSUME NEW E \in SUBSET DOMAIN sessions, ExpireSessions(E) PROVE TypeInv'
  <2>1. sessions' \in PartialFun(Client, AnyIP)
    BY <1>8, PartialFunDomain DEF ExpireSessions, TypeOK
  <2>2. expired' \subseteq [client : Client, ip : AnyIP]
    BY <1>8, PartialFunDomain DEF ExpireSessions, TypeOK
  <2> QED BY <1>8, <2>1, <2>2 DEF ExpireSessions, Goto, TypeInv, HasAddress, TypeOK, Step, clients, UDP, Cleaner
<1>9. ASSUME NEW sr \in expired, CleanupRoute(sr) PROVE TypeInv'
  <2>1. routeTable' \in PartialFun(IP, Client)
    BY <1>9, DeleteType DEF CleanupRoute, TypeOK
  <2>2. loc' \in [Thread -> Local]
    BY <1>9 DEF CleanupRoute, TypeOK, Local, AnyIP
  <2> QED BY <1>9, <2>1, <2>2 DEF CleanupRoute, Goto, TypeInv, HasAddress, TypeOK, Step, clients, UDP, Cleaner
<1>10. CASE CleanupDedup
  BY <1>10 DEF CleanupDedup, Goto, TypeInv, HasAddress, TypeOK, Step, clients, UDP, Cleaner
<1>11. ASSUME NEW h \in Admin, Handler(h) PROVE TypeInv'
  <2> h \in Thread /\ h # UDP
    BY HandlerType
  <2> loc[h].client \in Client /\ loc[h].ip \in AnyIP
    BY DEF TypeOK, Local
  <2>1. ASSUME NEW c \in Client, NEW a \in IP, UpdatePool(h, c, a) PROVE TypeInv'
    <3>1. ipPool' \in PartialFun(Client, IP)
      BY <2>1, PutType DEF UpdatePool, TypeOK
    <3>2. ipPool[c] \in AnyIP
      BY <2>1, PartialFunDomain DEF UpdatePool, TypeOK, AnyIP
    <3>3. a \in AnyIP /\ a # NoIP
      BY RegistryAssumption DEF IP, AnyIP, NoIP
    <3>4. loc' \in [Thread -> Local] /\ loc' = [loc EXCEPT ![h] = [client |-> c, ip |-> a, old |-> ipPool[c]]]
      BY <2>1, <3>2, <3>3 DEF UpdatePool, TypeOK, Local
    <3> QED BY <2>1, <3>1, <3>3, <3>4 DEF UpdatePool, Goto, TypeInv, HasAddress, TypeOK, Step, clients
  <2>2. CASE UpdateRoute(h)
    <3> DEFINE m == Delete(routeTable, loc[h].old)  c == loc[h].client  a == loc[h].ip
    <3>1. m \in PartialFun(IP, Client)
      BY DeleteType DEF TypeOK
    <3>2. c \in Client /\ a \in IP
      BY <2>2 DEF UpdateRoute, TypeInv, HasAddress, TypeOK, Local, AnyIP
    <3>3. routeTable' = Put(m, a, c)
      BY <2>2 DEF UpdateRoute
    <3> HIDE DEF m, a, c
    <3>4. routeTable' \in PartialFun(IP, Client)
      BY <3>1, <3>2, <3>3, PutType
    <3> QED BY <2>2, <3>4 DEF UpdateRoute, Goto, TypeInv, HasAddress, TypeOK, Step, clients
  <2>3. CASE UpdateSession(h)
    <3> DEFINE c == loc[h].client  a == loc[h].ip
    <3>1. sessions' \in PartialFun(Client, AnyIP)
      <4>1. sessions' = sessions \/ sessions' = Put(sessions, c, a)
        BY <2>3 DEF UpdateSession
      <4>2. c \in Client /\ a \in AnyIP
        OBVIOUS
      <4> HIDE DEF c, a
      <4>3. Put(sessions, c, a) \in PartialFun(Client, AnyIP)
        BY <4>2, PutType DEF TypeOK
      <4> QED BY <4>1, <4>3 DEF TypeOK
    <3>2. acks' \subseteq Ack
      BY <2>3, SendAckType DEF UpdateSession, TypeOK
    <3> QED BY <2>3, <3>1, <3>2 DEF UpdateSession, Return, Goto, TypeInv, HasAddress, TypeOK, Step
  <2>4. ASSUME NEW c \in Client, DeletePool(h, c) PROVE TypeInv'
    <3>1. ipPool' \in PartialFun(Client, IP)
      BY <2>4, DeleteType DEF DeletePool, TypeOK
    <3>2. ipPool[c] \in AnyIP /\ NoIP \in AnyIP
      BY <2>4, PartialFunDomain DEF DeletePool, TypeOK, AnyIP
    <3>3. loc' \in [Thread -> Local] /\ loc' = [loc EXCEPT ![h] = [client |-> c, ip |-> NoIP, old |-> ipPool[c]]]
      BY <2>4, <3>2 DEF DeletePool, TypeOK, Local
    <3> QED BY <2>4, <3>1, <3>3 DEF DeletePool, Goto, TypeInv, HasAddress, TypeOK, Step, clients
  <2>5. CASE DeleteRoute(h)
    BY <2>5, DeleteType DEF DeleteRoute, Goto, TypeInv, HasAddress, TypeOK, Step, clients
  <2>6. CASE DeleteSession(h)
    BY <2>6, DeleteType DEF DeleteSession, Return, Goto, TypeInv, HasAddress, TypeOK, Step, clients
  <2>7. ASSUME NEW c \in Client, RemoveRoute(h, c) PROVE TypeInv'
    <3>1. routeTable' \in PartialFun(IP, Client)
      BY <2>7, DeleteType DEF RemoveRoute, TypeOK
    <3>2. loc' \in [Thread -> Local] /\ loc' = [loc EXCEPT ![h] = [client |-> c, ip |-> NoIP, old |-> NoIP]]
      BY <2>7 DEF RemoveRoute, TypeOK, Local, AnyIP
    <3> QED BY <2>7, <3>1, <3>2 DEF RemoveRoute, Goto, TypeInv, HasAddress, TypeOK, Step, clients
  <2>8. CASE RemoveSession(h)
    BY <2>8, DeleteType DEF RemoveSession, Return, Goto, TypeInv, HasAddress, TypeOK, Step, clients
  <2> QED BY <1>11, <2>1, <2>2, <2>3, <2>4, <2>5, <2>6, <2>7, <2>8 DEF Handler
<1>12. ASSUME NEW m \in acks, ReceiveAck(m) \/ LoseAck(m) PROVE TypeInv'
  BY <1>12 DEF ReceiveAck, LoseAck, TypeInv, HasAddress, TypeOK, Ack, server, threads
<1>13. ASSUME NEW c \in Client, ClientRestart(c) PROVE TypeInv'
  BY <1>13 DEF ClientRestart, TypeInv, HasAddress, TypeOK, AnyIP, server, threads
<1>14. CASE ServerRestart
  <2>1. ipPool' \in PartialFun(Client, IP)
    BY <1>14, EmptyType DEF ServerRestart, TypeInv, TypeOK
  <2> QED BY <1>14, <2>1, EmptyType DEF ServerRestart, TypeInv, HasAddress, TypeOK, Step, clients
<1>15. CASE UNCHANGED vars
  BY <1>15 DEF vars, server, threads, clients, TypeInv, HasAddress, TypeOK
<1> QED BY <1>1, <1>2, <1>3, <1>4, <1>5, <1>6, <1>7, <1>8, <1>9, <1>10, <1>11, <1>12, <1>13, <1>14, <1>15
        DEF Next, ReceiveLoop, Cleanup, Environment

(* Every table, thread and message has its type, always.                   *)
THEOREM TypeCorrect == Spec => []TypeOK
<1>1. Spec => []TypeInv
  BY InitTypeInv, NextTypeInv, PTL DEF Spec
<1> QED BY <1>1, PTL DEF TypeInv
------------------------------------------------------------------------------
(* The server's own address.                                               *)

(* Neither the tables nor anything on its way to them hold it.             *)
NowhereServer ==
  /\ ServerAddressReserved
  /\ \A c \in Client : claim[c] # ServerHost
  /\ \A m \in acks : m.ip # ServerHost
  /\ \A t \in Thread \ {Cleaner} : loc[t].ip # ServerHost

(* The address offered to a client is not the server's.                    *)
LEMMA OfferNotServer ==
  ASSUME TypeOK, NowhereServer, NEW c \in Client
  PROVE  ServerHost \notin Offer(c)
  BY DEF NowhereServer, ServerAddressReserved, Offer, Lowest, Unused

LEMMA NextNowhereServer == TypeInv /\ NowhereServer /\ [Next]_vars => NowhereServer'
<1> SUFFICES ASSUME TypeInv, NowhereServer, [Next]_vars PROVE NowhereServer'
  OBVIOUS
<1> TypeOK
  BY DEF TypeInv
<1> ServerHost # NoIP
  BY RegistryAssumption DEF IP, NoIP
<1> USE ThreadType, HandlerType DEF NowhereServer, ServerAddressReserved
<1>1. ASSUME NEW c \in Client, HeartbeatConflict(c) \/ HeartbeatKnown(c) PROVE NowhereServer'
  <2>1. sessions[c] # ServerHost /\ UNCHANGED <<server, threads, claim>>
    BY <1>1 DEF HeartbeatConflict, HeartbeatKnown
  <2>2. \A m \in acks' : m.ip # ServerHost
    BY <1>1, <2>1 DEF HeartbeatConflict, HeartbeatKnown, SendAck
  <2> QED BY <2>1, <2>2 DEF server, threads
<1>2. ASSUME NEW c \in Client, HeartbeatNew(c) PROVE NowhereServer'
  BY <1>2 DEF HeartbeatNew, TypeOK, server, clients
<1>3. ASSUME NEW c \in Client, HandleData(c) PROVE NowhereServer'
  BY <1>3 DEF HandleData, threads, clients
<1>4. CASE AllocateIP
  <2> DEFINE c == loc[UDP].client
  <2>1. c \in Client
    BY DEF TypeOK, Local
  <2>2. CASE UNCHANGED <<loc, ipPool>>
    BY <1>4, <2>2 DEF AllocateIP, clients
  <2>3. ASSUME NEW a \in Offer(c), loc' = [loc EXCEPT ![UDP].ip = a], ipPool' = Put(ipPool, c, a)
        PROVE  NowhereServer'
    <3>1. a # ServerHost
      BY <2>1, OfferNotServer
    <3>2. \A t \in Thread \ {Cleaner} : loc'[t].ip # ServerHost
      BY <2>3, <3>1 DEF TypeOK, Local
    <3>3. \A d \in DOMAIN ipPool' : ipPool'[d] # ServerHost
      BY <2>3, <3>1 DEF Put
    <3> QED BY <1>4, <3>2, <3>3 DEF AllocateIP, clients
  <2> QED BY <1>4, <2>2, <2>3 DEF AllocateIP
<1>5. CASE Register
  <2> DEFINE c == loc[UDP].client  a == loc[UDP].ip
  <2>1. a # ServerHost /\ sessions' = Put(sessions, c, a) /\ UNCHANGED <<ipPool, claim>>
    BY <1>5, ThreadType DEF Register, UDP, Cleaner
  <2>2. \A d \in DOMAIN sessions' : sessions'[d] # ServerHost
    BY <2>1 DEF Put
  <2>3. ServerHost \notin DOMAIN routeTable'
    BY <1>5, <2>1 DEF Register, Put
  <2>4. \A m \in acks' : m.ip # ServerHost
    BY <1>5 DEF Register, SendAck
  <2>5. \A t \in Thread \ {Cleaner} : loc'[t].ip # ServerHost
    BY <1>5 DEF Register, Return, NoLocal, TypeOK
  <2> QED BY <2>1, <2>2, <2>3, <2>4, <2>5
<1>6. CASE PersistClaim
  <2> DEFINE c == loc[UDP].client  a == loc[UDP].ip
  <2>1. a # ServerHost /\ UNCHANGED <<sessions, routeTable, claim>>
    BY <1>6, ThreadType DEF PersistClaim, UDP, Cleaner
  <2>2. \A d \in DOMAIN ipPool' : ipPool'[d] # ServerHost
    BY <1>6, <2>1 DEF PersistClaim, Put
  <2>3. \A m \in acks' : m.ip # ServerHost
    BY <1>6, <2>1 DEF PersistClaim, SendAck
  <2>4. \A t \in Thread \ {Cleaner} : loc'[t].ip # ServerHost
    BY <1>6 DEF PersistClaim, Return, NoLocal, TypeOK
  <2> QED BY <2>1, <2>2, <2>3, <2>4
<1>7. ASSUME NEW E \in SUBSET DOMAIN sessions, ExpireSessions(E) PROVE NowhereServer'
  BY <1>7 DEF ExpireSessions, clients
<1>8. ASSUME NEW sr \in expired, CleanupRoute(sr) PROVE NowhereServer'
  BY <1>8 DEF CleanupRoute, Delete, TypeOK, clients
<1>9. CASE CleanupDedup
  BY <1>9 DEF CleanupDedup, TypeOK, clients
<1>10. ASSUME NEW h \in Admin, Handler(h) PROVE NowhereServer'
  <2> h \in Thread \ {Cleaner} /\ loc[h].ip # ServerHost
    OBVIOUS
  <2>1. ASSUME NEW c \in Client, NEW a \in IP, UpdatePool(h, c, a) PROVE NowhereServer'
    <3>1. \A d \in DOMAIN ipPool' : ipPool'[d] # ServerHost
      BY <2>1 DEF UpdatePool, Put
    <3>2. \A t \in Thread \ {Cleaner} : loc'[t].ip # ServerHost
      BY <2>1 DEF UpdatePool, TypeOK
    <3> QED BY <2>1, <3>1, <3>2 DEF UpdatePool, clients
  <2>2. CASE UpdateRoute(h)
    BY <2>2 DEF UpdateRoute, Put, Delete, clients
  <2>3. CASE UpdateSession(h)
    <3>1. \A d \in DOMAIN sessions' : sessions'[d] # ServerHost
      BY <2>3 DEF UpdateSession, Put
    <3>2. \A m \in acks' : m.ip # ServerHost
      BY <2>3 DEF UpdateSession, SendAck
    <3>3. \A t \in Thread \ {Cleaner} : loc'[t].ip # ServerHost
      BY <2>3 DEF UpdateSession, Return, NoLocal, TypeOK
    <3> QED BY <2>3, <3>1, <3>2, <3>3 DEF UpdateSession
  <2>4. ASSUME NEW c \in Client, DeletePool(h, c) PROVE NowhereServer'
    BY <2>4 DEF DeletePool, Delete, TypeOK, clients
  <2>5. CASE DeleteRoute(h)
    BY <2>5 DEF DeleteRoute, Delete, clients
  <2>6. CASE DeleteSession(h)
    BY <2>6 DEF DeleteSession, Delete, Return, NoLocal, TypeOK, clients
  <2>7. ASSUME NEW c \in Client, RemoveRoute(h, c) PROVE NowhereServer'
    BY <2>7 DEF RemoveRoute, Delete, TypeOK, clients
  <2>8. CASE RemoveSession(h)
    BY <2>8 DEF RemoveSession, Delete, Return, NoLocal, TypeOK, clients
  <2> QED BY <1>10, <2>1, <2>2, <2>3, <2>4, <2>5, <2>6, <2>7, <2>8 DEF Handler
<1>11. ASSUME NEW m \in acks, ReceiveAck(m) \/ LoseAck(m) PROVE NowhereServer'
  BY <1>11 DEF ReceiveAck, LoseAck, TypeOK, server, threads
<1>12. ASSUME NEW c \in Client, ClientRestart(c) PROVE NowhereServer'
  BY <1>12 DEF ClientRestart, TypeOK, server, threads
<1>13. CASE ServerRestart
  BY <1>13 DEF ServerRestart, NoLocal, clients
<1>14. CASE UNCHANGED vars
  BY <1>14 DEF vars, server, threads, clients
<1> QED BY <1>1, <1>2, <1>3, <1>4, <1>5, <1>6, <1>7, <1>8, <1>9, <1>10, <1>11, <1>12, <1>13, <1>14
        DEF Next, ReceiveLoop, Cleanup, Environment

(* With every operation of the web API, any number of them at a time, and  *)
(* every fault, the server's own address is in nobody's possession.        *)
THEOREM ServerAddressIsReserved == Spec => []ServerAddressReserved
<1>1. Init => NowhereServer
  <2>1. ServerHost # NoIP
    BY RegistryAssumption DEF IP, NoIP
  <2> QED BY <2>1 DEF Init, NowhereServer, ServerAddressReserved, NoLocal
<1>2. Spec => [](TypeInv /\ NowhereServer)
  BY InitTypeInv, NextTypeInv, NextNowhereServer, <1>1, PTL DEF Spec
<1> QED BY <1>2, PTL DEF NowhereServer
------------------------------------------------------------------------------
(* One address, one device.                                                *)

(* As long as no device is deleted, whoever has or is about to get an      *)
(* address is in the pool: only UpdateDeviceIP runs, for pooled devices,   *)
(* and a client brings along only an address it was given.                 *)
HoldersPooled ==
  /\ \A c \in DOMAIN sessions : sessions[c] # NoIP => c \in DOMAIN ipPool
  /\ \A c \in Client : claim[c] # NoIP => c \in DOMAIN ipPool
  /\ \A m \in acks : m.ip # NoIP => m.client \in DOMAIN ipPool
  /\ pc[UDP] # "idle" /\ loc[UDP].ip # NoIP => loc[UDP].client \in DOMAIN ipPool
  /\ \A h \in Admin : /\ pc[h] \in {"idle", "update2", "update3"}
                      /\ pc[h] # "idle" => /\ loc[h].client \in DOMAIN ipPool
                                           /\ "update" \in AdminOps

PoolInv == PoolIsInjective /\ HoldersPooled

(* A step that leaves the pool and the holders' states alone.              *)
LEMMA PoolUnchanged ==
  ASSUME PoolInv, UNCHANGED <<sessions, ipPool, pc, loc, claim, acks>>
  PROVE  PoolInv'
  BY DEF PoolInv, PoolIsInjective, HoldersPooled

LEMMA NextPoolInv ==
  ASSUME AdminOps \subseteq {"update"}, "torn" \notin Faults
  PROVE  TypeInv /\ PoolInv /\ [Next]_vars => PoolInv'
<1> SUFFICES ASSUME TypeInv, PoolInv, [Next]_vars PROVE PoolInv'
  OBVIOUS
<1> TypeOK
  BY DEF TypeInv
<1> USE ThreadType, HandlerType DEF PoolInv, PoolIsInjective, HoldersPooled
<1>1. ASSUME NEW c \in Client, HeartbeatConflict(c) \/ HeartbeatKnown(c) PROVE PoolInv'
  <2>1. UNCHANGED <<server, threads, claim>> /\ c \in DOMAIN sessions
    BY <1>1 DEF HeartbeatConflict, HeartbeatKnown
  <2>2. \A m \in acks' : m.ip # NoIP => m.client \in DOMAIN ipPool
    BY <1>1, <2>1 DEF HeartbeatConflict, HeartbeatKnown, SendAck
  <2> QED BY <2>1, <2>2 DEF server, threads
<1>2. ASSUME NEW c \in Client, HeartbeatNew(c) PROVE PoolInv'
  BY <1>2 DEF HeartbeatNew, Goto, TypeOK, Local, server, clients
<1>3. ASSUME NEW c \in Client, HandleData(c) PROVE PoolInv'
  BY <1>3, PoolUnchanged DEF HandleData, threads, clients
<1>4. CASE AllocateIP
  <2> DEFINE c == loc[UDP].client
  <2>1. c \in Client /\ pc' = [pc EXCEPT ![UDP] = "register"] /\ UNCHANGED <<sessions, claim, acks>>
    BY <1>4 DEF AllocateIP, Goto, TypeOK, Local, clients
  <2>2. CASE UNCHANGED <<loc, ipPool>>
    BY <1>4, <2>1, <2>2 DEF AllocateIP, TypeOK
  <2>3. ASSUME NEW a \in Offer(c), loc' = [loc EXCEPT ![UDP].ip = a], ipPool' = Put(ipPool, c, a)
        PROVE  PoolInv'
    <3>1. \/ c \in DOMAIN ipPool /\ a = ipPool[c]
          \/ c \notin DOMAIN ipPool /\ \A d \in DOMAIN ipPool : ipPool[d] # a
      BY DEF Offer, Lowest, Unused
    <3>2. DOMAIN ipPool' = DOMAIN ipPool \cup {c}
      BY <2>3 DEF Put
    <3>3. PoolIsInjective'
      BY <2>3, <3>1, <3>2 DEF Put
    <3> QED BY <2>1, <2>3, <3>2, <3>3 DEF TypeOK, Local
  <2> QED BY <1>4, <2>2, <2>3 DEF AllocateIP
<1>5. CASE Register
  <2> DEFINE c == loc[UDP].client  a == loc[UDP].ip
  <2>1. a # NoIP => c \in DOMAIN ipPool
    BY <1>5 DEF Register
  <2>2. \A d \in DOMAIN sessions' : sessions'[d] # NoIP => d \in DOMAIN ipPool
    BY <1>5, <2>1 DEF Register, Put
  <2>3. \A m \in acks' : m.ip # NoIP => m.client \in DOMAIN ipPool
    BY <1>5 DEF Register, SendAck
  <2>4. UNCHANGED <<ipPool, claim>>
    BY <1>5 DEF Register
  <2>5. \/ pc' = [pc EXCEPT ![UDP] = "idle"] /\ loc' = [loc EXCEPT ![UDP] = NoLocal]
        \/ pc' = [pc EXCEPT ![UDP] = "persist"] /\ loc' = loc
    BY <1>5 DEF Register, Return, Goto
  <2> QED BY <2>1, <2>2, <2>3, <2>4, <2>5 DEF TypeOK
<1>6. CASE PersistClaim
  <2> DEFINE c == loc[UDP].client  a == loc[UDP].ip
  <2>1. c \in DOMAIN ipPool
    BY <1>6 DEF PersistClaim, TypeInv, HasAddress
  <2>2. UNCHANGED <<sessions, ipPool, claim>>
    BY <1>6, <2>1 DEF PersistClaim
  <2>3. \A m \in acks' : m.ip # NoIP => m.client \in DOMAIN ipPool
    BY <1>6, <2>1 DEF PersistClaim, SendAck
  <2> QED BY <1>6, <2>2, <2>3 DEF PersistClaim, Return, Goto, TypeOK
<1>7. CASE Cleanup
  <2>1. UNCHANGED <<ipPool, claim, acks>>
    BY <1>7 DEF Cleanup, ExpireSessions, CleanupRoute, CleanupDedup, clients
  <2>2. \A c \in DOMAIN sessions' : c \in DOMAIN sessions /\ sessions'[c] = sessions[c]
    <3>1. ASSUME NEW E \in SUBSET DOMAIN sessions, ExpireSessions(E)
          PROVE  \A c \in DOMAIN sessions' : c \in DOMAIN sessions /\ sessions'[c] = sessions[c]
      BY <3>1 DEF ExpireSessions
    <3>2. (\E sr \in expired : CleanupRoute(sr)) \/ CleanupDedup => sessions' = sessions
      BY DEF CleanupRoute, CleanupDedup
    <3> QED BY <1>7, <3>1, <3>2 DEF Cleanup
  <2>3. \A t \in Thread \ {Cleaner} : pc'[t] = pc[t] /\ loc'[t] = loc[t]
    <3>1. ASSUME NEW E, ExpireSessions(E) PROVE \A t \in Thread \ {Cleaner} : pc'[t] = pc[t] /\ loc'[t] = loc[t]
      BY <3>1 DEF ExpireSessions, Goto, TypeOK
    <3>2. ASSUME NEW sr, CleanupRoute(sr) PROVE \A t \in Thread \ {Cleaner} : pc'[t] = pc[t] /\ loc'[t] = loc[t]
      BY <3>2 DEF CleanupRoute, Goto, TypeOK
    <3>3. CASE CleanupDedup
      BY <3>3 DEF CleanupDedup, Goto, TypeOK
    <3> QED BY <1>7, <3>1, <3>2, <3>3 DEF Cleanup
  <2> QED BY <2>1, <2>2, <2>3 DEF UDP, Cleaner
<1>8. ASSUME NEW h \in Admin, Handler(h) PROVE PoolInv'
  <2> pc[h] \in {"idle", "update2", "update3"} /\ "delete" \notin AdminOps /\ "remove" \notin AdminOps
    OBVIOUS
  <2>1. ASSUME NEW c \in Client, NEW a \in IP, UpdatePool(h, c, a) PROVE PoolInv'
    <3>1. DOMAIN ipPool' = DOMAIN ipPool /\ c \in DOMAIN ipPool
      BY <2>1 DEF UpdatePool, Put
    <3>2. PoolIsInjective'
      BY <2>1, <3>1 DEF UpdatePool, Put, Taken
    <3> QED BY <2>1, <3>1, <3>2 DEF UpdatePool, Goto, TypeOK, clients
  <2>2. CASE UpdateRoute(h)
    BY <2>2 DEF UpdateRoute, Goto, TypeOK, clients
  <2>3. CASE UpdateSession(h)
    <3>1. \A d \in DOMAIN sessions' : sessions'[d] # NoIP => d \in DOMAIN ipPool
      BY <2>3 DEF UpdateSession, Put
    <3>2. \A m \in acks' : m.ip # NoIP => m.client \in DOMAIN ipPool
      BY <2>3 DEF UpdateSession, SendAck
    <3> QED BY <2>3, <3>1, <3>2 DEF UpdateSession, Return, Goto, TypeOK
  <2> QED BY <1>8, <2>1, <2>2, <2>3
          DEF Handler, DeletePool, DeleteRoute, DeleteSession, RemoveRoute, RemoveSession
<1>9. ASSUME NEW m \in acks, ReceiveAck(m) \/ LoseAck(m) PROVE PoolInv'
  BY <1>9 DEF ReceiveAck, LoseAck, TypeOK, server, threads
<1>10. ASSUME NEW c \in Client, ClientRestart(c) PROVE PoolInv'
  BY <1>10 DEF ClientRestart, TypeOK, server, threads
<1>11. CASE ServerRestart
  BY <1>11 DEF ServerRestart, clients
<1>12. CASE UNCHANGED vars
  BY <1>12, PoolUnchanged DEF vars, server, threads, clients
<1> QED BY <1>1, <1>2, <1>3, <1>4, <1>5, <1>6, <1>7, <1>8, <1>9, <1>10, <1>11, <1>12
        DEF Next, ReceiveLoop, Environment

LEMMA PoolInvCorrect ==
  ASSUME AdminOps \subseteq {"update"}, "torn" \notin Faults
  PROVE  Spec => [](TypeInv /\ PoolInv)
<1>1. Init => PoolInv
  BY HandlerType DEF Init, PoolInv, PoolIsInjective, HoldersPooled, Thread
<1> QED BY <1>1, InitTypeInv, NextTypeInv, NextPoolInv, PTL DEF Spec

(* As long as no device is deleted, no two devices own one address: any    *)
(* number of concurrent address changes, registrations, expiries,          *)
(* restarts and lost acknowledgements.                                     *)
THEOREM PoolStaysInjective ==
  ASSUME AdminOps \subseteq {"update"}, "torn" \notin Faults
  PROVE  Spec => []PoolIsInjective
  BY PoolInvCorrect, PTL DEF PoolInv

------------------------------------------------------------------------------
(* The registry without the web API.                                       *)

(* a is the address c has in the pool, or no address.                      *)
Pooled(c, a) == a = NoIP \/ (c \in DOMAIN ipPool /\ ipPool[c] = a)

(* The acknowledgements in flight and the registration under way agree     *)
(* with the pool as the tables do.                                         *)
AgreeInv ==
  /\ RegistryAgrees
  /\ \A m \in acks : Pooled(m.client, m.ip)
  /\ pc[UDP] # "idle" => Pooled(loc[UDP].client, loc[UDP].ip)

LEMMA NextAgreeInv ==
  ASSUME AdminOps = {}, "torn" \notin Faults
  PROVE  TypeInv /\ PoolInv /\ AgreeInv /\ [Next]_vars => AgreeInv'
<1> SUFFICES ASSUME TypeInv, PoolInv, AgreeInv, [Next]_vars PROVE AgreeInv'
  OBVIOUS
<1> TypeOK /\ PoolIsInjective'
  BY NextPoolInv DEF TypeInv, PoolInv
<1> USE ThreadType, HandlerType DEF AgreeInv, RegistryAgrees, Follows, Pooled
<1>1. ASSUME NEW c \in Client, HeartbeatConflict(c) \/ HeartbeatKnown(c) PROVE AgreeInv'
  <2>1. UNCHANGED <<server, threads, claim>> /\ c \in DOMAIN sessions
    BY <1>1 DEF HeartbeatConflict, HeartbeatKnown
  <2>2. \A m \in acks' : Pooled(m.client, m.ip)
    BY <1>1, <2>1 DEF HeartbeatConflict, HeartbeatKnown, SendAck
  <2> QED BY <2>1, <2>2 DEF server, threads
<1>2. ASSUME NEW c \in Client, HeartbeatNew(c) PROVE AgreeInv'
  BY <1>2 DEF HeartbeatNew, Goto, TypeOK, Local, server, clients
<1>3. ASSUME NEW c \in Client, HandleData(c) PROVE AgreeInv'
  BY <1>3 DEF HandleData, threads, clients
<1>4. CASE AllocateIP
  <2> DEFINE c == loc[UDP].client
  <2>1. c \in Client /\ pc' = [pc EXCEPT ![UDP] = "register"] /\ UNCHANGED <<sessions, routeTable, claim, acks>>
    BY <1>4 DEF AllocateIP, Goto, TypeOK, Local, clients
  <2>2. CASE UNCHANGED <<loc, ipPool>>
    BY <1>4, <2>1, <2>2 DEF AllocateIP, TypeOK
  <2>3. ASSUME NEW a \in Offer(c), loc' = [loc EXCEPT ![UDP].ip = a], ipPool' = Put(ipPool, c, a)
        PROVE  AgreeInv'
    <3>1. \A d \in DOMAIN ipPool : d \in DOMAIN ipPool' /\ ipPool'[d] = ipPool[d]
      BY <2>3 DEF Offer, Put
    <3>2. c \in DOMAIN ipPool' /\ ipPool'[c] = a
      BY <2>3 DEF Put
    <3>3. loc'[UDP].client = c /\ loc'[UDP].ip = a
      BY <2>3 DEF TypeOK, Local
    <3> QED BY <2>1, <3>1, <3>2, <3>3
  <2> QED BY <1>4, <2>2, <2>3 DEF AllocateIP
<1>5. CASE Register
  <2> DEFINE c == loc[UDP].client  a == loc[UDP].ip
  <2>1. Pooled(c, a)
    BY <1>5 DEF Register
  <2>2. UNCHANGED <<ipPool, claim>>
    BY <1>5 DEF Register
  <2>3. Follows(sessions)'
    BY <1>5, <2>1, <2>2 DEF Register, Put
  <2>4. \A b \in DOMAIN routeTable' : routeTable'[b] \in DOMAIN ipPool /\ ipPool[routeTable'[b]] = b
    BY <1>5, <2>1 DEF Register, Put
  <2>5. \A m \in acks' : Pooled(m.client, m.ip)
    BY <1>5 DEF Register, SendAck
  <2>6. \/ pc' = [pc EXCEPT ![UDP] = "idle"] /\ loc' = [loc EXCEPT ![UDP] = NoLocal]
        \/ pc' = [pc EXCEPT ![UDP] = "persist"] /\ loc' = loc
    BY <1>5 DEF Register, Return, Goto
  <2> QED BY <2>1, <2>2, <2>3, <2>4, <2>5, <2>6 DEF TypeOK
<1>6. CASE PersistClaim
  <2> DEFINE c == loc[UDP].client  a == loc[UDP].ip
  <2>1. c \in DOMAIN ipPool /\ ipPool[c] = a
    BY <1>6 DEF PersistClaim, TypeInv, HasAddress
  <2>2. UNCHANGED <<sessions, routeTable, ipPool, claim>>
    BY <1>6, <2>1 DEF PersistClaim
  <2>3. \A m \in acks' : Pooled(m.client, m.ip)
    BY <1>6, <2>1 DEF PersistClaim, SendAck
  <2> QED BY <1>6, <2>2, <2>3 DEF PersistClaim, Return, Goto, TypeOK
<1>7. CASE Cleanup
  <2>1. UNCHANGED <<ipPool, claim, acks>>
    BY <1>7 DEF Cleanup, ExpireSessions, CleanupRoute, CleanupDedup, clients
  <2>2. \A c \in DOMAIN sessions' : c \in DOMAIN sessions /\ sessions'[c] = sessions[c]
    BY <1>7 DEF Cleanup, ExpireSessions, CleanupRoute, CleanupDedup
  <2>3. \A b \in DOMAIN routeTable' : b \in DOMAIN routeTable /\ routeTable'[b] = routeTable[b]
    BY <1>7 DEF Cleanup, ExpireSessions, CleanupRoute, CleanupDedup, Delete
  <2>4. pc'[UDP] = pc[UDP] /\ loc'[UDP] = loc[UDP]
    BY <1>7 DEF Cleanup, ExpireSessions, CleanupRoute, CleanupDedup, Goto, TypeOK, UDP, Cleaner
  <2> QED BY <2>1, <2>2, <2>3, <2>4
<1>8. ASSUME NEW h \in Admin, Handler(h) PROVE AgreeInv'
  BY <1>8 DEF Handler, PoolInv, HoldersPooled, UpdatePool, UpdateRoute, UpdateSession,
              DeletePool, DeleteRoute, DeleteSession, RemoveRoute, RemoveSession
<1>9. ASSUME NEW m \in acks, ReceiveAck(m) \/ LoseAck(m) PROVE AgreeInv'
  BY <1>9 DEF ReceiveAck, LoseAck, TypeOK, server, threads
<1>10. ASSUME NEW c \in Client, ClientRestart(c) PROVE AgreeInv'
  BY <1>10 DEF ClientRestart, TypeOK, server, threads
<1>11. CASE ServerRestart
  BY <1>11 DEF ServerRestart, clients
<1>12. CASE UNCHANGED vars
  BY <1>12 DEF vars, server, threads, clients
<1> QED BY <1>1, <1>2, <1>3, <1>4, <1>5, <1>6, <1>7, <1>8, <1>9, <1>10, <1>11, <1>12
        DEF Next, ReceiveLoop, Environment

(* Without the web API sessions, routes and clients agree with the pool at *)
(* every step, whatever expires, restarts or is lost.                      *)
THEOREM RegistryStaysConsistent ==
  ASSUME AdminOps = {}, "torn" \notin Faults
  PROVE  Spec => []RegistryAgrees
<1>1. Init => AgreeInv
  BY DEF Init, AgreeInv, RegistryAgrees, PoolIsInjective, Follows, Thread
<1>2. Spec => [](TypeInv /\ PoolInv)
  BY PoolInvCorrect
<1>3. Spec => []AgreeInv
  BY <1>1, <1>2, NextAgreeInv, PTL DEF Spec
<1> QED BY <1>3, PTL DEF AgreeInv

(* Without the web API no step changes or drops the address of a device.   *)
THEOREM AddressesStayStable ==
  ASSUME AdminOps = {}, "torn" \notin Faults
  PROVE  Spec => AddressesAreStable
<1> DEFINE Stable == \A c \in DOMAIN ipPool : c \in DOMAIN ipPool' /\ ipPool'[c] = ipPool[c]
<1>1. PoolInv /\ [Next]_vars => Stable
  <2> SUFFICES ASSUME PoolInv, [Next]_vars PROVE Stable
    OBVIOUS
  <2>1. CASE AllocateIP
    BY <2>1 DEF AllocateIP, Offer, Put
  <2>2. CASE PersistClaim
    BY <2>2 DEF PersistClaim, Put
  <2>3. CASE UNCHANGED ipPool
    BY <2>3
  <2>4. ASSUME NEW h \in Admin, Handler(h) PROVE FALSE
    BY <2>4 DEF Handler, PoolInv, HoldersPooled, UpdatePool, UpdateRoute, UpdateSession,
                DeletePool, DeleteRoute, DeleteSession, RemoveRoute, RemoveSession
  <2>5. ReceiveLoop => AllocateIP \/ PersistClaim \/ UNCHANGED ipPool
    BY DEF ReceiveLoop, HeartbeatConflict, HeartbeatKnown, HeartbeatNew, HandleData, Register, server
  <2>6. Cleanup \/ Environment \/ UNCHANGED vars => UNCHANGED ipPool
    BY DEF Cleanup, ExpireSessions, CleanupRoute, CleanupDedup,
           Environment, ReceiveAck, LoseAck, ClientRestart, ServerRestart, server, vars
  <2> QED BY <2>1, <2>2, <2>3, <2>4, <2>5, <2>6 DEF Next
<1>2. Spec => [](TypeInv /\ PoolInv)
  BY PoolInvCorrect
<1> QED BY <1>1, <1>2, PTL DEF Spec, AddressesAreStable
------------------------------------------------------------------------------
(* A change of address that meets a registration.                          *)

(* One administrator changes addresses at a time, and sessions live.       *)
Orderly == /\ AdminOps \subseteq {"update"} /\ Faults = {}
           /\ \A h, k \in Admin : h = k

Updating(h) == pc[h] \in {"update2", "update3"}

(* c has address a in the pool, or a change of c's is under way that will  *)
(* reach its session.                                                      *)
Agreed(c, a) == Pooled(c, a) \/ \E h \in Admin : Updating(h) /\ loc[h].client = c

(* A client with an address has a session, so an address is only ever      *)
(* registered out of the pool; a change of it waits for sessionsLock.      *)
SyncInv ==
  /\ pc[Cleaner] = "idle" /\ (pc[UDP] # "idle" => sessionsLock = UDP)
  /\ \A c \in Client : claim[c] # NoIP => c \in DOMAIN sessions
  /\ \A m \in acks : m.client \in DOMAIN sessions
  /\ pc[UDP] = "persist" => loc[UDP].client \in DOMAIN sessions
  /\ \A h \in Admin : Updating(h) => ipPool[loc[h].client] = loc[h].ip
  /\ \A c \in DOMAIN sessions : Agreed(c, sessions[c])
  /\ pc[UDP] # "idle" => Agreed(loc[UDP].client, loc[UDP].ip)

LEMMA NextSyncInv ==
  ASSUME Orderly
  PROVE  TypeInv /\ PoolInv /\ SyncInv /\ [Next]_vars => SyncInv'
<1> SUFFICES ASSUME TypeInv, PoolInv, SyncInv, [Next]_vars PROVE SyncInv'
  OBVIOUS
<1> TypeOK /\ AdminOps \subseteq {"update"} /\ Faults = {} /\ \A h, k \in Admin : h = k
  BY DEF TypeInv, Orderly
<1> \A h \in Admin : h \in Thread /\ h # UDP /\ h # Cleaner
  BY HandlerType
<1> USE ThreadType DEF SyncInv, Agreed, Pooled, Updating
<1>1. ASSUME NEW c \in Client, HeartbeatConflict(c) \/ HeartbeatKnown(c) PROVE SyncInv'
  <2>1. UNCHANGED <<server, threads, claim>> /\ c \in DOMAIN sessions
    BY <1>1 DEF HeartbeatConflict, HeartbeatKnown
  <2>2. \A m \in acks' : m.client \in DOMAIN sessions
    BY <1>1, <2>1 DEF HeartbeatConflict, HeartbeatKnown, SendAck
  <2> QED BY <2>1, <2>2 DEF server, threads
<1>2. ASSUME NEW c \in Client, HeartbeatNew(c) PROVE SyncInv'
  <2>1. claim[c] = NoIP
    BY <1>2 DEF HeartbeatNew
  <2>2. /\ sessionsLock' = UDP /\ pc' = [pc EXCEPT ![UDP] = "allocate"]
        /\ loc' = [loc EXCEPT ![UDP] = [client |-> c, ip |-> NoIP, old |-> NoIP]]
        /\ UNCHANGED <<server, clients>>
    BY <1>2, <2>1 DEF HeartbeatNew, Goto
  <2>3. /\ pc'[UDP] = "allocate" /\ loc'[UDP].ip = NoIP
        /\ \A t \in Thread \ {UDP} : pc'[t] = pc[t] /\ loc'[t] = loc[t]
    BY <2>2 DEF TypeOK
  <2> QED BY <2>2, <2>3 DEF server, clients, UDP, Cleaner
<1>3. ASSUME NEW c \in Client, HandleData(c) PROVE SyncInv'
  BY <1>3 DEF HandleData, threads, clients
<1>4. CASE AllocateIP
  <2> DEFINE c == loc[UDP].client
  <2>1. /\ c \in Client /\ pc'[UDP] = "register" /\ sessionsLock = UDP
        /\ \A t \in Thread \ {UDP} : pc'[t] = pc[t]
        /\ UNCHANGED <<sessions, sessionsLock, claim, acks>>
    BY <1>4 DEF AllocateIP, Goto, TypeOK, Local, clients
  <2>2. CASE UNCHANGED <<loc, ipPool>>
    BY <1>4, <2>1, <2>2 DEF AllocateIP, UDP, Cleaner
  <2>3. ASSUME NEW a \in Offer(c), loc' = [loc EXCEPT ![UDP].ip = a], ipPool' = Put(ipPool, c, a)
        PROVE  SyncInv'
    <3>1. \A d \in DOMAIN ipPool : d \in DOMAIN ipPool' /\ ipPool'[d] = ipPool[d]
      BY <2>3 DEF Offer, Put
    <3>2. c \in DOMAIN ipPool' /\ ipPool'[c] = a
      BY <2>3 DEF Put
    <3>3. /\ loc'[UDP].client = c /\ loc'[UDP].ip = a
          /\ \A t \in Thread \ {UDP} : loc'[t] = loc[t]
      BY <2>3 DEF TypeOK, Local
    <3>4. \A h \in Admin : Updating(h) => loc[h].client \in DOMAIN ipPool
      BY DEF PoolInv, HoldersPooled
    <3> QED BY <2>1, <3>1, <3>2, <3>3, <3>4 DEF UDP, Cleaner
  <2> QED BY <1>4, <2>2, <2>3 DEF AllocateIP
<1>5. CASE Register
  <2> DEFINE c == loc[UDP].client  a == loc[UDP].ip
  <2>1. Agreed(c, a) /\ UNCHANGED <<ipPool, claim>> /\ sessionsLock = UDP
    BY <1>5 DEF Register
  <2>2. /\ DOMAIN sessions' = DOMAIN sessions \cup {c} /\ sessions'[c] = a
        /\ \A d \in DOMAIN sessions \ {c} : sessions'[d] = sessions[d]
    BY <1>5 DEF Register, Put
  <2>3. \A m \in acks' : m.client \in DOMAIN sessions'
    BY <1>5, <2>2 DEF Register, SendAck
  <2>4. /\ \/ pc'[UDP] = "idle"
           \/ pc'[UDP] = "persist" /\ sessionsLock' = UDP /\ loc'[UDP] = loc[UDP]
        /\ \A t \in Thread \ {UDP} : pc'[t] = pc[t] /\ loc'[t] = loc[t]
    BY <1>5, <2>1 DEF Register, Return, Goto, TypeOK
  <2> QED BY <2>1, <2>2, <2>3, <2>4 DEF UDP, Cleaner
<1>6. CASE PersistClaim
  <2> DEFINE c == loc[UDP].client  a == loc[UDP].ip
  <2>1. c \in DOMAIN ipPool
    BY <1>6 DEF PersistClaim, TypeInv, HasAddress, PoolInv, HoldersPooled
  <2>2. UNCHANGED <<sessions, ipPool, claim>> /\ c \in DOMAIN sessions
    BY <1>6, <2>1 DEF PersistClaim
  <2>3. \A m \in acks' : m.client \in DOMAIN sessions
    BY <1>6, <2>2 DEF PersistClaim, SendAck
  <2>4. pc'[UDP] = "idle" /\ \A t \in Thread \ {UDP} : pc'[t] = pc[t] /\ loc'[t] = loc[t]
    BY <1>6 DEF PersistClaim, Return, Goto, TypeOK
  <2> QED BY <2>2, <2>3, <2>4 DEF UDP, Cleaner
<1>7. ~Cleanup
  BY DEF Cleanup, ExpireSessions, CleanupRoute, CleanupDedup
<1>8. ASSUME NEW h \in Admin, Handler(h) PROVE SyncInv'
  <2> DEFINE c == loc[h].client  a == loc[h].ip
  <2>0. /\ pc[h] \in {"idle", "update2", "update3"} /\ "delete" \notin AdminOps /\ "remove" \notin AdminOps
        /\ Updating(h) => c \in DOMAIN ipPool
        /\ \A k \in Admin : k = h
    BY DEF PoolInv, HoldersPooled
  <2>1. ASSUME NEW d \in Client, NEW b \in IP, UpdatePool(h, d, b) PROVE SyncInv'
    <3>1. /\ pc[h] = "idle" /\ pc'[h] = "update2" /\ loc'[h].client = d /\ loc'[h].ip = b
          /\ \A t \in Thread \ {h} : pc'[t] = pc[t] /\ loc'[t] = loc[t]
          /\ UNCHANGED <<sessions, sessionsLock, claim, acks>>
      BY <2>1 DEF UpdatePool, Goto, TypeOK, clients
    <3>2. /\ DOMAIN ipPool' = DOMAIN ipPool /\ ipPool'[d] = b
          /\ \A e \in DOMAIN ipPool \ {d} : ipPool'[e] = ipPool[e]
      BY <2>1 DEF UpdatePool, Put
    <3> QED BY <2>0, <3>1, <3>2
  <2>2. CASE UpdateRoute(h)
    BY <2>0, <2>2 DEF UpdateRoute, Goto, TypeOK, clients
  <2>3. CASE UpdateSession(h)
    <3>1. /\ pc[UDP] = "idle" /\ pc'[h] = "idle"
          /\ \A t \in Thread \ {h} : pc'[t] = pc[t] /\ loc'[t] = loc[t]
          /\ UNCHANGED <<ipPool, sessionsLock, claim>>
      BY <2>3 DEF UpdateSession, Return, Goto, TypeOK, UDP, Free
    <3>2. Pooled(c, a)
      BY <2>0, <2>3 DEF UpdateSession
    <3>3. /\ DOMAIN sessions' = DOMAIN sessions
          /\ c \in DOMAIN sessions => sessions'[c] = a
          /\ \A d \in DOMAIN sessions \ {c} : sessions'[d] = sessions[d]
      <4>1. sessions' = IF c \in DOMAIN sessions THEN Put(sessions, c, a) ELSE sessions
        BY <2>3 DEF UpdateSession
      <4> HIDE DEF c, a
      <4>2. CASE c \in DOMAIN sessions
        <5>1. /\ DOMAIN Put(sessions, c, a) = DOMAIN sessions \cup {c}
              /\ \A x \in DOMAIN sessions \cup {c} : Put(sessions, c, a)[x] = IF x = c THEN a ELSE sessions[x]
          BY DEF Put
        <5>2. sessions' = Put(sessions, c, a)
          BY <4>1, <4>2
        <5> DEFINE m == Put(sessions, c, a)
        <5> HIDE DEF m
        <5>3. DOMAIN m = DOMAIN sessions
          BY <4>2, <5>1 DEF m
        <5>4. \A x \in DOMAIN sessions : m[x] = IF x = c THEN a ELSE sessions[x]
          BY <5>1 DEF m
        <5>5. sessions' = m
          BY <5>2 DEF m
        <5> QED BY <4>2, <5>3, <5>4, <5>5
      <4>3. CASE c \notin DOMAIN sessions
        BY <4>1, <4>3
      <4> QED BY <4>2, <4>3
    <3>4. \A m \in acks' : m.client \in DOMAIN sessions
      BY <2>3 DEF UpdateSession, SendAck
    <3>5. \A d \in DOMAIN sessions' : Pooled(d, sessions'[d])
      BY <2>0, <3>2, <3>3
    <3> QED BY <2>0, <3>1, <3>3, <3>4, <3>5
  <2> QED BY <1>8, <2>0, <2>1, <2>2, <2>3
          DEF Handler, DeletePool, DeleteRoute, DeleteSession, RemoveRoute, RemoveSession
<1>9. ASSUME NEW m \in acks, ReceiveAck(m) \/ LoseAck(m) PROVE SyncInv'
  BY <1>9 DEF ReceiveAck, LoseAck, TypeOK, server, threads
<1>10. ASSUME NEW c \in Client, ClientRestart(c) PROVE SyncInv'
  BY <1>10 DEF ClientRestart, TypeOK, server, threads
<1>11. ~ServerRestart
  BY DEF ServerRestart
<1>12. CASE UNCHANGED vars
  BY <1>12 DEF vars, server, threads, clients
<1> QED BY <1>1, <1>2, <1>3, <1>4, <1>5, <1>6, <1>7, <1>8, <1>9, <1>10, <1>11, <1>12
        DEF Next, ReceiveLoop, Environment

(* While sessions live and one administrator changes addresses at a time,  *)
(* every session has its device's address whenever nothing is under way,   *)
(* however registrations and changes interleave.                           *)
THEOREM SessionsKeepUp ==
  ASSUME Orderly
  PROVE  Spec => []SessionsFollowPool
<1>1. AdminOps \subseteq {"update"} /\ "torn" \notin Faults
  BY DEF Orderly
<1>2. Spec => [](TypeInv /\ PoolInv)
  BY <1>1, PoolInvCorrect
<1>3. Init => SyncInv
  BY HandlerType DEF Init, SyncInv, Agreed, Updating, Thread
<1>4. Spec => []SyncInv
  BY <1>2, <1>3, NextSyncInv, PTL DEF Spec
<1>5. SyncInv => SessionsFollowPool
  BY HandlerType DEF SyncInv, SessionsFollowPool, Quiet, Follows, Agreed, Pooled, Updating
<1> QED BY <1>4, <1>5, PTL

==============================================================================
