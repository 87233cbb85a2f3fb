---------------------------- MODULE ServerRegistry ----------------------------
(***************************************************************************)
(* The server's registry of clients (internal/server/server.go, webapi.go):*)
(* the live sessions, the route table, the pool of assigned addresses and  *)
(* the deduplicator's entries, as the receive loop, the cleanup goroutine  *)
(* and concurrent web-API handlers change them.  The four tables are       *)
(* guarded by different locks and no operation holds all of them: an       *)
(* action here is one critical section, and operations interleave between  *)
(* their sections.  The clients are included as far as the registry        *)
(* depends on them: the address each one claims in its heartbeats, learnt  *)
(* from acknowledgements that are lost, delayed and reordered.             *)
(*                                                                         *)
(* Addresses are host offsets in the subnet.  Time is abstracted: a        *)
(* session may expire whenever it is live, and a heartbeat may arrive      *)
(* whenever the receive loop is free.                                      *)
(***************************************************************************)
EXTENDS Integers, FiniteSets

CONSTANTS Client,     \* clientIDs
          MaxHost,    \* broadcast offset minus one: addresses are 1 .. MaxHost
          ServerHost, \* the server's own address
          Admin,      \* web-API handler goroutines that may run at one time
          AdminOps,   \* which of "update", "delete", "remove" the administrator uses
          Faults,     \* which of "expire", "restart", "torn" happen
          Senders,    \* the clients that send data
          MaxAcks     \* bound: acknowledgements in flight, any more are lost

UDP     == "udp"      \* the receive loop in Run
Cleaner == "cleaner"  \* cleanupLoop
Thread  == {UDP, Cleaner} \cup Admin

IP    == 1 .. MaxHost
NoIP  == 0            \* 0.0.0.0
AnyIP == IP \cup {NoIP}
Free  == "free"

ASSUME RegistryAssumption ==
  /\ Client # {}
  /\ MaxHost \in Nat
  /\ ServerHost \in IP
  /\ {UDP, Cleaner, Free} \cap Admin = {}
  /\ AdminOps \subseteq {"update", "delete", "remove"}
  /\ Faults \subseteq {"expire", "restart", "torn"}
  /\ Senders \subseteq Client
  /\ MaxAcks \in Nat

VARIABLES sessions,     \* map: client -> VirtualIP of its session
          routeTable,   \* map: address -> client
          ipPool,       \* map: client -> address, and the file it is saved to
          heard,        \* the clients the deduplicator has an entry for
          sessionsLock, \* the thread holding sessionsLock for writing, or Free
          pc,           \* thread -> what it does next
          loc,          \* thread -> its local variables
          expired,      \* cleanup's expiredSessions still to be processed
          claim,        \* client -> the address in its heartbeats
          acks          \* heartbeat acknowledgements in flight

server  == <<sessions, routeTable, ipPool, heard>>
threads == <<sessionsLock, pc, loc, expired>>
clients == <<claim, acks>>
vars    == <<server, threads, clients>>

Ack == [client : Client, ip : AnyIP, status : {"ok", "conflict"}]

Local   == [client : Client, ip : AnyIP, old : AnyIP]
NoLocal == [client |-> CHOOSE c \in Client : TRUE, ip |-> NoIP, old |-> NoIP]

Step == {"idle", "allocate", "register", "persist",     \* handleHeartbeat
         "unroute", "reset",                            \* cleanup
         "update2", "update3", "delete2", "delete3",    \* UpdateDeviceIP, DeleteDevice
         "remove2"}                                     \* DeleteClient

PartialFun(S, T) == UNION {[D -> T] : D \in SUBSET S}

TypeOK == /\ sessions \in PartialFun(Client, AnyIP)
          /\ routeTable \in PartialFun(IP, Client)
          /\ ipPool \in PartialFun(Client, IP)
          /\ heard \subseteq Client
          /\ sessionsLock \in Thread \cup {Free}
          /\ pc \in [Thread -> Step]
          /\ loc \in [Thread -> Local]
          /\ expired \subseteq [client : Client, ip : AnyIP]
          /\ claim \in [Client -> AnyIP]
          /\ acks \subseteq Ack

(* m[k] = v and delete(m, k) on a Go map.                                  *)
Put(m, k, v) == [x \in DOMAIN m \cup {k} |-> IF x = k THEN v ELSE m[x]]
Delete(m, k) == [x \in DOMAIN m \ {k} |-> m[x]]

Init == /\ sessions = [c \in {} |-> NoIP]
        /\ routeTable = [a \in {} |-> NoIP]
        /\ ipPool = [c \in {} |-> NoIP]
        /\ heard = {}
        /\ sessionsLock = Free
        /\ pc = [t \in Thread |-> "idle"]
        /\ loc = [t \in Thread |-> NoLocal]
        /\ expired = {}
        /\ claim = [c \in Client |-> NoIP]
        /\ acks = {}

Goto(t, step)    == pc' = [pc EXCEPT ![t] = step]
Return(t)        == Goto(t, "idle") /\ loc' = [loc EXCEPT ![t] = NoLocal]
SendAck(c, a, s) == acks' = IF Cardinality(acks) < MaxAcks
                            THEN acks \cup {[client |-> c, ip |-> a, status |-> s]}
                            ELSE acks

------------------------------------------------------------------------------
(* handleHeartbeat, in the receive loop.                                   *)

Receiving == pc[UDP] = "idle" /\ sessionsLock = Free

(* The client is registered under another address.                         *)
HeartbeatConflict(c) ==
  /\ Receiving
  /\ c \in DOMAIN sessions /\ claim[c] # NoIP /\ claim[c] # sessions[c]
  /\ SendAck(c, sessions[c], "conflict")
  /\ UNCHANGED <<server, threads, claim>>

(* A session is refreshed.                                                 *)
HeartbeatKnown(c) ==
  /\ Receiving
  /\ c \in DOMAIN sessions /\ (claim[c] = NoIP \/ claim[c] = sessions[c])
  /\ SendAck(c, sessions[c], "ok")
  /\ UNCHANGED <<server, threads, claim>>

(* A new client: sessionsLock is held until the acknowledgement.           *)
HeartbeatNew(c) ==
  /\ Receiving
  /\ c \notin DOMAIN sessions
  /\ sessionsLock' = UDP
  /\ Goto(UDP, IF claim[c] = NoIP THEN "allocate" ELSE "register")
  /\ loc' = [loc EXCEPT ![UDP] = [client |-> c, ip |-> claim[c], old |-> NoIP]]
  /\ UNCHANGED <<server, expired, clients>>

(* Fault: the server's own address is not reserved.                        *)
UnusedWithServer == IP \ {ipPool[c] : c \in DOMAIN ipPool}

(* Fault: the addresses in the pool are not looked at.                     *)
UnusedIgnoringPool == IP \ {ServerHost}

(* Fault: the scan runs up to the broadcast address.                       *)
UnusedPastEnd == (1 .. MaxHost + 1) \ ({ipPool[c] : c \in DOMAIN ipPool} \cup {ServerHost})

Unused == IP \ ({ipPool[c] : c \in DOMAIN ipPool} \cup {ServerHost})

Lowest(S) == {a \in S : \A b \in S : a <= b}

(* Fault: a client's earlier allocation is not looked up.                  *)
OfferAnew(c) == Lowest(Unused)

(* The address c is offered: the pooled one, else the lowest unused one,   *)
(* else none.                                                              *)
Offer(c) == IF c \in DOMAIN ipPool THEN {ipPool[c]} ELSE Lowest(Unused)

(* allocateIP, under ipPoolLock.                                           *)
AllocateIP ==
  /\ pc[UDP] = "allocate"
  /\ LET c == loc[UDP].client
     IN  \/ \E a \in Offer(c) : /\ loc' = [loc EXCEPT ![UDP].ip = a]
                                /\ ipPool' = Put(ipPool, c, a)
         \/ Offer(c) = {} /\ UNCHANGED <<loc, ipPool>>
  /\ Goto(UDP, "register")
  /\ UNCHANGED <<sessions, routeTable, heard, sessionsLock, expired, clients>>

(* The session is created and, under routeLock, the route written.  With   *)
(* no address there is neither a route nor a pool entry to write.          *)
Register ==
  /\ pc[UDP] = "register"
  /\ LET c == loc[UDP].client
         a == loc[UDP].ip
     IN  /\ sessions' = Put(sessions, c, a)
         /\ IF a = NoIP
            THEN /\ Return(UDP)
                 /\ sessionsLock' = Free
                 /\ SendAck(c, NoIP, "ok")
                 /\ UNCHANGED routeTable
            ELSE /\ routeTable' = Put(routeTable, a, c)
                 /\ Goto(UDP, "persist")
                 /\ UNCHANGED <<loc, sessionsLock, acks>>
  /\ UNCHANGED <<ipPool, heard, expired, claim>>

(* Under ipPoolLock, an address the client brought along is pooled and     *)
(* saved unless the client has one already.                                *)
PersistClaim ==
  /\ pc[UDP] = "persist"
  /\ LET c == loc[UDP].client
         a == loc[UDP].ip
     IN  /\ ipPool' = IF c \in DOMAIN ipPool THEN ipPool ELSE Put(ipPool, c, a)
         /\ SendAck(c, a, "ok")
  /\ Return(UDP)
  /\ sessionsLock' = Free
  /\ UNCHANGED <<sessions, routeTable, heard, expired, claim>>

(* handlePacket and handleData: the deduplicator comes before the session  *)
(* lookup, so data of a client without a session leaves an entry too.      *)
HandleData(c) ==
  /\ Receiving
  /\ c \in Senders /\ claim[c] # NoIP
  /\ heard' = heard \cup {c}
  /\ UNCHANGED <<sessions, routeTable, ipPool, threads, clients>>

------------------------------------------------------------------------------
(* cleanup.                                                                *)

(* Under sessionsLock, every session found silent is deleted.              *)
ExpireSessions(E) ==
  /\ "expire" \in Faults
  /\ pc[Cleaner] = "idle" /\ sessionsLock = Free
  /\ E # {}
  /\ sessions' = [c \in DOMAIN sessions \ E |-> sessions[c]]
  /\ expired' = {[client |-> c, ip |-> sessions[c]] : c \in E}
  /\ Goto(Cleaner, "unroute")
  /\ UNCHANGED <<routeTable, ipPool, heard, sessionsLock, loc, clients>>

(* Under routeLock, the route of one of them is deleted.                   *)
CleanupRoute(sr) ==
  /\ pc[Cleaner] = "unroute"
  /\ routeTable' = Delete(routeTable, sr.ip)
  /\ expired' = expired \ {sr}
  /\ loc' = [loc EXCEPT ![Cleaner] = [client |-> sr.client, ip |-> sr.ip, old |-> NoIP]]
  /\ Goto(Cleaner, "reset")
  /\ UNCHANGED <<sessions, ipPool, heard, sessionsLock, clients>>

(* dedup.Reset, and on to the next.                                        *)
CleanupDedup ==
  /\ pc[Cleaner] = "reset"
  /\ heard' = heard \ {loc[Cleaner].client}
  /\ loc' = [loc EXCEPT ![Cleaner] = NoLocal]
  /\ Goto(Cleaner, IF expired = {} THEN "idle" ELSE "unroute")
  /\ UNCHANGED <<sessions, routeTable, ipPool, sessionsLock, expired, clients>>

------------------------------------------------------------------------------
(* The web API.                                                            *)

(* Fault: the uniqueness of the new address is not checked.                *)
NeverTaken(c, a) == FALSE

Taken(c, a) == \E d \in DOMAIN ipPool \ {c} : ipPool[d] = a

(* UpdateDeviceIP, phase 1, under ipPoolLock.                              *)
UpdatePool(h, c, a) ==
  /\ "update" \in AdminOps
  /\ pc[h] = "idle"
  /\ a # ServerHost
  /\ c \in DOMAIN ipPool
  /\ ~Taken(c, a)
  /\ ipPool' = Put(ipPool, c, a)
  /\ loc' = [loc EXCEPT ![h] = [client |-> c, ip |-> a, old |-> ipPool[c]]]
  /\ Goto(h, "update2")
  /\ UNCHANGED <<sessions, routeTable, heard, sessionsLock, expired, clients>>

(* Fault: the live session is not updated.                                 *)
UpdateRouteOnly(h) ==
  /\ pc[h] = "update2"
  /\ routeTable' = Put(Delete(routeTable, loc[h].old), loc[h].ip, loc[h].client)
  /\ Return(h)
  /\ UNCHANGED <<sessions, ipPool, heard, sessionsLock, expired, clients>>

(* Phase 2, under routeLock.                                               *)
UpdateRoute(h) ==
  /\ pc[h] = "update2"
  /\ routeTable' = Put(Delete(routeTable, loc[h].old), loc[h].ip, loc[h].client)
  /\ Goto(h, "update3")
  /\ UNCHANGED <<sessions, ipPool, heard, sessionsLock, loc, expired, clients>>

(* Phase 3, under sessionsLock, and phase 4, the notification of the       *)
(* client if it has a session.                                             *)
UpdateSession(h) ==
  /\ pc[h] = "update3" /\ sessionsLock = Free
  /\ LET c == loc[h].client
         a == loc[h].ip
     IN  IF c \in DOMAIN sessions
         THEN sessions' = Put(sessions, c, a) /\ SendAck(c, a, "ok")
         ELSE UNCHANGED <<sessions, acks>>
  /\ Return(h)
  /\ UNCHANGED <<routeTable, ipPool, heard, sessionsLock, expired, claim>>

(* DeleteDevice, phase 1, under ipPoolLock.                                *)
DeletePool(h, c) ==
  /\ "delete" \in AdminOps
  /\ pc[h] = "idle"
  /\ c \in DOMAIN ipPool
  /\ ipPool' = Delete(ipPool, c)
  /\ loc' = [loc EXCEPT ![h] = [client |-> c, ip |-> NoIP, old |-> ipPool[c]]]
  /\ Goto(h, "delete2")
  /\ UNCHANGED <<sessions, routeTable, heard, sessionsLock, expired, clients>>

(* Phase 2, under routeLock.                                               *)
DeleteRoute(h) ==
  /\ pc[h] = "delete2"
  /\ routeTable' = Delete(routeTable, loc[h].old)
  /\ Goto(h, "delete3")
  /\ UNCHANGED <<sessions, ipPool, heard, sessionsLock, loc, expired, clients>>

(* Phase 3, under sessionsLock: only a session that exists resets dedup.   *)
DeleteSession(h) ==
  /\ pc[h] = "delete3" /\ sessionsLock = Free
  /\ LET c == loc[h].client
     IN  /\ sessions' = Delete(sessions, c)
         /\ heard' = IF c \in DOMAIN sessions THEN heard \ {c} ELSE heard
  /\ Return(h)
  /\ UNCHANGED <<routeTable, ipPool, sessionsLock, expired, clients>>

(* DeleteClient up to the release of routeLock; it keeps sessionsLock.     *)
RemoveRoute(h, c) ==
  /\ "remove" \in AdminOps
  /\ pc[h] = "idle" /\ sessionsLock = Free
  /\ c \in DOMAIN sessions
  /\ sessionsLock' = h
  /\ routeTable' = Delete(routeTable, sessions[c])
  /\ loc' = [loc EXCEPT ![h] = [client |-> c, ip |-> NoIP, old |-> NoIP]]
  /\ Goto(h, "remove2")
  /\ UNCHANGED <<sessions, ipPool, heard, expired, clients>>

(* Fault: DeleteClient returns without releasing sessionsLock.             *)
RemoveSessionLocked(h) ==
  /\ pc[h] = "remove2"
  /\ sessions' = Delete(sessions, loc[h].client)
  /\ ipPool' = Delete(ipPool, loc[h].client)
  /\ Return(h)
  /\ UNCHANGED <<routeTable, heard, sessionsLock, expired, clients>>

(* The rest of DeleteClient: the session, the pool entry, and the unlock.  *)
RemoveSession(h) ==
  /\ pc[h] = "remove2"
  /\ sessions' = Delete(sessions, loc[h].client)
  /\ ipPool' = Delete(ipPool, loc[h].client)
  /\ sessionsLock' = Free
  /\ Return(h)
  /\ UNCHANGED <<routeTable, heard, expired, clients>>

------------------------------------------------------------------------------
(* The clients, the network and the server's process.                      *)

(* handleHeartbeatAck: only an OK acknowledgement changes the address.     *)
ReceiveAck(m) ==
  /\ claim' = IF m.status = "ok" THEN [claim EXCEPT ![m.client] = m.ip] ELSE claim
  /\ acks' = acks \ {m}
  /\ UNCHANGED <<server, threads>>

LoseAck(m) ==
  /\ acks' = acks \ {m}
  /\ UNCHANGED <<server, threads, claim>>

(* A client configured for auto-assignment starts again.                   *)
ClientRestart(c) ==
  /\ claim[c] # NoIP
  /\ claim' = [claim EXCEPT ![c] = NoIP]
  /\ UNCHANGED <<server, threads, acks>>

(* A section of saveIPPool can be running: the crash may tear the file.    *)
Saving ==
  \/ pc[UDP] = "allocate" /\ loc[UDP].client \notin DOMAIN ipPool /\ Unused # {}
  \/ pc[UDP] = "persist" /\ loc[UDP].client \notin DOMAIN ipPool
  \/ \E h \in Admin : \/ pc[h] = "remove2"
                      \/ pc[h] = "idle" /\ AdminOps \cap {"update", "delete"} # {}
                                       /\ DOMAIN ipPool # {}

(* New: everything is lost but the pool, which loadIPPool reads back, and  *)
(* that too if the file was truncated and not yet written again.           *)
ServerRestart ==
  /\ \/ "restart" \in Faults /\ UNCHANGED ipPool
     \/ "torn" \in Faults /\ Saving /\ ipPool' = [c \in {} |-> NoIP]
  /\ sessions' = [c \in {} |-> NoIP]
  /\ routeTable' = [a \in {} |-> NoIP]
  /\ heard' = {}
  /\ sessionsLock' = Free
  /\ pc' = [t \in Thread |-> "idle"]
  /\ loc' = [t \in Thread |-> NoLocal]
  /\ expired' = {}
  /\ UNCHANGED clients

------------------------------------------------------------------------------
ReceiveLoop == \/ \E c \in Client : \/ HeartbeatConflict(c) \/ HeartbeatKnown(c)
                                    \/ HeartbeatNew(c) \/ HandleData(c)
               \/ AllocateIP
               \/ Register
               \/ PersistClaim

Cleanup == \/ \E E \in SUBSET DOMAIN sessions : ExpireSessions(E)
           \/ \E sr \in expired : CleanupRoute(sr)
           \/ CleanupDedup

Handler(h) == \/ \E c \in Client, a \in IP : UpdatePool(h, c, a)
              \/ UpdateRoute(h) \/ UpdateSession(h)
              \/ \E c \in Client : DeletePool(h, c)
              \/ DeleteRoute(h) \/ DeleteSession(h)
              \/ \E c \in Client : RemoveRoute(h, c)
              \/ RemoveSession(h)

Environment == \/ \E m \in acks : ReceiveAck(m) \/ LoseAck(m)
               \/ \E c \in Client : ClientRestart(c)
               \/ ServerRestart

Next == ReceiveLoop \/ Cleanup \/ (\E h \in Admin : Handler(h)) \/ Environment

Spec == Init /\ [][Next]_vars

(* The Go scheduler runs every goroutine that can run, and sync.RWMutex    *)
(* does not starve a writer that waits for it.                             *)
Fairness ==
  /\ WF_vars(AllocateIP \/ Register \/ PersistClaim)
  /\ WF_vars((\E sr \in expired : CleanupRoute(sr)) \/ CleanupDedup)
  /\ \A h \in Admin : /\ WF_vars(UpdateRoute(h) \/ DeleteRoute(h) \/ RemoveSession(h))
                      /\ SF_vars(UpdateSession(h) \/ DeleteSession(h))

FairSpec == Spec /\ Fairness

------------------------------------------------------------------------------
(* Properties.                                                             *)

Quiet == \A t \in Thread : pc[t] = "idle"

Follows(m) == \A c \in DOMAIN m : m[c] = NoIP \/ (c \in DOMAIN ipPool /\ m[c] = ipPool[c])

(* No two devices own one address, however allocations, claims and address *)
(* changes interleave (allocateIP, handleHeartbeat, UpdateDeviceIP).       *)
PoolIsInjective ==
  \A c, d \in DOMAIN ipPool : ipPool[c] = ipPool[d] => c = d

(* As long as nobody uses the web API, every session, every route and the  *)
(* address every client believes in agree with the pool at every step of   *)
(* every registration, expiry and restart: a packet for an address is      *)
(* never forwarded to a device it was not assigned to, and a device comes  *)
(* back with the address it had (handleHeartbeat, cleanup, New).           *)
RegistryAgrees ==
  /\ PoolIsInjective
  /\ Follows(sessions)
  /\ Follows(claim)
  /\ \A a \in DOMAIN routeTable :
       routeTable[a] \in DOMAIN ipPool /\ ipPool[routeTable[a]] = a

(* Without the web API a device's address never changes, whoever joins or  *)
(* leaves and whatever is lost (allocateIP: an address already allocated   *)
(* is returned again).                                                     *)
AddressesAreStable ==
  [][\A c \in DOMAIN ipPool : c \in DOMAIN ipPool' /\ ipPool'[c] = ipPool[c]]_vars

(* Nobody is ever given the server's own address, and no route or session  *)
(* takes it over, with every operation of the web API in play (allocateIP, *)
(* UpdateDeviceIP, and the claims clients learnt from them).               *)
ServerAddressReserved ==
  /\ \A c \in DOMAIN ipPool : ipPool[c] # ServerHost
  /\ \A c \in DOMAIN sessions : sessions[c] # ServerHost
  /\ ServerHost \notin DOMAIN routeTable

(* When no operation is under way, a live session has the address its      *)
(* device is assigned in the pool: a change of address that meets a        *)
(* registration half way wins in both tables (UpdateDeviceIP,              *)
(* handleHeartbeat).                                                       *)
SessionsFollowPool == Quiet => Follows(sessions)

(* Every operation that has begun ends: nothing waits for a lock forever,  *)
(* and no path leaves sessionsLock held (handleHeartbeat, cleanup, the     *)
(* web API).                                                               *)
OperationsEnd == \A t \in Thread : []<>(pc[t] = "idle")

==============================================================================
