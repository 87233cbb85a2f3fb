----------------------------- MODULE DesktopProofs -----------------------------
(***************************************************************************)
(* Proofs about the desktop controller, for any number of connections and  *)
(* of changes of the NIC's address: type correctness, and that the one     *)
(* client that runs is within reach of Disconnect and of the watchers.     *)
(***************************************************************************)
EXTENDS DesktopController, TLAPS

(* The number of clients is a number, which is all that matters about it.  *)
LEMMA MaxClientsNat == MaxClients \in Nat
<1>1. MaxChanges + 1 \in Nat
  BY ControllerAssumption
<1>2. \A k \in Nat : MaxConnects * k \in Nat
  BY ControllerAssumption
<1> QED BY <1>1, <1>2 DEF MaxClients

------------------------------------------------------------------------------
(* Type correctness.                                                       *)

LEMMA InitTypeOK == Init => TypeOK
<1>1. 0 \in 0 .. MaxClients /\ 0 \in 0 .. MaxConnects /\ 0 \in 0 .. MaxChanges
  BY MaxClientsNat, ControllerAssumption
<1>2. NoIP \in AnyIP
  BY DEF AnyIP
<1> QED BY <1>1, <1>2 DEF Init, TypeOK

(* connectLocked keeps the types, for whatever watchers it leaves.         *)
LEMMA ConnectLockedType ==
  ASSUME TypeOK, NEW w \in [Client -> {"none", "watching", "changed", "waiting", "ended"}],
         ConnectLocked(w), connects' \in 0 .. MaxConnects
  PROVE  TypeOK'
<1>1. CASE StartClient(w)
  <2>1. started + 1 \in Client /\ started + 1 \in 0 .. MaxClients
    BY <1>1, MaxClientsNat DEF StartClient, TypeOK, Client
  <2> DEFINE k == started + 1
  <2> HIDE DEF k
  <2>2. /\ started' = k /\ cancelFunc' = k /\ stopWatch' = k
        /\ run' = [run EXCEPT ![k] = "starting"] /\ watch' = [w EXCEPT ![k] = "watching"]
        /\ nicAtStart' = [nicAtStart EXCEPT ![k] = nicIP]
        /\ UNCHANGED <<sock, cancelled, unwatched, nicIP, changes>>
    BY <1>1 DEF StartClient, nic, k
  <2>3. connected' \in BOOLEAN /\ lastReq' \in BOOLEAN /\ lastError' \in BOOLEAN /\ boundIP' \in AnyIP
    BY <1>1 DEF StartClient, TypeOK
  <2> QED BY <2>1, <2>2, <2>3 DEF TypeOK, k
<1>2. CASE RefuseClient(w)
  BY <1>2 DEF RefuseClient, TypeOK, runVars, nic
<1> QED BY <1>1, <1>2 DEF ConnectLocked

LEMMA NextTypeOK == TypeOK /\ [Next]_vars => TypeOK'
<1> SUFFICES ASSUME TypeOK, [Next]_vars PROVE TypeOK'
  OBVIOUS
<1>1. CASE Connect
  BY <1>1, ConnectLockedType, ControllerAssumption DEF Connect, TypeOK
<1>2. CASE Disconnect
  BY <1>2 DEF Disconnect, DisconnectLocked, TypeOK, user, nic
<1>3. ASSUME NEW c \in Client, ClientGoroutine(c) PROVE TypeOK'
  <2>1. NoIP \in AnyIP
    BY DEF AnyIP
  <2>2. CASE RunBind(c)
    BY <2>2 DEF RunBind, TypeOK, fields, watchers, user, nic
  <2>3. CASE RunCancelled(c)
    BY <2>1, <2>3 DEF RunCancelled, TypeOK, fields, watchers, user, nic
  <2>4. CASE RunError(c)
    BY <2>4 DEF RunError, TypeOK, watchers, user, nic
  <2>5. CASE RunEnd(c)
    BY <2>1, <2>5 DEF RunEnd, TypeOK, watchers, user, nic
  <2> QED BY <1>3, <2>2, <2>3, <2>4, <2>5 DEF ClientGoroutine
<1>4. ASSUME NEW c \in Client, WatchReconnect(c) PROVE TypeOK'
  <2>1. [watch EXCEPT ![c] = "ended"] \in [Client -> {"none", "watching", "changed", "waiting", "ended"}]
    BY DEF TypeOK
  <2> QED BY <1>4, <2>1, ConnectLockedType DEF WatchReconnect, TypeOK
<1>5. ASSUME NEW c \in Client, WatchTick(c) \/ WatchStopped(c) \/ WatchDisconnect(c) PROVE TypeOK'
  BY <1>5 DEF WatchTick, WatchStopped, WatchDisconnect, DisconnectLocked,
              TypeOK, fields, runVars, user, nic
<1>6. CASE NicChange
  BY <1>6, ControllerAssumption
     DEF NicChange, TypeOK, fields, runVars, watchers, user
<1>7. CASE UNCHANGED vars
  BY <1>7 DEF vars, TypeOK, fields, runVars, watchers, user, nic
<1> QED BY <1>1, <1>2, <1>3, <1>4, <1>5, <1>6, <1>7 DEF Next, WatcherGoroutine

(* Type correctness of the controller, its clients and their watchers.     *)
THEOREM ControllerTypeCorrect == Spec => []TypeOK
<1> QED BY InitTypeOK, NextTypeOK, PTL DEF Spec

------------------------------------------------------------------------------
(* One client, and it can be stopped.                                      *)

(* The client that is alive is the last one started, connected keeps it    *)
(* the only one, and unless it is cancelled cancelFunc is its own.         *)
LastInReach ==
  /\ \A c \in Client : Alive(c) => c = started /\ connected
  /\ \A c \in Client : Alive(c) /\ c \notin cancelled => cancelFunc = c

ReachInv == TypeOK /\ LastInReach

LEMMA InitReach == Init => LastInReach
  BY DEF Init, LastInReach, Alive

(* Nobody is alive while the controller is not connected, so the client    *)
(* that is started is the only one.                                        *)
LEMMA ConnectLockedReach ==
  ASSUME TypeOK, LastInReach, NEW w, ConnectLocked(w)
  PROVE  LastInReach'
<1>1. CASE StartClient(w)
  <2>1. started + 1 \in Client
    BY <1>1, MaxClientsNat DEF StartClient, TypeOK, Client
  <2> DEFINE k == started + 1
  <2>2. /\ started' = k /\ cancelFunc' = k /\ connected' = TRUE
        /\ run' = [run EXCEPT ![k] = "starting"]
    BY <1>1 DEF StartClient
  <2>3. \A c \in Client : ~Alive(c)
    BY DEF ConnectLocked, LastInReach
  <2> HIDE DEF k
  <2>4. ASSUME NEW c \in Client, Alive(c)' PROVE c = k
    BY <2>2, <2>3, <2>4 DEF Alive, TypeOK
  <2> QED BY <2>2, <2>4 DEF LastInReach
<1>2. CASE RefuseClient(w)
  BY <1>2 DEF RefuseClient, LastInReach, Alive, runVars
<1> QED BY <1>1, <1>2 DEF ConnectLocked

(* What is alive and not cancelled is what cancelFunc cancels.             *)
LEMMA DisconnectLockedReach ==
  ASSUME TypeOK, LastInReach, DisconnectLocked, UNCHANGED <<run, started>>
  PROVE  LastInReach'
<1>1. \A c \in Client : Alive(c)' <=> Alive(c)
  BY DEF Alive
<1>2. CASE connected
  BY <1>1, <1>2 DEF DisconnectLocked, LastInReach, Client, Nobody
<1>3. CASE ~connected
  BY <1>1, <1>3 DEF DisconnectLocked, LastInReach
<1> QED BY <1>2, <1>3

LEMMA NextReach == ReachInv /\ [Next]_vars => LastInReach'
<1> SUFFICES ASSUME TypeOK, LastInReach, [Next]_vars PROVE LastInReach'
  BY DEF ReachInv
<1>1. CASE Connect
  BY <1>1, ConnectLockedReach DEF Connect
<1>2. CASE Disconnect
  BY <1>2, DisconnectLockedReach DEF Disconnect, user
<1>3. ASSUME NEW c \in Client, RunBind(c) \/ RunCancelled(c) \/ RunError(c) PROVE LastInReach'
  <2>1. /\ Alive(c)
        /\ \A d \in Client : Alive(d)' => Alive(d)
    BY <1>3 DEF RunBind, RunCancelled, RunError, Alive, TypeOK
  <2> QED BY <1>3, <2>1 DEF RunBind, RunCancelled, RunError, LastInReach, fields, user
<1>4. ASSUME NEW c \in Client, RunEnd(c) PROVE LastInReach'
  <2>1. Alive(c)
    BY <1>4 DEF RunEnd, Alive
  <2>2. \A d \in Client : Alive(d)' => Alive(d) /\ d # c
    BY <1>4 DEF RunEnd, Alive, TypeOK
  <2>3. \A d \in Client : ~Alive(d)'
    BY <2>1, <2>2 DEF LastInReach
  <2> QED BY <2>3 DEF LastInReach
<1>5. ASSUME NEW c \in Client, WatchReconnect(c) PROVE LastInReach'
  BY <1>5, ConnectLockedReach DEF WatchReconnect
<1>6. ASSUME NEW c \in Client, WatchDisconnect(c) PROVE LastInReach'
  BY <1>6, DisconnectLockedReach DEF WatchDisconnect, user
<1>7. ASSUME NEW c \in Client, WatchTick(c) \/ WatchStopped(c) PROVE LastInReach'
  BY <1>7 DEF WatchTick, WatchStopped, LastInReach, Alive, fields, runVars, user
<1>8. CASE NicChange
  BY <1>8 DEF NicChange, LastInReach, Alive, fields, runVars, user
<1>9. CASE UNCHANGED vars
  BY <1>9 DEF vars, LastInReach, Alive, fields, runVars, user
<1> QED BY <1>1, <1>2, <1>3, <1>4, <1>5, <1>6, <1>7, <1>8, <1>9
       DEF Next, ClientGoroutine, WatcherGoroutine

LEMMA ReachInvariant == Spec => []ReachInv
<1>1. Init => ReachInv
  BY InitTypeOK, InitReach DEF ReachInv
<1>2. ReachInv /\ [Next]_vars => ReachInv'
  BY NextTypeOK, NextReach DEF ReachInv
<1> QED BY <1>1, <1>2, PTL DEF Spec

(* However the user and the watchers interleave, at most one client is     *)
(* alive: connectLocked's test of connected suffices although the mutex is *)
(* released between disconnecting and connecting.                          *)
THEOREM OneClientAtATime == Spec => []OneClientRuns
<1>1. ReachInv => OneClientRuns
  BY DEF ReachInv, LastInReach, OneClientRuns
<1> QED BY <1>1, ReachInvariant, PTL

(* Disconnect always reaches the client that runs.                         *)
THEOREM RunningClientInReach == Spec => []ClientInReach
<1>1. ReachInv => ClientInReach
  BY DEF ReachInv, LastInReach, ClientInReach
<1> QED BY <1>1, ReachInvariant, PTL

==============================================================================
