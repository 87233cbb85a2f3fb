-------------------------- MODULE DesktopController --------------------------
(***************************************************************************)
(* The controller behind the desktop windows (windows/controller.go; the   *)
(* one of cmd/mpfpv-gui is the same without watcher): Connect and          *)
(* Disconnect, the goroutine that runs a client and clears the             *)
(* controller's fields when it ends, and the watcher that is started with  *)
(* every client and reconnects when the address of the chosen NIC changes. *)
(* The fields are guarded by one mutex, which the watcher releases while   *)
(* it waits: an action is one critical section.                            *)
(*                                                                         *)
(* A client's Run is taken from outside: it binds to the NIC's address or  *)
(* fails, and returns some time after its context is cancelled (ClientRun).*)
(***************************************************************************)
EXTENDS Integers, FiniteSets

CONSTANTS IP,          \* the addresses the NIC can have
          MaxConnects, \* bound: connections the user makes
          MaxChanges   \* bound: changes of the NIC's address

NoIP  == "none"
AnyIP == IP \cup {NoIP}

ASSUME ControllerAssumption == /\ NoIP \notin IP
                               /\ MaxConnects \in Nat /\ MaxChanges \in Nat

VARIABLES connected,  \* the controller's connected,
          cancelFunc, \* cancelFunc, the client whose context it ends, or Nobody,
          stopWatch,  \* stopWatch, the client whose watcher it ends, or Nobody,
          lastReq,    \* whether lastReq is set,
          boundIP,    \* boundIP,
          lastError,  \* and whether lastError tells of a failed client
          run,        \* client -> where the goroutine around Run is
          sock,       \* client -> the address its socket is bound to, NoIP when it has none
          nicAtStart, \* client -> while alive: the NIC's address at its start (history)
          cancelled,  \* clients whose context is cancelled
          watch,      \* client -> where its watcher is
          unwatched,  \* clients whose watcher's context is cancelled
          started,    \* clients started so far
          connects,   \* connections made by the user
          nicIP,      \* the NIC's address, or NoIP
          changes     \* changes of it so far

fields   == <<connected, cancelFunc, stopWatch, lastReq, boundIP, lastError>>
runVars  == <<run, sock, nicAtStart, cancelled>>
watchers == <<watch, unwatched>>
user     == <<started, connects>>
nic      == <<nicIP, changes>>
vars     == <<fields, runVars, watchers, user, nic>>

(* Every client but the user's is started because of a change.             *)
MaxClients == MaxConnects * (MaxChanges + 1)
Client     == 1 .. MaxClients
Nobody     == 0

TypeOK == /\ connected \in BOOLEAN /\ lastReq \in BOOLEAN /\ lastError \in BOOLEAN
          /\ cancelFunc \in Client \cup {Nobody} /\ stopWatch = cancelFunc
          /\ boundIP \in AnyIP
          /\ run \in [Client -> {"none", "starting", "running", "failed", "returned", "ended"}]
          /\ sock \in [Client -> AnyIP] /\ nicAtStart \in [Client -> AnyIP]
          /\ cancelled \subseteq Client
          /\ watch \in [Client -> {"none", "watching", "changed", "waiting", "ended"}]
          /\ unwatched \subseteq Client
          /\ started \in 0 .. MaxClients
          /\ connects \in 0 .. MaxConnects
          /\ nicIP \in AnyIP
          /\ changes \in 0 .. MaxChanges

Init == /\ connected = FALSE /\ cancelFunc = Nobody /\ stopWatch = Nobody
        /\ lastReq = FALSE /\ boundIP = NoIP /\ lastError = FALSE
        /\ run = [c \in Client |-> "none"]
        /\ sock = [c \in Client |-> NoIP] /\ nicAtStart = [c \in Client |-> NoIP]
        /\ cancelled = {}
        /\ watch = [c \in Client |-> "none"]
        /\ unwatched = {}
        /\ started = 0 /\ connects = 0
        /\ nicIP \in AnyIP /\ changes = 0

------------------------------------------------------------------------------
(* The part of connectLocked that cannot fail; w are the watchers it       *)
(* leaves.                                                                 *)
StartClient(w) ==
  /\ started < MaxClients
  /\ LET c == started + 1
     IN  /\ started' = c
         /\ cancelFunc' = c /\ stopWatch' = c
         /\ run' = [run EXCEPT ![c] = "starting"]
         /\ nicAtStart' = [nicAtStart EXCEPT ![c] = nicIP]
         /\ watch' = [w EXCEPT ![c] = "watching"]
  /\ connected' = TRUE /\ lastReq' = TRUE /\ lastError' = FALSE
  /\ boundIP' = nicIP
  /\ UNCHANGED <<sock, cancelled, unwatched, nic>>

(* The configuration is refused, or the client cannot be created.          *)
RefuseClient(w) ==
  /\ lastError' = TRUE
  /\ watch' = w
  /\ UNCHANGED <<connected, cancelFunc, stopWatch, lastReq, boundIP, runVars, unwatched,
                 started, nic>>

(* Fault: a client that is there is replaced.                              *)
ConnectLockedAnyway(w) == StartClient(w) \/ RefuseClient(w)

(* connectLocked after its first test; a second client is refused without  *)
(* any effect.                                                             *)
ConnectLocked(w) == ~connected /\ (StartClient(w) \/ RefuseClient(w))

(* Fault: the client counts as disconnected before it has ended.           *)
DisconnectLockedAtOnce ==
  IF connected
  THEN /\ unwatched' = unwatched \cup ({stopWatch} \ {Nobody})
       /\ cancelled' = cancelled \cup ({cancelFunc} \ {Nobody})
       /\ stopWatch' = Nobody /\ cancelFunc' = Nobody
       /\ connected' = FALSE
  ELSE UNCHANGED <<unwatched, cancelled, stopWatch, cancelFunc, connected>>

(* Fault: the watcher is left to notice by itself.                         *)
DisconnectLockedKeepWatch ==
  /\ IF connected
     THEN cancelled' = cancelled \cup ({cancelFunc} \ {Nobody}) /\ cancelFunc' = Nobody
     ELSE UNCHANGED <<cancelled, cancelFunc>>
  /\ UNCHANGED <<connected, stopWatch, unwatched>>

(* disconnectLocked.                                                       *)
DisconnectLocked ==
  /\ IF connected
     THEN /\ unwatched' = unwatched \cup ({stopWatch} \ {Nobody})
          /\ cancelled' = cancelled \cup ({cancelFunc} \ {Nobody})
          /\ stopWatch' = Nobody /\ cancelFunc' = Nobody
     ELSE UNCHANGED <<unwatched, cancelled, stopWatch, cancelFunc>>
  /\ UNCHANGED connected

Connect ==
  /\ connects < MaxConnects /\ connects' = connects + 1
  /\ ConnectLocked(watch)

Disconnect ==
  /\ DisconnectLocked
  /\ lastReq' = FALSE
  /\ UNCHANGED <<boundIP, lastError, run, sock, nicAtStart, watch, user, nic>>

------------------------------------------------------------------------------
(* The goroutine around Run.                                               *)

(* resolveInterfaceAddr finds the NIC's present address and ListenUDP      *)
(* binds to it, or one of them fails.                                      *)
RunBind(c) ==
  /\ run[c] = "starting"
  /\ \/ /\ nicIP # NoIP
        /\ run' = [run EXCEPT ![c] = "running"]
        /\ sock' = [sock EXCEPT ![c] = nicIP]
     \/ run' = [run EXCEPT ![c] = "failed"] /\ UNCHANGED sock
  /\ UNCHANGED <<fields, nicAtStart, cancelled, watchers, user, nic>>

RunCancelled(c) ==
  /\ run[c] = "running" /\ c \in cancelled
  /\ run' = [run EXCEPT ![c] = "returned"]
  /\ sock' = [sock EXCEPT ![c] = NoIP]
  /\ UNCHANGED <<fields, nicAtStart, cancelled, watchers, user, nic>>

(* The first critical section after Run, if it failed ...                  *)
RunError(c) ==
  /\ run[c] = "failed"
  /\ lastError' = TRUE
  /\ run' = [run EXCEPT ![c] = "returned"]
  /\ UNCHANGED <<connected, cancelFunc, stopWatch, lastReq, boundIP, sock, nicAtStart, cancelled,
                 watchers, user, nic>>

(* ... and the one that clears the fields.                                 *)
RunEnd(c) ==
  /\ run[c] = "returned"
  /\ connected' = FALSE
  /\ run' = [run EXCEPT ![c] = "ended"]
  /\ nicAtStart' = [nicAtStart EXCEPT ![c] = NoIP]
  /\ UNCHANGED <<cancelFunc, stopWatch, lastReq, boundIP, lastError, sock,
                 cancelled, watchers, user, nic>>

------------------------------------------------------------------------------
(* watchNetwork.                                                           *)

(* Fault: an address that is gone is remembered as the one bound to.       *)
WatchTickForgetful(c) ==
  /\ watch[c] = "watching"
  /\ boundIP' = nicIP
  /\ watch' = [watch EXCEPT ![c] =
       CASE ~connected \/ ~lastReq              -> "ended"
         [] nicIP \notin {boundIP, NoIP} /\ boundIP # NoIP -> "changed"
         [] OTHER                               -> "watching"]
  /\ UNCHANGED <<connected, cancelFunc, stopWatch, lastReq, lastError, runVars, unwatched, user, nic>>

(* A tick, even if the context is done as well: the select takes either.   *)
WatchTick(c) ==
  /\ watch[c] = "watching"
  /\ watch' = [watch EXCEPT ![c] =
       CASE ~connected \/ ~lastReq    -> "ended"
         [] nicIP \in {boundIP, NoIP} -> "watching"
         [] OTHER                     -> "changed"]
  /\ UNCHANGED <<fields, runVars, unwatched, user, nic>>

WatchStopped(c) ==
  /\ watch[c] = "watching" /\ c \in unwatched
  /\ watch' = [watch EXCEPT ![c] = "ended"]
  /\ UNCHANGED <<fields, runVars, unwatched, user, nic>>

(* The mutex was released in between.                                      *)
WatchDisconnect(c) ==
  /\ watch[c] = "changed"
  /\ DisconnectLocked
  /\ watch' = [watch EXCEPT ![c] = "waiting"]
  /\ UNCHANGED <<lastReq, boundIP, lastError, run, sock, nicAtStart, user, nic>>

(* Released again until the old client has stopped.                        *)
WatchReconnect(c) ==
  /\ watch[c] = "waiting"
  /\ ConnectLocked([watch EXCEPT ![c] = "ended"])
  /\ UNCHANGED connects

------------------------------------------------------------------------------
(* The NIC goes down, or gets an address, which it may have had before.    *)
NicChange ==
  /\ changes < MaxChanges
  /\ changes' = changes + 1
  /\ nicIP' \in AnyIP \ {nicIP}
  /\ UNCHANGED <<fields, runVars, watchers, user>>

------------------------------------------------------------------------------
ClientGoroutine(c)  == RunBind(c) \/ RunCancelled(c) \/ RunError(c) \/ RunEnd(c)
WatcherGoroutine(c) == WatchTick(c) \/ WatchStopped(c) \/ WatchDisconnect(c) \/ WatchReconnect(c)

Next == \/ Connect \/ Disconnect
        \/ \E c \in Client : ClientGoroutine(c) \/ WatcherGoroutine(c)
        \/ NicChange

Spec == Init /\ [][Next]_vars

(* Goroutines run, the watcher's ticker ticks.                             *)
Fairness == \A c \in Client : /\ WF_vars(ClientGoroutine(c))
                              /\ WF_vars(WatchTick(c))
                              /\ WF_vars(WatchDisconnect(c) \/ WatchReconnect(c))

FairSpec == Spec /\ Fairness

------------------------------------------------------------------------------
(* Properties.                                                             *)

Alive(c) == run[c] \notin {"none", "ended"}

(* Only one client runs at a time, whoever connects, disconnects and       *)
(* reconnects in which order: connected stays set until the goroutine of   *)
(* the last one clears it (connectLocked, watchNetwork).                   *)
OneClientRuns == \A c, d \in Client : Alive(c) /\ Alive(d) => c = d

(* Disconnect and the watchers can stop the client that runs: unless it is *)
(* on its way out already, cancelFunc is its own and connected is set      *)
(* (connectLocked, disconnectLocked, the end of the goroutine).            *)
ClientInReach ==
  \A c \in Client : Alive(c) /\ c \notin cancelled => connected /\ cancelFunc = c

(* In the end the NIC has an address, and the user neither disconnects nor *)
(* sees an error.                                                          *)
Settled == <>[](lastReq /\ nicIP # NoIP /\ ~lastError)

(* Run found the NIC with the address that the controller had seen just    *)
(* before.                                                                 *)
BoundAsStarted == <>[](\A c \in Client : run[c] = "running" => sock[c] = nicAtStart[c])

(* The client is bound to the address the NIC has in the end, however many *)
(* changes there were, back to earlier addresses too, and whatever was     *)
(* under way (watchNetwork: monitors the bound interface for IP changes    *)
(* and auto-reconnects).  If the address changes while a client starts,    *)
(* and back before the next tick, boundIP is not what it is bound to, and  *)
(* the watcher sees no change.                                             *)
ClientFollowsNic ==
  Settled /\ BoundAsStarted => <>[](\E c \in Client : run[c] = "running" /\ sock[c] = nicIP)

(* After the user has disconnected only the user connects again            *)
(* (controller.go, Disconnect: user-initiated disconnect, don't            *)
(* auto-reconnect).                                                        *)
DisconnectSticks ==
  [][~lastReq /\ started' # started => connects' # connects]_vars

==============================================================================
