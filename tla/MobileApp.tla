------------------------------ MODULE MobileApp ------------------------------
(***************************************************************************)
(* The Android binding (mobile/mobile.go, tunnel/tun_android.go) around    *)
(* ClientRun: Start and Stop, the goroutine that runs a client and clears  *)
(* the package's variables when it ends, the goroutine that reports the    *)
(* status, and the channel through which the app hands over the device     *)
(* that VpnService made.  The app itself is not part of the repository: it *)
(* calls Start and Stop in any order, a Start after the end of another,    *)
(* whether or not the client it stopped has ended, and it answers every    *)
(* request for a device once.                                              *)
(***************************************************************************)
EXTENDS ClientRun

CONSTANT Refuses     \* the app may answer a request with an invalid descriptor

ASSUME MobileAssumption == Refuses \in BOOLEAN

VARIABLES running,   \* the package's running,
          cli,       \* cli, a client or Nobody for nil,
          cancel,    \* cancel, the client whose context it ends, or Nobody,
          callback,  \* and whether callback is set
          start,     \* where a call of Start is
          created,   \* clients created so far
          requests,  \* the clients whose OnTunRequest the app has not answered
          fdCh,      \* the descriptor in androidTun.fdCh, or Empty
          last       \* client -> what its status goroutine told the app last

mobileVars == <<running, cli, cancel, callback>>
appVars    == <<requests, fdCh>>
vars       == <<clientVars, mobileVars, start, created, appVars, last>>

Empty == [of |-> Nobody, valid |-> FALSE]

TypeOK == /\ ClientTypeOK
          /\ running \in BOOLEAN /\ callback \in BOOLEAN
          /\ cli \in Client \cup {Nobody} /\ cancel \in Client \cup {Nobody}
          /\ start \in {"idle", "checked", "published"}
          /\ created \in 0 .. MaxClients
          /\ requests \subseteq Client
          /\ fdCh \in [of : Client \cup {Nobody}, valid : BOOLEAN]
          /\ last \in [Client -> BOOLEAN]

Init == /\ ClientInit
        /\ running = FALSE /\ cli = Nobody /\ cancel = Nobody /\ callback = FALSE
        /\ start = "idle" /\ created = 0
        /\ requests = {} /\ fdCh = Empty
        /\ last = [c \in Client |-> FALSE]

------------------------------------------------------------------------------
(* Start and Stop.                                                         *)

(* Start's first critical section: while running it does nothing.          *)
StartCheck ==
  /\ start = "idle" /\ ~running
  /\ created < MaxClients
  /\ start' = "checked"
  /\ UNCHANGED <<clientVars, mobileVars, created, appVars, last>>

(* The server's address does not resolve, or there is no socket.           *)
StartFail ==
  /\ start = "checked"
  /\ start' = "idle"
  /\ UNCHANGED <<clientVars, mobileVars, created, appVars, last>>

(* Its second one, for the client and the socket created in between.       *)
StartPublish ==
  /\ start = "checked"
  /\ created' = created + 1
  /\ running' = TRUE /\ cli' = created + 1 /\ cancel' = created + 1 /\ callback' = TRUE
  /\ start' = "published"
  /\ UNCHANGED <<clientVars, appVars, last>>

(* The goroutines are started.                                             *)
StartRun ==
  /\ start = "published"
  /\ RunStart(created)
  /\ start' = "idle"
  /\ UNCHANGED <<mobileVars, created, appVars, last>>

Stop ==
  /\ cancelled' = cancelled \cup ({cancel} \ {Nobody})
  /\ cancel' = Nobody /\ running' = FALSE /\ callback' = FALSE
  /\ UNCHANGED <<run, registered, recv, tun, tunDev, tunReady,
                 cli, start, created, appVars, last>>

(* Fault: cancel is cleared as well.                                       *)
RunExitClearsCancel(c) ==
  /\ run[c] = "returned"
  /\ run' = [run EXCEPT ![c] = "exited"]
  /\ running' = FALSE /\ cli' = Nobody /\ cancel' = Nobody
  /\ UNCHANGED <<cancelled, registered, recv, tun, tunDev, tunReady,
                 callback, start, created, appVars, last>>

(* The goroutine around Run ends, and clears what may be another's.        *)
RunExit(c) ==
  /\ run[c] = "returned"
  /\ run' = [run EXCEPT ![c] = "exited"]
  /\ running' = FALSE /\ cli' = Nobody
  /\ UNCHANGED <<cancelled, registered, recv, tun, tunDev, tunReady,
                 cancel, callback, start, created, appVars, last>>

------------------------------------------------------------------------------
(* createPlatformTUN.                                                      *)

(* The callback asks the app for a device, in any case.  Before, the app   *)
(* protects the socket of cli if cli has an open one, which changes        *)
(* nothing here.                                                           *)
RequestTUN(c) ==
  /\ SetupTUN(c)
  /\ requests' = requests \cup {c}
  /\ UNCHANGED <<mobileVars, start, created, fdCh, last>>

(* The app answers one of its requests with SetTunFD, which would block    *)
(* while fdCh is full.                                                     *)
SetTunFD(c, valid) ==
  /\ c \in requests /\ fdCh = Empty
  /\ valid \/ Refuses
  /\ requests' = requests \ {c}
  /\ fdCh' = [of |-> c, valid |-> valid]
  /\ UNCHANGED <<clientVars, mobileVars, start, created, last>>

(* Fault: the descriptor stays where the next one finds it.                *)
TakeFDKept(c) ==
  /\ fdCh # Empty
  /\ Created(c, IF fdCh.valid THEN [of |-> fdCh.of, open |-> TRUE] ELSE NoDevice)
  /\ UNCHANGED <<mobileVars, start, created, appVars, last>>

(* Whoever waits takes the descriptor.                                     *)
TakeFD(c) ==
  /\ fdCh # Empty
  /\ Created(c, IF fdCh.valid THEN [of |-> fdCh.of, open |-> TRUE] ELSE NoDevice)
  /\ fdCh' = Empty
  /\ UNCHANGED <<mobileVars, start, created, requests, last>>

------------------------------------------------------------------------------
(* Fault: the status is reported while it is unchanged.                    *)
PollUnchanged(c) ==
  /\ run[c] # "none" /\ c \notin cancelled
  /\ cli # Nobody /\ callback
  /\ (cli \in registered) = last[c]
  /\ last' = [last EXCEPT ![c] = cli \in registered]
  /\ UNCHANGED <<clientVars, mobileVars, start, created, appVars>>

(* The status goroutine of c, until c's context is done: it reports what   *)
(* it finds in cli if it differs from its own last report.                 *)
Poll(c) ==
  /\ run[c] # "none" /\ c \notin cancelled
  /\ cli # Nobody /\ callback
  /\ (cli \in registered) # last[c]
  /\ last' = [last EXCEPT ![c] = cli \in registered]
  /\ UNCHANGED <<clientVars, mobileVars, start, created, appVars>>

------------------------------------------------------------------------------
others == <<mobileVars, start, created, appVars, last>>

Inside(c) == /\ \/ Shutdown(c) \/ TunReadLoop(c)
                \/ Signal(c) \/ ReceiveEnd(c)
             /\ UNCHANGED others

Traffic(c) == (ReceiveAck(c) \/ TunPacket(c)) /\ UNCHANGED others

Next == \/ StartCheck \/ StartFail \/ StartPublish \/ StartRun \/ Stop
        \/ \E c \in Client :
             \/ Inside(c) \/ Traffic(c) \/ RunExit(c)
             \/ RequestTUN(c) \/ TakeFD(c) \/ Poll(c)
             \/ \E valid \in BOOLEAN : SetTunFD(c, valid)

Spec == Init /\ [][Next]_vars

(* The goroutine around Run, and recvLoop.                                 *)
Running(c)   == (Shutdown(c) /\ UNCHANGED others) \/ RunExit(c)
Receiving(c) == ((Signal(c) \/ ReceiveEnd(c)) /\ UNCHANGED others) \/ RequestTUN(c) \/ TakeFD(c)

(* Goroutines run, and the app answers every request it is sent.           *)
Fairness ==
  /\ \A c \in Client : /\ WF_vars(Running(c)) /\ WF_vars(Receiving(c))
                       /\ WF_vars(TunReadLoop(c) /\ UNCHANGED others)
                       /\ WF_vars(Poll(c))
  /\ WF_vars(\E c \in Client, valid \in BOOLEAN : SetTunFD(c, valid))

FairSpec == Spec /\ Fairness

------------------------------------------------------------------------------
(* Properties.                                                             *)

(* The client started last can always be stopped: the goroutine around an  *)
(* earlier client's Run, which clears running and cli whatever they belong *)
(* to by then, leaves it cancel (Start, Stop).                             *)
StopReachesNewest == created > 0 /\ created \notin cancelled => cancel = created

(* No descriptor goes to two clients, each of which would read from it and *)
(* close it, although several may wait for one and whoever waits takes the *)
(* next (SetTunFD, the channel of capacity one, Close).                    *)
DevicesNotShared ==
  \A c, d \in Client : HasDevice(c) /\ c # d => tunDev[c].of # tunDev[d].of

(* A client that is stopped ends, whether it waits for an acknowledgement, *)
(* a packet, or a device that another client may take before it, provided  *)
(* the app answers (Run's shutdown).                                       *)
ClientsEnd ==
  \A c \in Client : (run[c] = "running" /\ c \in cancelled) ~> run[c] = "exited"

(* A registered client carries traffic, unless it is stopped or the app    *)
(* refuses the device (handleHeartbeatAck, tunReady, tunReadLoop).         *)
TrafficStarts ==
  \A c \in Client :
    c \in registered ~> \/ tun[c] = "read" \/ c \in cancelled
                        \/ recv[c] = "read" /\ ~HasDevice(c)

(* The app learns from a client's status goroutine that the client is      *)
(* connected, unless the client is stopped or cli is no longer its own:    *)
(* the end of an earlier client clears cli, and another Start replaces it. *)
AppIsTold ==
  \A c \in Client : cli = c /\ c \in registered ~> last[c] \/ c \in cancelled \/ cli # c

==============================================================================
