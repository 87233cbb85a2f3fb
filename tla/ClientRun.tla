------------------------------ MODULE ClientRun ------------------------------
(***************************************************************************)
(* The life of a client's Run (internal/client/client.go): the goroutines  *)
(* it starts, the TUN device that the first acknowledgement creates, and   *)
(* the shutdown that closes socket and device to wake the goroutines and   *)
(* waits for them.  A program that runs one client after another has       *)
(* several, told apart by their number.                                    *)
(*                                                                         *)
(* Where a device comes from is up to the platform: SetupTUN calls it, and *)
(* Created takes what it returned.  The heartbeat loop blocks on nothing   *)
(* and ends with the context; it is left out, as is what the packets and   *)
(* acknowledgements contain.                                               *)
(***************************************************************************)
EXTENDS Integers, FiniteSets

CONSTANT MaxClients  \* bound: clients the program creates

ASSUME ClientAssumption == MaxClients \in Nat

VARIABLES run,        \* client -> where Run is
          cancelled,  \* the clients whose context is cancelled
          registered, \* the clients that had an OK acknowledgement
          recv,       \* client -> where recvLoop is
          tun,        \* client -> where tunReadLoop is
          tunDev,     \* client -> its device: which one, and open or closed
          tunReady    \* the clients whose tunReady is closed

clientVars == <<run, cancelled, registered, recv, tun, tunDev, tunReady>>

Client == 1 .. MaxClients
Nobody == 0

(* A device bears the number of the client it was made for.                *)
NoDevice == [of |-> Nobody, open |-> FALSE]
Device   == [of : Client \cup {Nobody}, open : BOOLEAN]

(* c.tunDev != nil *)
HasDevice(c) == tunDev[c] # NoDevice

ClientTypeOK ==
  /\ run \in [Client -> {"none", "running", "closing", "waiting", "returned", "exited"}]
  /\ cancelled \subseteq Client
  /\ registered \subseteq Client
  /\ recv \in [Client -> {"none", "read", "setup", "create", "signal", "ended"}]
  /\ tun \in [Client -> {"none", "check", "wait", "test", "head", "read", "ended"}]
  /\ tunDev \in [Client -> Device]
  /\ tunReady \subseteq Client
  /\ \A c \in Client : tun[c] \in {"head", "read"} => HasDevice(c)  \* nil is not read

ClientInit == /\ run = [c \in Client |-> "none"]
              /\ cancelled = {} /\ registered = {} /\ tunReady = {}
              /\ recv = [c \in Client |-> "none"]
              /\ tun = [c \in Client |-> "none"]
              /\ tunDev = [c \in Client |-> NoDevice]

------------------------------------------------------------------------------
(* Run.                                                                    *)

(* The goroutines start and Run waits for the end of the context.          *)
RunStart(c) ==
  /\ run[c] = "none"
  /\ run' = [run EXCEPT ![c] = "running"]
  /\ recv' = [recv EXCEPT ![c] = "read"]
  /\ tun' = [tun EXCEPT ![c] = "check"]
  /\ UNCHANGED <<cancelled, registered, tunDev, tunReady>>

(* The context is done: the socket is closed.                              *)
RunClose(c) ==
  /\ run[c] = "running" /\ c \in cancelled
  /\ run' = [run EXCEPT ![c] = "closing"]
  /\ UNCHANGED <<cancelled, registered, recv, tun, tunDev, tunReady>>

(* Fault: the device is left open.                                         *)
RunCloseSocketOnly(c) ==
  /\ run[c] = "closing"
  /\ run' = [run EXCEPT ![c] = "waiting"]
  /\ UNCHANGED <<cancelled, registered, recv, tun, tunDev, tunReady>>

(* A device that exists by now is closed.                                  *)
RunCloseTUN(c) ==
  /\ run[c] = "closing"
  /\ tunDev' = [tunDev EXCEPT ![c].open = FALSE]
  /\ run' = [run EXCEPT ![c] = "waiting"]
  /\ UNCHANGED <<cancelled, registered, recv, tun, tunReady>>

(* wg.Wait returns.                                                        *)
RunReturn(c) ==
  /\ run[c] = "waiting"
  /\ recv[c] = "ended" /\ tun[c] = "ended"
  /\ run' = [run EXCEPT ![c] = "returned"]
  /\ UNCHANGED <<cancelled, registered, recv, tun, tunDev, tunReady>>

------------------------------------------------------------------------------
(* recvLoop and handleHeartbeatAck.                                        *)

(* The first OK acknowledgement sets the device up.  Others only change    *)
(* the address, and refusals are logged.                                   *)
ReceiveAck(c) ==
  /\ recv[c] = "read" /\ run[c] = "running"
  /\ c \notin registered
  /\ registered' = registered \cup {c}
  /\ recv' = [recv EXCEPT ![c] = IF HasDevice(c) THEN "read" ELSE "setup"]
  /\ UNCHANGED <<run, cancelled, tun, tunDev, tunReady>>

(* setupTUN calls the platform's CreateTUN ...                             *)
SetupTUN(c) ==
  /\ recv[c] = "setup"
  /\ recv' = [recv EXCEPT ![c] = "create"]
  /\ UNCHANGED <<run, cancelled, registered, tun, tunDev, tunReady>>

(* ... which returns a device, or an error and NoDevice.                   *)
Created(c, d) ==
  /\ recv[c] = "create"
  /\ tunDev' = [tunDev EXCEPT ![c] = d]
  /\ recv' = [recv EXCEPT ![c] = "signal"]
  /\ UNCHANGED <<run, cancelled, registered, tun, tunReady>>

Signal(c) ==
  /\ recv[c] = "signal"
  /\ tunReady' = tunReady \cup {c}
  /\ recv' = [recv EXCEPT ![c] = "read"]
  /\ UNCHANGED <<run, cancelled, registered, tun, tunDev>>

(* The loop finds the context done, or reading from the closed socket      *)
(* fails.                                                                  *)
ReceiveEnd(c) ==
  /\ recv[c] = "read" /\ c \in cancelled
  /\ recv' = [recv EXCEPT ![c] = "ended"]
  /\ UNCHANGED <<run, cancelled, registered, tun, tunDev, tunReady>>

------------------------------------------------------------------------------
(* tunReadLoop.                                                            *)

TunStep(c, from, to) == /\ tun[c] = from
                        /\ tun' = [tun EXCEPT ![c] = to]
                        /\ UNCHANGED <<run, cancelled, registered, recv, tunDev, tunReady>>

(* Fault: the loop does not wait for the device.                           *)
TunCheckNoWait(c) == TunStep(c, "check", IF HasDevice(c) THEN "head" ELSE "ended")

TunCheck(c)  == TunStep(c, "check", IF HasDevice(c) THEN "head" ELSE "wait")

(* The select: if both are ready either is taken.                          *)
TunWake(c)   == \/ c \in tunReady /\ TunStep(c, "wait", "test")
                \/ c \in cancelled /\ TunStep(c, "wait", "ended")

(* Fault: the error of setupTUN is forgotten.                              *)
TunTestNothing(c) == TunStep(c, "test", "head")

TunTest(c)   == TunStep(c, "test", IF HasDevice(c) THEN "head" ELSE "ended")

TunHead(c)   == TunStep(c, "head", IF c \in cancelled THEN "ended" ELSE "read")

(* A packet is read and sent.                                              *)
TunPacket(c) == tunDev[c].open /\ TunStep(c, "read", "head")

(* Read fails: nothing is read from a closed device.                       *)
TunError(c)  == ~tunDev[c].open /\ TunStep(c, "read", IF c \in cancelled THEN "ended" ELSE "head")

------------------------------------------------------------------------------
Shutdown(c)    == RunClose(c) \/ RunCloseTUN(c) \/ RunReturn(c)
TunReadLoop(c) == TunCheck(c) \/ TunWake(c) \/ TunTest(c) \/ TunHead(c) \/ TunError(c)

==============================================================================
