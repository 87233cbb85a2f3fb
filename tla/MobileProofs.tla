----------------------------- MODULE MobileProofs -----------------------------
(***************************************************************************)
(* Proofs about the mobile binding and the clients it runs, for any number *)
(* of clients and any order in which the app calls Start and Stop: type    *)
(* correctness, that Stop reaches the client started last, and that no      *)
(* descriptor goes to two clients.                                         *)
(***************************************************************************)
EXTENDS MobileApp, TLAPS

------------------------------------------------------------------------------
(* Type correctness.                                                       *)

(* TypeOK without the client's part.                                       *)
AppTypeOK == /\ running \in BOOLEAN /\ callback \in BOOLEAN
             /\ cli \in Client \cup {Nobody} /\ cancel \in Client \cup {Nobody}
             /\ start \in {"idle", "checked", "published"}
             /\ created \in 0 .. MaxClients
             /\ requests \subseteq Client
             /\ fdCh \in [of : Client \cup {Nobody}, valid : BOOLEAN]
             /\ last \in [Client -> BOOLEAN]

(* Start creates the clients in order, and has one to run.                 *)
StartHasClient == /\ start = "checked" => created < MaxClients
                  /\ start = "published" => created \in Client

(* That tunReadLoop never reads a nil device needs more than types: a      *)
(* device is made only where there is none, and closing one does not make  *)
(* it nil, because it bears the number of a client.                        *)
DevicesHaveOwners ==
  /\ \A c \in Client : tunDev[c].open => tunDev[c].of # Nobody
  /\ \A c \in Client : recv[c] \in {"setup", "create"} => ~HasDevice(c)

FdHasOwner == fdCh.valid => fdCh.of # Nobody

ClientInv == ClientTypeOK /\ DevicesHaveOwners
AppInv    == AppTypeOK /\ StartHasClient /\ FdHasOwner
TypeInv   == ClientInv /\ AppInv

LEMMA TypeInvTypeOK == TypeInv => TypeOK
  BY DEF TypeInv, ClientInv, AppInv, AppTypeOK, TypeOK

LEMMA ClientNumbers == /\ Nobody \notin Client /\ MaxClients \in Nat /\ 0 \in 0 .. MaxClients
                       /\ \A k \in 0 .. MaxClients :
                            k < MaxClients => k + 1 \in Client /\ k + 1 \in 0 .. MaxClients
  BY ClientAssumption DEF Nobody, Client

LEMMA DeviceType == NoDevice \in Device /\ Empty \in [of : Client \cup {Nobody}, valid : BOOLEAN]
  BY DEF NoDevice, Device, Empty

LEMMA InitTypeInv == Init => TypeInv
<1> SUFFICES ASSUME Init PROVE TypeInv
  OBVIOUS
<1>1. ClientInv
  BY DeviceType DEF Init, ClientInit, ClientInv, ClientTypeOK, DevicesHaveOwners, NoDevice, HasDevice
<1>2. AppTypeOK
  BY DeviceType, ClientNumbers DEF Init, AppTypeOK
<1>3. StartHasClient /\ FdHasOwner
  BY DEF Init, StartHasClient, FdHasOwner, Empty
<1> QED BY <1>1, <1>2, <1>3 DEF TypeInv, AppInv

(* The client's goroutines, one lemma each.                                *)

LEMMA RunStepsType ==
  ASSUME ClientInv, NEW c \in Client, RunStart(c) \/ Shutdown(c)
  PROVE  ClientInv'
<1> USE DEF ClientInv, ClientTypeOK, DevicesHaveOwners, HasDevice
<1>1. CASE RunStart(c)
  BY <1>1 DEF RunStart
<1>2. CASE RunClose(c)
  BY <1>2 DEF RunClose
<1>3. CASE RunCloseTUN(c)
  <2>1. /\ tunDev' \in [Client -> Device]
        /\ \A d \in Client \ {c} : tunDev'[d] = tunDev[d]
        /\ tunDev'[c] = [of |-> tunDev[c].of, open |-> FALSE]
    BY <1>3 DEF RunCloseTUN, Device
  <2>2. HasDevice(c) => HasDevice(c)'
    BY <2>1 DEF NoDevice, Device
  <2>3. ~HasDevice(c) => ~HasDevice(c)'
    <3>1. NoDevice.of = Nobody
      BY DEF NoDevice
    <3> QED BY <2>1, <3>1 DEF NoDevice
  <2>4. \A d \in Client : HasDevice(d)' <=> HasDevice(d)
    BY <2>1, <2>2, <2>3
  <2>5. UNCHANGED <<cancelled, registered, recv, tun, tunReady>> /\ run' = [run EXCEPT ![c] = "waiting"]
    BY <1>3 DEF RunCloseTUN
  <2> HIDE DEF HasDevice
  <2> QED BY <2>1, <2>4, <2>5
<1>4. CASE RunReturn(c)
  BY <1>4 DEF RunReturn
<1> QED BY <1>1, <1>2, <1>3, <1>4 DEF Shutdown

LEMMA ReceiveStepsType ==
  ASSUME ClientInv, NEW c \in Client,
         ReceiveAck(c) \/ SetupTUN(c) \/ Signal(c) \/ ReceiveEnd(c)
  PROVE  ClientInv'
<1> USE DEF ClientInv, ClientTypeOK, DevicesHaveOwners, HasDevice
<1>1. CASE ReceiveAck(c)
  BY <1>1 DEF ReceiveAck
<1>2. CASE SetupTUN(c)
  BY <1>2 DEF SetupTUN
<1>3. CASE Signal(c) \/ ReceiveEnd(c)
  BY <1>3 DEF Signal, ReceiveEnd
<1> QED BY <1>1, <1>2, <1>3

(* The device comes to a loop that waits for one.                          *)
LEMMA CreatedType ==
  ASSUME ClientInv, NEW c \in Client, NEW d \in Device, d.open => d.of # Nobody, Created(c, d)
  PROVE  ClientInv'
<1>1. ~HasDevice(c) /\ tun[c] \notin {"head", "read"}
  BY DEF ClientInv, ClientTypeOK, DevicesHaveOwners, Created
<1> QED BY <1>1 DEF ClientInv, ClientTypeOK, DevicesHaveOwners, HasDevice, Created

LEMMA TunStepsType ==
  ASSUME ClientInv, NEW c \in Client, TunReadLoop(c) \/ TunPacket(c)
  PROVE  ClientInv'
<1> USE DEF ClientInv, ClientTypeOK, DevicesHaveOwners, HasDevice, TunStep
<1>1. CASE TunCheck(c) \/ TunTest(c)
  BY <1>1 DEF TunCheck, TunTest
<1>2. CASE TunWake(c)
  BY <1>2 DEF TunWake
<1>3. CASE TunHead(c) \/ TunError(c) \/ TunPacket(c)
  BY <1>3 DEF TunHead, TunError, TunPacket
<1> QED BY <1>1, <1>2, <1>3 DEF TunReadLoop

(* The binding's own steps.                                                *)

LEMMA StartStopType ==
  ASSUME TypeInv, StartCheck \/ StartFail \/ StartPublish \/ StartRun \/ Stop
  PROVE  TypeInv'
<1> USE DEF TypeInv, AppInv, AppTypeOK, StartHasClient, FdHasOwner
<1>1. CASE StartCheck \/ StartFail \/ StartPublish
  <2>1. ClientInv'
    BY <1>1 DEF StartCheck, StartFail, StartPublish, clientVars, ClientInv, ClientTypeOK, DevicesHaveOwners, HasDevice
  <2>2. AppInv'
    BY <1>1, ClientNumbers DEF StartCheck, StartFail, StartPublish, clientVars, mobileVars, appVars
  <2> QED BY <2>1, <2>2
<1>2. CASE StartRun
  <2>1. ClientInv'
    BY <1>2, RunStepsType DEF StartRun
  <2> QED BY <1>2, <2>1 DEF StartRun, mobileVars, appVars
<1>3. CASE Stop
  <2>1. ClientInv'
    BY <1>3 DEF Stop, ClientInv, ClientTypeOK, DevicesHaveOwners, HasDevice
  <2>2. AppInv'
    BY <1>3 DEF Stop, appVars
  <2> QED BY <2>1, <2>2
<1> QED BY <1>1, <1>2, <1>3

LEMMA TunHandoverType ==
  ASSUME TypeInv, NEW c \in Client,
         RequestTUN(c) \/ TakeFD(c) \/ \E valid \in BOOLEAN : SetTunFD(c, valid)
  PROVE  TypeInv'
<1> USE DEF TypeInv, AppInv, AppTypeOK, StartHasClient, FdHasOwner
<1>1. CASE RequestTUN(c)
  <2>1. ClientInv'
    BY <1>1, ReceiveStepsType DEF RequestTUN
  <2> QED BY <1>1, <2>1 DEF RequestTUN, mobileVars
<1>2. CASE TakeFD(c)
  <2> DEFINE d == IF fdCh.valid THEN [of |-> fdCh.of, open |-> TRUE] ELSE NoDevice
  <2>1. d \in Device /\ (d.open => d.of # Nobody)
    BY DeviceType DEF Device, NoDevice
  <2>2. Created(c, d)
    BY <1>2 DEF TakeFD
  <2> HIDE DEF d
  <2>3. ClientInv'
    BY <2>1, <2>2, CreatedType
  <2>4. AppInv'
    BY <1>2, DeviceType DEF TakeFD, Empty, mobileVars
  <2> QED BY <2>3, <2>4
<1>3. ASSUME NEW valid \in BOOLEAN, SetTunFD(c, valid) PROVE TypeInv'
  <2>1. ClientInv'
    BY <1>3 DEF SetTunFD, clientVars, ClientInv, ClientTypeOK, DevicesHaveOwners, HasDevice
  <2>2. AppInv'
    BY <1>3, ClientNumbers DEF SetTunFD, clientVars, mobileVars
  <2> QED BY <2>1, <2>2
<1> QED BY <1>1, <1>2, <1>3

LEMMA NextTypeInv == TypeInv /\ [Next]_vars => TypeInv'
<1> SUFFICES ASSUME TypeInv, [Next]_vars PROVE TypeInv'
  OBVIOUS
<1> USE DEF TypeInv
<1>1. ASSUME UNCHANGED others PROVE AppInv'
  BY <1>1 DEF others, mobileVars, appVars, AppInv, AppTypeOK, StartHasClient, FdHasOwner
<1>2. ASSUME NEW c \in Client, Inside(c) \/ Traffic(c) PROVE TypeInv'
  BY <1>1, <1>2, RunStepsType, ReceiveStepsType, TunStepsType DEF Inside, Traffic
<1>3. ASSUME NEW c \in Client, RunExit(c) PROVE TypeInv'
  <2>1. ClientInv'
    BY <1>3 DEF RunExit, ClientInv, ClientTypeOK, DevicesHaveOwners, HasDevice
  <2>2. AppInv'
    BY <1>3 DEF RunExit, appVars, AppInv, AppTypeOK, StartHasClient, FdHasOwner
  <2> QED BY <2>1, <2>2
<1>4. ASSUME NEW c \in Client, Poll(c) PROVE TypeInv'
  <2>1. ClientInv'
    BY <1>4 DEF Poll, clientVars, ClientInv, ClientTypeOK, DevicesHaveOwners, HasDevice
  <2>2. AppInv'
    BY <1>4 DEF Poll, mobileVars, appVars, AppInv, AppTypeOK, StartHasClient, FdHasOwner
  <2> QED BY <2>1, <2>2
<1>5. CASE UNCHANGED vars
  <2>1. ClientInv'
    BY <1>5 DEF vars, clientVars, ClientInv, ClientTypeOK, DevicesHaveOwners, HasDevice
  <2> QED BY <1>1, <1>5, <2>1 DEF vars, others
<1> QED BY <1>2, <1>3, <1>4, <1>5, StartStopType, TunHandoverType DEF Next

LEMMA TypeInvariant == Spec => []TypeInv
  BY InitTypeInv, NextTypeInv, PTL DEF Spec

(* Types of the binding and its clients, whatever order the app calls      *)
(* Start and Stop in; in particular tunReadLoop reads only from a device   *)
(* that is there (tunReady, setupTUN).                                     *)
THEOREM MobileTypeCorrect == Spec => []TypeOK
  BY TypeInvariant, TypeInvTypeOK, PTL

------------------------------------------------------------------------------
(* Stop.                                                                   *)

StopInv == TypeInv /\ StopReachesNewest

LEMMA NextStop == StopInv /\ [Next]_vars => StopReachesNewest'
<1> SUFFICES ASSUME StopInv, [Next]_vars PROVE StopReachesNewest'
  OBVIOUS
<1> USE DEF StopInv, StopReachesNewest
<1>1. CASE StartPublish
  BY <1>1 DEF StartPublish
<1>2. CASE Stop
  <2>1. created \in 0 .. MaxClients
    BY DEF TypeInv, AppInv, AppTypeOK
  <2>2. created > 0 => created # Nobody
    BY <2>1 DEF Nobody
  <2> QED BY <1>2, <2>2 DEF Stop
<1>3. ASSUME UNCHANGED <<created, cancelled, cancel>> PROVE StopReachesNewest'
  BY <1>3
<1>4. CASE StartCheck \/ StartFail \/ UNCHANGED vars
  BY <1>3, <1>4 DEF StartCheck, StartFail, vars, clientVars, mobileVars
<1>5. CASE StartRun
  BY <1>3, <1>5 DEF StartRun, RunStart, mobileVars
<1>6. ASSUME NEW c \in Client,
             \/ RunExit(c) \/ Poll(c) \/ RequestTUN(c) \/ TakeFD(c)
             \/ \E valid \in BOOLEAN : SetTunFD(c, valid)
      PROVE  StopReachesNewest'
  BY <1>3, <1>6 DEF RunExit, Poll, RequestTUN, SetupTUN, TakeFD, Created, SetTunFD, clientVars, mobileVars
<1>7. ASSUME NEW c \in Client, Inside(c) \/ Traffic(c) PROVE StopReachesNewest'
  <2>1. UNCHANGED <<created, cancel>>
    BY <1>7 DEF Inside, Traffic, others, mobileVars
  <2>2. UNCHANGED cancelled
    BY <1>7 DEF Inside, Traffic, Shutdown, RunClose, RunCloseTUN, RunReturn, Signal, ReceiveEnd, ReceiveAck,
                TunReadLoop, TunCheck, TunWake, TunTest, TunHead, TunError, TunPacket, TunStep
  <2> QED BY <1>3, <2>1, <2>2
<1> QED BY <1>1, <1>2, <1>4, <1>5, <1>6, <1>7 DEF Next

(* Whatever earlier clients are still ending, Stop cancels the client that *)
(* Start created last (cancel, and the goroutine around Run).              *)
THEOREM StopReachesTheNewest == Spec => []StopReachesNewest
<1>1. Init => StopInv
  BY InitTypeInv DEF Init, StopInv, StopReachesNewest
<1>2. StopInv /\ [Next]_vars => StopInv'
  BY NextTypeInv, NextStop DEF StopInv
<1>3. StopInv => StopReachesNewest
  BY DEF StopInv
<1> QED BY <1>1, <1>2, <1>3, PTL DEF Spec

------------------------------------------------------------------------------
(* Descriptors.                                                            *)

(* A client asks for a device once, after its first acknowledgement.       *)
Asked(c) == c \in registered /\ recv[c] # "setup"

(* Where the descriptor made for client o is: the app has not made it yet, *)
(* it is in the channel, or a client has it, and it is in one place only.  *)
Pending(o) == o \in requests
Offered(o) == fdCh # Empty /\ fdCh.of = o
HeldBy(c, o) == HasDevice(c) /\ tunDev[c].of = o

PlacesInv ==
  \A o \in Client :
    /\ Pending(o) => Asked(o) /\ ~Offered(o)
    /\ Offered(o) => Asked(o)
    /\ \A c \in Client : HeldBy(c, o) => Asked(o) /\ ~Pending(o) /\ ~Offered(o)
    /\ \A c, d \in Client : HeldBy(c, o) /\ HeldBy(d, o) => c = d

(* A device belongs to someone, even when it is closed.                    *)
OwnersInv == \A c \in Client : HasDevice(c) => tunDev[c].of \in Client

(* A client that asks has had its acknowledgement.                         *)
AskersInv == \A c \in Client : recv[c] = "setup" => c \in registered

PlaceInv == TypeInv /\ OwnersInv /\ AskersInv /\ PlacesInv

(* What a step that hands over no descriptor does to the places.           *)
PlacesKept ==
  /\ \A o \in Client : Asked(o) => Asked(o)'
  /\ \A c \in Client : HasDevice(c)' <=> HasDevice(c)
  /\ \A c \in Client : tunDev'[c].of = tunDev[c].of

LEMMA KeptPlaces ==
  ASSUME PlaceInv, PlacesKept, UNCHANGED <<requests, fdCh>>
  PROVE  OwnersInv' /\ PlacesInv'
<1>1. OwnersInv'
  BY DEF PlaceInv, OwnersInv, PlacesKept
<1>2. \A o \in Client : /\ Pending(o)' <=> Pending(o)
                        /\ Offered(o)' <=> Offered(o)
                        /\ \A c \in Client : HeldBy(c, o)' <=> HeldBy(c, o)
  BY DEF PlacesKept, Pending, Offered, HeldBy
<1>3. PlacesInv'
  BY <1>2 DEF PlaceInv, PlacesInv, PlacesKept
<1> QED BY <1>1, <1>3

(* The binding's own steps and the client's leave the places alone.        *)
LEMMA BindingKeepsPlaces ==
  ASSUME PlaceInv,
         \/ StartCheck \/ StartFail \/ StartPublish \/ StartRun \/ Stop
         \/ UNCHANGED vars
         \/ \E c \in Client : RunExit(c) \/ Poll(c)
  PROVE  PlacesKept /\ UNCHANGED <<requests, fdCh>>
<1> USE DEF PlacesKept, Asked, HasDevice
<1>1. CASE StartCheck \/ StartFail \/ StartPublish \/ UNCHANGED vars
  BY <1>1 DEF StartCheck, StartFail, StartPublish, vars, clientVars, appVars
<1>2. CASE StartRun
  BY <1>2 DEF StartRun, RunStart, appVars, PlaceInv, TypeInv, ClientInv, ClientTypeOK
<1>3. CASE Stop
  BY <1>3 DEF Stop, appVars
<1>4. ASSUME NEW c \in Client, RunExit(c) \/ Poll(c)
      PROVE  PlacesKept /\ UNCHANGED <<requests, fdCh>>
  BY <1>4 DEF RunExit, Poll, clientVars, appVars
<1> QED BY <1>1, <1>2, <1>3, <1>4

LEMMA ClientKeepsPlaces ==
  ASSUME PlaceInv, NEW c \in Client, Inside(c) \/ Traffic(c)
  PROVE  PlacesKept /\ UNCHANGED <<requests, fdCh>>
<1>0. UNCHANGED <<requests, fdCh>>
  BY DEF Inside, Traffic, others, appVars
<1>1. recv \in [Client -> {"none", "read", "setup", "create", "signal", "ended"}] /\ tunDev \in [Client -> Device]
  BY DEF PlaceInv, TypeInv, ClientInv, ClientTypeOK
<1>2. CASE RunCloseTUN(c)
  <2>1. /\ \A d \in Client \ {c} : tunDev'[d] = tunDev[d]
        /\ tunDev'[c] = [of |-> tunDev[c].of, open |-> FALSE]
    BY <1>1, <1>2 DEF RunCloseTUN, Device
  <2>2. tunDev'[c].of = tunDev[c].of
    BY <2>1
  <2>3. HasDevice(c)' <=> HasDevice(c)
    <3>1. NoDevice = [of |-> Nobody, open |-> FALSE] /\ NoDevice.of = Nobody
      BY DEF NoDevice
    <3>2. CASE HasDevice(c)
      <4>1. tunDev[c].of # Nobody
        BY <3>2, ClientNumbers DEF PlaceInv, OwnersInv
      <4> QED BY <2>2, <3>1, <3>2, <4>1 DEF HasDevice
    <3>3. CASE ~HasDevice(c)
      <4>1. tunDev[c].of = Nobody
        BY <3>1, <3>3 DEF HasDevice
      <4> QED BY <2>1, <3>1, <3>3, <4>1 DEF HasDevice
    <3> QED BY <3>2, <3>3
  <2>4. \A o \in Client : Asked(o) => Asked(o)'
    BY <1>2 DEF RunCloseTUN, Asked
  <2>5. \A d \in Client : HasDevice(d)' <=> HasDevice(d)
    BY <2>1, <2>3 DEF HasDevice
  <2>6. \A d \in Client : tunDev'[d].of = tunDev[d].of
    BY <2>1, <2>2
  <2> QED BY <1>0, <2>4, <2>5, <2>6 DEF PlacesKept
<1>3. CASE RunClose(c) \/ RunReturn(c) \/ TunReadLoop(c) \/ TunPacket(c)
  BY <1>0, <1>3 DEF PlacesKept, Asked, HasDevice, RunClose, RunReturn, TunReadLoop,
                    TunCheck, TunWake, TunTest, TunHead, TunError, TunPacket, TunStep
<1>4. CASE Signal(c) \/ ReceiveEnd(c) \/ ReceiveAck(c)
  BY <1>0, <1>1, <1>4 DEF PlacesKept, Asked, HasDevice, Signal, ReceiveEnd, ReceiveAck
<1> QED BY <1>2, <1>3, <1>4 DEF Inside, Traffic, Shutdown

(* A client asks: its descriptor was nowhere before.                       *)
LEMMA RequestPlaces ==
  ASSUME PlaceInv, NEW c \in Client, RequestTUN(c)
  PROVE  OwnersInv' /\ PlacesInv'
<1>1. recv[c] = "setup" /\ recv' = [recv EXCEPT ![c] = "create"] /\ UNCHANGED <<registered, tunDev, fdCh>>
  BY DEF RequestTUN, SetupTUN
<1>2. requests' = requests \cup {c}
  BY DEF RequestTUN
<1>3. recv \in [Client -> {"none", "read", "setup", "create", "signal", "ended"}]
  BY DEF PlaceInv, TypeInv, ClientInv, ClientTypeOK
<1>4. c \in registered
  BY <1>1 DEF PlaceInv, AskersInv
<1>5. /\ Asked(c)' /\ ~Asked(c)
      /\ \A o \in Client \ {c} : Asked(o)' <=> Asked(o)
  BY <1>1, <1>3, <1>4 DEF Asked
<1>6. \A o \in Client : /\ Pending(o)' <=> Pending(o) \/ o = c
                        /\ Offered(o)' <=> Offered(o)
                        /\ \A d \in Client : HeldBy(d, o)' <=> HeldBy(d, o)
  BY <1>1, <1>2 DEF Pending, Offered, HeldBy, HasDevice
<1>7. ~Offered(c) /\ \A d \in Client : ~HeldBy(d, c)
  BY <1>5 DEF PlaceInv, PlacesInv
<1>8. PlacesInv'
  BY <1>5, <1>6, <1>7 DEF PlaceInv, PlacesInv
<1> QED BY <1>1, <1>8 DEF PlaceInv, OwnersInv, HasDevice

(* The app answers: the descriptor goes from the request to the channel.   *)
LEMMA AnswerPlaces ==
  ASSUME PlaceInv, NEW c \in Client, NEW valid \in BOOLEAN, SetTunFD(c, valid)
  PROVE  OwnersInv' /\ PlacesInv'
<1>1. /\ c \in requests /\ requests' = requests \ {c}
      /\ fdCh = Empty /\ fdCh' = [of |-> c, valid |-> valid]
      /\ UNCHANGED <<recv, registered, tunDev>>
  BY DEF SetTunFD, clientVars
<1>2. fdCh' # Empty /\ fdCh'.of = c
  <2>1. Empty.of = Nobody
    BY DEF Empty
  <2> QED BY <1>1, <2>1, ClientNumbers
<1>3. \A o \in Client : /\ Pending(o)' <=> Pending(o) /\ o # c
                        /\ Offered(o)' <=> o = c
                        /\ \A d \in Client : HeldBy(d, o)' <=> HeldBy(d, o)
                        /\ Asked(o)' <=> Asked(o)
  BY <1>1, <1>2 DEF Pending, Offered, HeldBy, HasDevice, Asked
<1>4. Pending(c)
  BY <1>1 DEF Pending
<1>5. PlacesInv'
  BY <1>3, <1>4 DEF PlaceInv, PlacesInv
<1> QED BY <1>1, <1>5 DEF PlaceInv, OwnersInv, HasDevice

(* Whoever waits takes it out of the channel, and had none.                *)
LEMMA TakePlaces ==
  ASSUME PlaceInv, NEW c \in Client, TakeFD(c)
  PROVE  OwnersInv' /\ PlacesInv'
<1> DEFINE dev == IF fdCh.valid THEN [of |-> fdCh.of, open |-> TRUE] ELSE NoDevice
<1>1. /\ fdCh # Empty /\ fdCh' = Empty /\ UNCHANGED <<registered, requests>>
      /\ recv[c] = "create" /\ recv' = [recv EXCEPT ![c] = "signal"]
      /\ tunDev' = [tunDev EXCEPT ![c] = dev]
  BY DEF TakeFD, Created
<1>2. recv \in [Client -> {"none", "read", "setup", "create", "signal", "ended"}] /\ tunDev \in [Client -> Device]
  BY DEF PlaceInv, TypeInv, ClientInv, ClientTypeOK
<1>3. \A o \in Client : Asked(o)' <=> Asked(o)
  BY <1>1, <1>2 DEF Asked
<1>4. dev # NoDevice => dev.of = fdCh.of /\ fdCh.of \in Client
  <2>1. CASE fdCh.valid
    <3>1. fdCh.of \in Client
      BY <2>1 DEF PlaceInv, TypeInv, AppInv, AppTypeOK, FdHasOwner
    <3> QED BY <2>1, <3>1
  <2>2. CASE ~fdCh.valid
    BY <2>2
  <2> QED BY <2>1, <2>2
<1>5. tunDev'[c] = dev /\ \A d \in Client \ {c} : tunDev'[d] = tunDev[d]
  BY <1>1, <1>2
<1> HIDE DEF dev
<1>6. \A o \in Client : HeldBy(c, o)' => Offered(o)
  BY <1>1, <1>4, <1>5 DEF HeldBy, HasDevice, Offered
<1>7. \A o \in Client : \A d \in Client \ {c} : HeldBy(d, o)' <=> HeldBy(d, o)
  BY <1>5 DEF HeldBy, HasDevice
<1>8. \A o \in Client : (Pending(o)' <=> Pending(o)) /\ ~Offered(o)'
  BY <1>1 DEF Pending, Offered
<1>9. PlacesInv'
  <2> SUFFICES ASSUME NEW o \in Client
               PROVE  /\ Pending(o)' => Asked(o)' /\ ~Offered(o)'
                      /\ Offered(o)' => Asked(o)'
                      /\ \A d \in Client : HeldBy(d, o)' => Asked(o)' /\ ~Pending(o)' /\ ~Offered(o)'
                      /\ \A d, e \in Client : HeldBy(d, o)' /\ HeldBy(e, o)' => d = e
    BY DEF PlacesInv
  <2>1. /\ Pending(o) => Asked(o) /\ ~Offered(o)
        /\ Offered(o) => Asked(o)
        /\ \A d \in Client : HeldBy(d, o) => Asked(o) /\ ~Pending(o) /\ ~Offered(o)
        /\ \A d, e \in Client : HeldBy(d, o) /\ HeldBy(e, o) => d = e
    BY DEF PlaceInv, PlacesInv
  <2>2. CASE HeldBy(c, o)'
    <3>1. Offered(o) /\ Asked(o) /\ ~Pending(o)
      BY <1>6, <2>1, <2>2
    <3>2. \A d \in Client \ {c} : ~HeldBy(d, o)'
      BY <1>7, <2>1, <3>1
    <3> QED BY <1>3, <1>8, <3>1, <3>2
  <2>3. CASE ~HeldBy(c, o)'
    <3>1. \A d \in Client : HeldBy(d, o)' => HeldBy(d, o)
      BY <1>7, <2>3
    <3> QED BY <1>3, <1>8, <2>1, <3>1
  <2> QED BY <2>2, <2>3
<1>10. OwnersInv'
  BY <1>4, <1>5 DEF PlaceInv, OwnersInv, HasDevice
<1> QED BY <1>9, <1>10

LEMMA NextAskers == PlaceInv /\ [Next]_vars => AskersInv'
<1> SUFFICES ASSUME PlaceInv, [Next]_vars PROVE AskersInv'
  OBVIOUS
<1>0. /\ recv \in [Client -> {"none", "read", "setup", "create", "signal", "ended"}]
      /\ AskersInv
  BY DEF PlaceInv, TypeInv, ClientInv, ClientTypeOK
<1> USE DEF AskersInv
<1>1. CASE StartCheck \/ StartFail \/ StartPublish \/ Stop \/ UNCHANGED vars
  BY <1>0, <1>1 DEF StartCheck, StartFail, StartPublish, Stop, vars, clientVars
<1>2. CASE StartRun
  BY <1>0, <1>2 DEF StartRun, RunStart
<1>3. ASSUME NEW c \in Client, RunExit(c) \/ Poll(c) \/ \E valid \in BOOLEAN : SetTunFD(c, valid)
      PROVE  AskersInv'
  BY <1>0, <1>3 DEF RunExit, Poll, SetTunFD, clientVars
<1>4. ASSUME NEW c \in Client, RequestTUN(c) \/ TakeFD(c) PROVE AskersInv'
  BY <1>0, <1>4 DEF RequestTUN, SetupTUN, TakeFD, Created
<1>5. ASSUME NEW c \in Client, Inside(c) \/ Traffic(c) PROVE AskersInv'
  <2>1. CASE Shutdown(c) \/ TunReadLoop(c) \/ TunPacket(c)
    BY <1>0, <2>1 DEF Shutdown, RunClose, RunCloseTUN, RunReturn, TunReadLoop,
                      TunCheck, TunWake, TunTest, TunHead, TunError, TunPacket, TunStep
  <2>2. CASE Signal(c) \/ ReceiveEnd(c) \/ ReceiveAck(c)
    BY <1>0, <2>2 DEF Signal, ReceiveEnd, ReceiveAck
  <2> QED BY <1>5, <2>1, <2>2 DEF Inside, Traffic
<1> QED BY <1>1, <1>2, <1>3, <1>4, <1>5 DEF Next

LEMMA NextPlaces == PlaceInv /\ [Next]_vars => OwnersInv' /\ PlacesInv'
<1> SUFFICES ASSUME PlaceInv, [Next]_vars PROVE OwnersInv' /\ PlacesInv'
  OBVIOUS
<1>1. CASE StartCheck \/ StartFail \/ StartPublish \/ StartRun \/ Stop \/ UNCHANGED vars
  BY <1>1, BindingKeepsPlaces, KeptPlaces
<1>2. ASSUME NEW c \in Client, RunExit(c) \/ Poll(c) PROVE OwnersInv' /\ PlacesInv'
  BY <1>2, BindingKeepsPlaces, KeptPlaces
<1>3. ASSUME NEW c \in Client, Inside(c) \/ Traffic(c) PROVE OwnersInv' /\ PlacesInv'
  BY <1>3, ClientKeepsPlaces, KeptPlaces
<1>4. ASSUME NEW c \in Client, RequestTUN(c) \/ TakeFD(c) PROVE OwnersInv' /\ PlacesInv'
  BY <1>4, RequestPlaces, TakePlaces
<1>5. ASSUME NEW c \in Client, NEW valid \in BOOLEAN, SetTunFD(c, valid) PROVE OwnersInv' /\ PlacesInv'
  BY <1>5, AnswerPlaces
<1> QED BY <1>1, <1>2, <1>3, <1>4, <1>5 DEF Next

LEMMA InitPlaces == Init => OwnersInv /\ AskersInv /\ PlacesInv
  BY DEF Init, ClientInit, OwnersInv, AskersInv, PlacesInv, Pending, Offered, HeldBy, HasDevice

(* No descriptor goes to two clients, in whatever order the app calls      *)
(* Start and Stop and whichever of the waiting clients takes it            *)
(* (createPlatformTUN, SetTunFD).                                          *)
THEOREM DescriptorsNotShared == Spec => []DevicesNotShared
<1>1. Init => PlaceInv
  BY InitTypeInv, InitPlaces DEF PlaceInv
<1>2. PlaceInv /\ [Next]_vars => PlaceInv'
  BY NextTypeInv, NextAskers, NextPlaces DEF PlaceInv
<1>3. PlaceInv => DevicesNotShared
  <2> SUFFICES ASSUME PlaceInv, NEW c \in Client, NEW d \in Client, HasDevice(c), c # d
               PROVE  tunDev[c].of # tunDev[d].of
    BY DEF DevicesNotShared
  <2>1. tunDev[c].of \in Client
    BY DEF PlaceInv, OwnersInv
  <2>2. CASE HasDevice(d)
    BY <2>1, <2>2 DEF PlaceInv, PlacesInv, HeldBy
  <2>3. CASE ~HasDevice(d)
    <3>1. tunDev[d].of = Nobody
      BY <2>3 DEF HasDevice, NoDevice
    <3> QED BY <2>1, <3>1, ClientNumbers
  <2> QED BY <2>2, <2>3
<1> QED BY <1>1, <1>2, <1>3, PTL DEF Spec

==============================================================================
