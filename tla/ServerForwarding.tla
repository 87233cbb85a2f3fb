--------------------------- MODULE ServerForwarding ---------------------------
(***************************************************************************)
(* How the server knows where a client is (internal/server/server.go): the *)
(* source addresses of a session, learnt from heartbeats and refreshed by  *)
(* data, the cleanup that lets addresses and sessions expire, and how      *)
(* sendToClient chooses among them.  One client is enough: sessions do not *)
(* touch each other's addresses.  Which virtual address belongs to the     *)
(* session, and the route to it, are the subject of ServerRegistry.        *)
(*                                                                         *)
(* The client has a socket per NIC, or only one.  The server sees each     *)
(* through a port that changes when the NIC's socket is recycled or its    *)
(* NAT mapping expires.  A multipath client names the NIC in every         *)
(* heartbeat; a desktop client, which has one socket, does not.            *)
(* Messages are lost, delayed and reordered until the network settles:     *)
(* from then on ports stay, and what is sent arrives before the next tick. *)
(* Time advances in ticks of one heartbeat interval.                       *)
(***************************************************************************)
EXTENDS Integers, FiniteSets

CONSTANTS NIC,           \* the client's NICs
          Named,         \* those its heartbeats name
          MaxPort,       \* bound: NIC -> how many ports it is seen with
          AddrTimeout,   \* ticks
          ClientTimeout, \* ticks
          MaxHeartbeats, \* bound: heartbeats in flight
          MaxPackets,    \* bound: data packets in flight
          MaxChanges     \* bound: changes before the network settles

NoName == "none"

ASSUME ForwardingAssumption ==
  /\ NoName \notin NIC /\ Named \subseteq NIC
  /\ MaxPort \in [NIC -> Nat \ {0}]
  /\ AddrTimeout \in Nat
  /\ ClientTimeout \in Nat
  /\ MaxHeartbeats \in Nat
  /\ MaxPackets \in Nat
  /\ MaxChanges \in Nat

VARIABLES session, \* the client's ClientSession, or NoSession
          reached, \* whether the last reply went to where a NIC really is
          port,    \* NIC -> the port the server sees it with
          up,      \* the NICs that are connected
          mode,    \* the client's sendMode
          talking, \* whether the client sends data, or only heartbeats
          due,     \* what the client has yet to send in this interval
          beats,   \* heartbeats in flight
          packets, \* data packets in flight: the addresses copies come from
          settled, \* whether the network has settled
          changes  \* changes so far

server  == <<session, reached>>
nics    == <<port, up, mode, talking, changes>>
network == <<beats, packets>>
vars    == <<server, nics, network, due, settled>>

Addr == UNION {{n} \X (1 .. MaxPort[n]) : n \in NIC}
Mode == {"redundant", "failover"}

(* ClientSession and AddrInfo: ages stand for the time since LastSeen, and *)
(* what is past its timeout does not age any further; nic is NICName.      *)
(* LastDataAddr is {} while nil.                                           *)
NoSession == [sendMode |-> "none", lastDataAddr |-> {}, addrs |-> [a \in {} |-> 0], age |-> 0]
Exists    == session # NoSession
AddrAge   == 0 .. AddrTimeout + 1
NicName   == NIC \cup {NoName}
AddrInfo  == [age : AddrAge, nic : NicName]
Session   == [sendMode     : Mode \cup {"none"},
              lastDataAddr : SUBSET Addr,
              addrs        : UNION {[A -> AddrInfo] : A \in SUBSET Addr},
              age          : 0 .. ClientTimeout + 1]

AddrOf(n) == <<n, port[n]>>
Here      == {AddrOf(n) : n \in up}  \* where the client can be reached

Heartbeat == [from : Addr, nic : NicName, mode : Mode]

TypeOK == /\ session \in Session
          /\ Cardinality(session.lastDataAddr) <= 1
          /\ session.sendMode = "none" => ~Exists
          /\ reached \in BOOLEAN
          /\ \A n \in NIC : AddrOf(n) \in Addr
          /\ up \subseteq NIC
          /\ mode \in Mode
          /\ talking \in BOOLEAN
          /\ due \subseteq {"heartbeat", "data"}
          /\ beats \subseteq Heartbeat
          /\ packets \subseteq SUBSET Addr
          /\ settled \in BOOLEAN
          /\ changes \in 0 .. MaxChanges

Init == /\ session = NoSession
        /\ reached = FALSE
        /\ port = [n \in NIC |-> 1]
        /\ up = NIC
        /\ mode \in Mode
        /\ talking \in BOOLEAN
        /\ due = {"heartbeat"}
        /\ beats = {}
        /\ packets = {}
        /\ settled = FALSE
        /\ changes = 0

------------------------------------------------------------------------------
(* The receive loop.                                                       *)

(* Fault: addresses the NIC had before are kept.                           *)
SameNicKept(addrs, m) == {}

(* The other addresses of the NIC that the heartbeat names, if any.        *)
SameNic(addrs, m) == {a \in DOMAIN addrs \ {m.from} : m.nic # NoName /\ addrs[a].nic = m.nic}

(* The name an address bears from now on: one without keeps what it had.   *)
NameOf(addrs, m) == IF m.nic = NoName /\ m.from \in DOMAIN addrs THEN addrs[m.from].nic ELSE m.nic

(* The heartbeat's source is an address of the client.                     *)
Heard(addrs, m) ==
  [a \in (DOMAIN addrs \cup {m.from}) \ SameNic(addrs, m) |->
     IF a = m.from THEN [age |-> 0, nic |-> NameOf(addrs, m)] ELSE addrs[a]]

(* handleHeartbeat for a client that claims the address it is registered   *)
(* with, or is new: the session is created or refreshed.                   *)
HandleHeartbeat(m) ==
  /\ session' = [session EXCEPT !.sendMode = m.mode, !.addrs = Heard(@, m), !.age = 0]
  /\ beats' = beats \ {m}
  /\ UNCHANGED <<reached, nics, packets, due, settled>>

(* Fault: the address last used for data is set once only.                 *)
FirstDataAddr(s, a) == IF s.lastDataAddr = {} THEN {a} ELSE s.lastDataAddr

(* Fault: every address data came from is remembered.                      *)
AllDataAddrs(s, a) == s.lastDataAddr \cup {a}

LastDataAddr(s, a) == {a}

(* handleData: the first copy passes the deduplicator, the others have no  *)
(* effect.  A packet refreshes addresses and adds none.                    *)
HandleData(p, from) ==
  /\ IF Exists
     THEN session' = [session EXCEPT
            !.addrs = [a \in DOMAIN @ |-> IF a = from THEN [@[a] EXCEPT !.age = 0] ELSE @[a]],
            !.lastDataAddr = LastDataAddr(session, from),
            !.age = 0]
     ELSE UNCHANGED session
  /\ packets' = packets \ {p}
  /\ UNCHANGED <<reached, nics, beats, due, settled>>

------------------------------------------------------------------------------
(* sendToClient, called by tunReadLoop for the server's own packets and by *)
(* handleData for relayed ones.                                            *)

(* The addresses the packet may go to; the first of a map is any of it.    *)
Choices == CASE DOMAIN session.addrs = {}       -> {}
             [] session.sendMode # "failover"   -> {DOMAIN session.addrs}
             [] session.lastDataAddr # {}       -> {session.lastDataAddr}
             [] OTHER                           -> {{a} : a \in DOMAIN session.addrs}

(* What is needed is copied under sessionsLock and the writes follow it;   *)
(* without a session, or without an address, the packet is dropped.        *)
SendToClient ==
  /\ \/ \E T \in Choices : reached' = (T \cap Here # {})
     \/ DOMAIN session.addrs = {} /\ reached' = FALSE
  /\ UNCHANGED <<session, nics, network, due, settled>>

------------------------------------------------------------------------------
(* cleanup and DeleteClient.                                               *)

(* Fault: an address expires with the session's last sign of life.         *)
ExpiredWithSession(s) == {a \in DOMAIN s.addrs : s.age > AddrTimeout}

Expired(s) == {a \in DOMAIN s.addrs : s.addrs[a].age > AddrTimeout}

(* Fault: a session without addresses is kept.                             *)
NeverSilent(s) == FALSE

Silent(s) == DOMAIN s.addrs = {} /\ s.age > ClientTimeout

Cleanup ==
  /\ Exists
  /\ LET s == [session EXCEPT !.addrs = [a \in DOMAIN @ \ Expired(session) |-> @[a]]]
     IN  session' = IF Silent(s) THEN NoSession ELSE s
  /\ UNCHANGED <<reached, nics, network, due, settled>>

(* The administrator removes the client, which goes on sending.            *)
DeleteClient ==
  /\ changes < MaxChanges
  /\ Exists
  /\ session' = NoSession
  /\ changes' = changes + 1
  /\ UNCHANGED <<reached, port, up, mode, talking, network, due, settled>>

------------------------------------------------------------------------------
(* The client.                                                             *)

NameIn(n) == IF n \in Named THEN n ELSE NoName

(* sendHeartbeat: one heartbeat on every path.                             *)
SendHeartbeat ==
  /\ "heartbeat" \in due
  /\ LET new == {[from |-> AddrOf(n), nic |-> NameIn(n), mode |-> mode] : n \in up}
     IN  /\ Cardinality(beats \cup new) <= MaxHeartbeats
         /\ beats' = beats \cup new
  /\ due' = due \ {"heartbeat"}
  /\ UNCHANGED <<server, nics, packets, settled>>

(* Send: the packet takes every path, or in failover mode one of them.     *)
SendData ==
  /\ "data" \in due
  /\ Cardinality(packets) < MaxPackets
  /\ \/ mode = "redundant" /\ packets' = packets \cup ({Here} \ {{}})
     \/ mode = "failover" /\ \E a \in Here : packets' = packets \cup {{a}}
     \/ Here = {} /\ UNCHANGED packets
  /\ due' = due \ {"data"}
  /\ UNCHANGED <<server, nics, beats, settled>>

(* A NIC's socket is recycled or its NAT mapping replaced.                 *)
Rebind(n) == /\ port[n] < MaxPort[n]
             /\ port' = [port EXCEPT ![n] = @ + 1]
             /\ UNCHANGED <<up, mode>>

Unplug(N) == up' = up \ N /\ UNCHANGED <<port, mode>>

SetSendMode(m) == mode' = m /\ UNCHANGED <<port, up>>

Change == /\ changes < MaxChanges
          /\ \/ \E n \in up : Rebind(n)
             \/ \E N \in SUBSET up : Unplug(N)
             \/ \E m \in Mode \ {mode} : SetSendMode(m)
          /\ changes' = changes + 1
          /\ UNCHANGED <<server, network, due, talking, settled>>

------------------------------------------------------------------------------
(* Network and time.  Once settled, there are no changes and no losses.    *)

LoseHeartbeat(m) == ~settled /\ beats' = beats \ {m} /\ UNCHANGED packets

(* All copies of it: which of the others comes first is open in any case.  *)
LosePacket(p) == ~settled /\ packets' = packets \ {p} /\ UNCHANGED beats

Lose == /\ \/ \E m \in beats : LoseHeartbeat(m)
           \/ \E p \in packets : LosePacket(p)
        /\ UNCHANGED <<server, nics, due, settled>>

Settle == /\ ~settled
          /\ settled' = TRUE
          /\ changes' = MaxChanges
          /\ UNCHANGED <<server, port, up, mode, talking, network, due>>

Older(age, timeout) == IF age > timeout THEN age ELSE age + 1
Aged(info)          == [info EXCEPT !.age = Older(@, AddrTimeout)]

Tick == /\ settled => due = {} /\ beats = {} /\ packets = {}
        /\ session' = IF Exists
                      THEN [session EXCEPT
                              !.addrs = [a \in DOMAIN @ |-> Aged(@[a])],
                              !.age = Older(@, ClientTimeout)]
                      ELSE session
        /\ due' = {"heartbeat"} \cup (IF talking THEN {"data"} ELSE {})
        /\ UNCHANGED <<reached, nics, network, settled>>

------------------------------------------------------------------------------
ReceiveLoop == \/ \E m \in beats : HandleHeartbeat(m)
               \/ \E p \in packets : \E a \in p : HandleData(p, a)

Next == \/ ReceiveLoop
        \/ SendToClient
        \/ Cleanup \/ DeleteClient
        \/ SendHeartbeat \/ SendData
        \/ Change \/ Lose \/ Settle \/ Tick

Spec == Init /\ [][Next]_vars

(* The goroutines run, the client's tickers tick, packets for the client   *)
(* keep coming.                                                            *)
Fairness == /\ WF_vars(ReceiveLoop)
            /\ WF_vars(SendToClient)
            /\ WF_vars(Cleanup)
            /\ WF_vars(SendHeartbeat) /\ WF_vars(SendData)
            /\ WF_vars(Tick)

FairSpec == Spec /\ Fairness

------------------------------------------------------------------------------
(* Properties.                                                             *)

(* However heartbeats of old and new ports overtake each other, a session  *)
(* has at most one address for each NIC that heartbeats name, so a         *)
(* redundant reply is not sent twice over one NIC (handleHeartbeat, the    *)
(* removal by NIC name).                                                   *)
OneAddressPerNic ==
  \A a, b \in DOMAIN session.addrs :
    session.addrs[a].nic = session.addrs[b].nic /\ session.addrs[a].nic # NoName => a = b

(* Once the network has settled, the session's addresses become exactly    *)
(* where the client is and stay so, whatever old heartbeats and data were  *)
(* still in flight, and the session is not lost again.  What an unnamed    *)
(* NIC had before goes by its timeout only (handleHeartbeat, handleData,   *)
(* cleanup).                                                               *)
AddressesConverge ==
  <>[](settled /\ up # {} => Exists /\ DOMAIN session.addrs = Here)

(* Once the network has settled, every packet for the client is written to *)
(* an address that reaches it; in failover mode as long as the client      *)
(* sends data itself (sendToClient).                                       *)
RepliesReachClient ==
  <>[](settled /\ up # {} /\ (mode = "redundant" \/ talking) => reached)

(* A client that is gone loses its session, and the server stops sending   *)
(* to where it was (cleanup).                                              *)
SilentSessionsEnd ==
  <>[](settled /\ up = {} => ~Exists)

==============================================================================
