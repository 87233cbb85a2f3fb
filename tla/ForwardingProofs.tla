---------------------------- MODULE ForwardingProofs ----------------------------
(***************************************************************************)
(* Proofs about the server's knowledge of where a client is, for every set *)
(* of NICs, any number of ports, all timeouts and any number of messages   *)
(* in flight: type correctness, and one address per NIC that is named.     *)
(***************************************************************************)
EXTENDS ServerForwarding, FiniteSetTheorems, TLAPS

------------------------------------------------------------------------------
(* Sessions.                                                               *)

AddrMap == UNION {[A -> AddrInfo] : A \in SUBSET Addr}

(* An address map is a function on its own domain.                         *)
LEMMA AddrMapDomain ==
  ASSUME NEW m
  PROVE  m \in AddrMap <=> DOMAIN m \subseteq Addr /\ m \in [DOMAIN m -> AddrInfo]
  BY DEF AddrMap

LEMMA AgesExist == 0 \in AddrAge /\ 0 \in 0 .. ClientTimeout + 1
  BY ForwardingAssumption DEF AddrAge

(* What does not age any further stays within its range.                   *)
LEMMA OlderRange ==
  ASSUME NEW timeout \in Nat, NEW age \in 0 .. timeout + 1
  PROVE  Older(age, timeout) \in 0 .. timeout + 1
  BY DEF Older

(* At most one address is remembered for failover.                         *)
OneOrNone(D) == Cardinality(D) <= 1

LEMMA OneOrNoneSingleton == OneOrNone({}) /\ \A a : OneOrNone({a})
  BY FS_EmptySet, FS_Singleton DEF OneOrNone

SessionOK(s) == /\ s \in Session
                /\ OneOrNone(s.lastDataAddr)
                /\ s.sendMode = "none" => s = NoSession

LEMMA SessionFields ==
  ASSUME NEW s
  PROVE  s \in Session <=>
           /\ s = [sendMode |-> s.sendMode, lastDataAddr |-> s.lastDataAddr,
                   addrs |-> s.addrs, age |-> s.age]
           /\ s.sendMode \in Mode \cup {"none"} /\ s.lastDataAddr \subseteq Addr
           /\ s.addrs \in AddrMap /\ s.age \in 0 .. ClientTimeout + 1
  BY DEF Session, AddrMap

LEMMA NoSessionOK == SessionOK(NoSession)
<1>1. [a \in {} |-> 0] \in AddrMap
  BY AddrMapDomain
<1> QED BY <1>1, SessionFields, AgesExist, OneOrNoneSingleton DEF SessionOK, NoSession

(* A session whose fields are replaced by well-typed ones.                 *)
LEMMA SessionMade ==
  ASSUME NEW m \in Mode, NEW D, D \subseteq Addr, OneOrNone(D), NEW A \in AddrMap,
         NEW t \in 0 .. ClientTimeout + 1
  PROVE  SessionOK([sendMode |-> m, lastDataAddr |-> D, addrs |-> A, age |-> t])
  BY SessionFields DEF SessionOK, Mode

------------------------------------------------------------------------------
(* Type correctness.                                                       *)

(* TypeOK speaks of ports through the addresses they make; here they are a *)
(* function.                                                               *)
TypeInv == TypeOK /\ port \in [NIC -> Nat]

(* TypeOK without the session.                                             *)
RestOK == /\ reached \in BOOLEAN
          /\ port \in [NIC -> Nat] /\ \A n \in NIC : AddrOf(n) \in Addr
          /\ up \subseteq NIC
          /\ mode \in Mode
          /\ talking \in BOOLEAN
          /\ due \subseteq {"heartbeat", "data"}
          /\ beats \subseteq Heartbeat
          /\ packets \subseteq SUBSET Addr
          /\ settled \in BOOLEAN
          /\ changes \in 0 .. MaxChanges

LEMMA TypeInvSplit == TypeInv <=> SessionOK(session) /\ RestOK
  BY DEF TypeInv, TypeOK, SessionOK, OneOrNone, RestOK, Exists

LEMMA TypeInvMade == SessionOK(session') /\ RestOK' => TypeInv'
  BY DEF TypeInv, TypeOK, SessionOK, OneOrNone, RestOK, Exists

(* An address is a NIC with one of its ports.                              *)
LEMMA AddrPair ==
  ASSUME NEW n \in NIC, NEW k
  PROVE  <<n, k>> \in Addr <=> k \in 1 .. MaxPort[n]
  BY DEF Addr

LEMMA InitTypeInv == Init => TypeInv
<1> SUFFICES ASSUME Init PROVE SessionOK(session) /\ RestOK
  BY TypeInvSplit
<1>1. SessionOK(session)
  BY NoSessionOK DEF Init
<1>2. \A n \in NIC : AddrOf(n) \in Addr
  BY AddrPair, ForwardingAssumption DEF Init, AddrOf
<1>3. RestOK
  <2>1. port \in [NIC -> Nat] /\ changes \in 0 .. MaxChanges
    BY ForwardingAssumption DEF Init
  <2>2. beats \subseteq Heartbeat /\ packets \subseteq SUBSET Addr
    BY DEF Init
  <2> QED BY <1>2, <2>1, <2>2 DEF Init, RestOK
<1> QED BY <1>1, <1>3

(* The source of a heartbeat joins the addresses, as young as can be, and  *)
(* others of its NIC leave.                                                *)
LEMMA HeartbeatAddrs ==
  ASSUME NEW A \in AddrMap, NEW m \in Heartbeat
  PROVE  Heard(A, m) \in AddrMap
<1> DEFINE D == (DOMAIN A \cup {m.from}) \ SameNic(A, m)
           f == [age |-> 0, nic |-> NameOf(A, m)]
<1>1. DOMAIN A \subseteq Addr /\ A \in [DOMAIN A -> AddrInfo]
  BY AddrMapDomain
<1>2. m.from \in Addr /\ m.nic \in NicName
  BY DEF Heartbeat
<1>3. NameOf(A, m) \in NicName
  BY <1>1, <1>2 DEF NameOf, AddrInfo
<1>4. f \in AddrInfo
  BY <1>3, AgesExist DEF AddrInfo
<1> HIDE DEF f
<1>5. Heard(A, m) = [a \in D |-> IF a = m.from THEN f ELSE A[a]]
  BY DEF Heard, f
<1>6. \A a \in D : a # m.from => A[a] \in AddrInfo
  BY <1>1
<1>7. D \subseteq Addr
  BY <1>1, <1>2
<1> HIDE DEF D
<1>8. DOMAIN Heard(A, m) = D /\ Heard(A, m) \in [D -> AddrInfo]
  BY <1>4, <1>5, <1>6
<1> QED BY <1>7, <1>8, AddrMapDomain

(* Addresses that are refreshed, expire or age stay an address map.        *)
LEMMA RestrictedAddrs ==
  ASSUME NEW A \in AddrMap, NEW D \in SUBSET DOMAIN A, NEW B \in [D -> AddrInfo]
  PROVE  B \in AddrMap
<1>1. D \subseteq Addr
  BY AddrMapDomain
<1> QED BY <1>1, AddrMapDomain

(* A session that exists has a mode and well-typed fields.                 *)
LEMMA ExistingSession ==
  ASSUME SessionOK(session), Exists
  PROVE  /\ session.sendMode \in Mode
         /\ session.lastDataAddr \subseteq Addr /\ OneOrNone(session.lastDataAddr)
         /\ session.addrs \in AddrMap /\ session.age \in 0 .. ClientTimeout + 1
         /\ session = [sendMode |-> session.sendMode, lastDataAddr |-> session.lastDataAddr,
                       addrs |-> session.addrs, age |-> session.age]
  BY SessionFields DEF SessionOK, Exists

LEMMA HandleHeartbeatType ==
  ASSUME TypeInv, NEW m \in beats, HandleHeartbeat(m)
  PROVE  TypeInv'
<1>1. SessionOK(session) /\ RestOK
  BY TypeInvSplit
<1> DEFINE A == session.addrs
           B == Heard(A, m)
<1>2. m \in Heartbeat /\ m.mode \in Mode
  BY <1>1 DEF RestOK, Heartbeat
<1>3. /\ session.lastDataAddr \subseteq Addr /\ OneOrNone(session.lastDataAddr)
      /\ A \in AddrMap
      /\ session = [sendMode |-> session.sendMode, lastDataAddr |-> session.lastDataAddr,
                    addrs |-> A, age |-> session.age]
  BY <1>1, SessionFields DEF SessionOK
<1>4. B \in AddrMap
  BY <1>2, <1>3, HeartbeatAddrs
<1>5. session' = [session EXCEPT !.sendMode = m.mode, !.addrs = B, !.age = 0]
  BY DEF HandleHeartbeat
<1> HIDE DEF A, B
<1>6. session' = [sendMode |-> m.mode, lastDataAddr |-> session.lastDataAddr, addrs |-> B, age |-> 0]
  BY <1>3, <1>5
<1>7. SessionOK(session')
  BY <1>2, <1>3, <1>4, <1>6, AgesExist, SessionMade
<1>8. RestOK'
  BY <1>1 DEF HandleHeartbeat, RestOK, nics, AddrOf
<1> QED BY <1>7, <1>8, TypeInvMade

LEMMA HandleDataType ==
  ASSUME TypeInv, NEW p \in packets, NEW from \in p, HandleData(p, from)
  PROVE  TypeInv'
<1>1. SessionOK(session) /\ RestOK
  BY TypeInvSplit
<1>2. from \in Addr
  BY <1>1 DEF RestOK
<1>3. SessionOK(session')
  <2>1. CASE ~Exists
    BY <1>1, <2>1 DEF HandleData
  <2>2. CASE Exists
    <3> DEFINE A == session.addrs
               B == [a \in DOMAIN A |-> IF a = from THEN [A[a] EXCEPT !.age = 0] ELSE A[a]]
    <3>1. session' = [session EXCEPT !.addrs = B, !.lastDataAddr = {from}, !.age = 0]
      BY <2>2 DEF HandleData, LastDataAddr
    <3>2. B \in [DOMAIN A -> AddrInfo]
      <4>1. A \in [DOMAIN A -> AddrInfo]
        BY <1>1, <2>2, ExistingSession, AddrMapDomain
      <4>2. \A i \in AddrInfo : [i EXCEPT !.age = 0] \in AddrInfo
        BY AgesExist DEF AddrInfo
      <4> QED BY <4>1, <4>2
    <3>3. B \in AddrMap
      BY <1>1, <2>2, <3>2, ExistingSession, RestrictedAddrs
    <3> HIDE DEF A, B
    <3>4. session' = [sendMode |-> session.sendMode, lastDataAddr |-> {from}, addrs |-> B, age |-> 0]
      BY <1>1, <2>2, <3>1, ExistingSession
    <3> QED BY <1>1, <1>2, <2>2, <3>3, <3>4, ExistingSession, AgesExist, OneOrNoneSingleton, SessionMade
  <2> QED BY <2>1, <2>2
<1>4. RestOK'
  BY <1>1 DEF HandleData, RestOK, nics, AddrOf
<1> QED BY <1>3, <1>4, TypeInvMade

LEMMA CleanupType ==
  ASSUME TypeInv, Cleanup
  PROVE  TypeInv'
<1>1. SessionOK(session) /\ RestOK
  BY TypeInvSplit
<1> DEFINE A == session.addrs
           B == [a \in DOMAIN A \ Expired(session) |-> A[a]]
           s == [session EXCEPT !.addrs = B]
<1>2. Exists
  BY DEF Cleanup
<1>3. B \in [DOMAIN A \ Expired(session) -> AddrInfo]
  BY <1>1, <1>2, ExistingSession, AddrMapDomain
<1>4. B \in AddrMap
  BY <1>1, <1>2, <1>3, ExistingSession, RestrictedAddrs
<1>5. session' = IF Silent(s) THEN NoSession ELSE s
  BY DEF Cleanup
<1> HIDE DEF A, B
<1>6. s = [sendMode |-> session.sendMode, lastDataAddr |-> session.lastDataAddr,
           addrs |-> B, age |-> session.age]
  BY <1>1, <1>2, ExistingSession
<1>7. SessionOK(s)
  BY <1>1, <1>2, <1>4, <1>6, ExistingSession, SessionMade
<1> HIDE DEF s
<1>8. SessionOK(session')
  BY <1>5, <1>7, NoSessionOK
<1>9. RestOK'
  BY <1>1 DEF Cleanup, RestOK, nics, network, AddrOf
<1> QED BY <1>8, <1>9, TypeInvMade

LEMMA TickType ==
  ASSUME TypeInv, Tick
  PROVE  TypeInv'
<1>1. SessionOK(session) /\ RestOK
  BY TypeInvSplit
<1>2. SessionOK(session')
  <2>1. CASE ~Exists
    BY <1>1, <2>1 DEF Tick
  <2>2. CASE Exists
    <3> DEFINE A == session.addrs
               B == [a \in DOMAIN A |-> Aged(A[a])]
               t == Older(session.age, ClientTimeout)
    <3>1. session' = [session EXCEPT !.addrs = B, !.age = t]
      BY <2>2 DEF Tick
    <3>2. B \in [DOMAIN A -> AddrInfo]
      <4>1. A \in [DOMAIN A -> AddrInfo]
        BY <1>1, <2>2, ExistingSession, AddrMapDomain
      <4>2. \A k \in AddrAge : Older(k, AddrTimeout) \in AddrAge
        BY OlderRange, ForwardingAssumption DEF AddrAge
      <4>3. \A i \in AddrInfo : Aged(i) \in AddrInfo
        BY <4>2 DEF AddrInfo, Aged
      <4> QED BY <4>1, <4>3
    <3>3. t \in 0 .. ClientTimeout + 1
      BY <1>1, <2>2, ExistingSession, OlderRange, ForwardingAssumption
    <3>4. B \in AddrMap
      BY <1>1, <2>2, <3>2, ExistingSession, RestrictedAddrs
    <3> HIDE DEF A, B, t
    <3>5. session' = [sendMode |-> session.sendMode, lastDataAddr |-> session.lastDataAddr,
                      addrs |-> B, age |-> t]
      BY <1>1, <2>2, <3>1, ExistingSession
    <3> QED BY <1>1, <2>2, <3>3, <3>4, <3>5, ExistingSession, SessionMade
  <2> QED BY <2>1, <2>2
<1>3. RestOK'
  BY <1>1 DEF Tick, RestOK, nics, network, AddrOf
<1> QED BY <1>2, <1>3, TypeInvMade

LEMMA ChangeType ==
  ASSUME TypeInv, Change
  PROVE  TypeInv'
<1>1. SessionOK(session) /\ RestOK
  BY TypeInvSplit
<1>2. SessionOK(session')
  BY <1>1 DEF Change, server
<1> DEFINE NicsOK == /\ port' \in [NIC -> Nat] /\ \A n \in NIC : AddrOf(n)' \in Addr
                     /\ up' \subseteq NIC /\ mode' \in Mode
<1>3. NicsOK
  <2>1. ASSUME NEW n \in up, Rebind(n)
        PROVE  NicsOK
    <3>0. n \in NIC /\ <<n, port[n]>> \in Addr /\ MaxPort[n] \in Nat /\ port[n] < MaxPort[n]
      BY <1>1, <2>1, ForwardingAssumption DEF RestOK, Rebind, AddrOf
    <3>1. port[n] \in 1 .. MaxPort[n] /\ port[n] + 1 \in 1 .. MaxPort[n]
      BY <3>0, AddrPair
    <3>2. \A k \in NIC : AddrOf(k)' \in Addr
      BY <1>1, <2>1, <3>0, <3>1, AddrPair DEF RestOK, Rebind, AddrOf
    <3> QED BY <1>1, <2>1, <3>2 DEF RestOK, Rebind
  <2>2. ASSUME NEW N \in SUBSET up, Unplug(N)
        PROVE  NicsOK
    BY <1>1, <2>2 DEF RestOK, Unplug, AddrOf
  <2>3. ASSUME NEW m \in Mode, SetSendMode(m)
        PROVE  NicsOK
    BY <1>1, <2>3 DEF RestOK, SetSendMode, AddrOf
  <2> QED BY <2>1, <2>2, <2>3 DEF Change
<1>4. changes' \in 0 .. MaxChanges
  BY <1>1, ForwardingAssumption DEF Change, RestOK
<1>5. UNCHANGED <<server, network, due, talking, settled>>
  BY DEF Change
<1>6. RestOK'
  BY <1>1, <1>3, <1>4, <1>5 DEF RestOK, server, network
<1> QED BY <1>2, <1>6, TypeInvMade

LEMMA SendType ==
  ASSUME TypeInv, SendHeartbeat \/ SendData
  PROVE  TypeInv'
<1>1. SessionOK(session) /\ RestOK
  BY TypeInvSplit
<1>2. SessionOK(session')
  BY <1>1 DEF SendHeartbeat, SendData, server
<1>3. Here \subseteq Addr
  BY <1>1 DEF Here, RestOK
<1>4. CASE SendHeartbeat
  <2>0. \A n \in up : AddrOf(n) \in Addr /\ NameIn(n) \in NicName /\ mode \in Mode
    BY <1>1 DEF RestOK, NameIn, NicName
  <2>1. {[from |-> AddrOf(n), nic |-> NameIn(n), mode |-> mode] : n \in up} \subseteq Heartbeat
    BY <2>0 DEF Heartbeat
  <2>2. RestOK'
    BY <1>1, <1>4, <2>1 DEF SendHeartbeat, RestOK, server, nics, AddrOf
  <2> QED BY <1>2, <2>2, TypeInvMade
<1>5. CASE SendData
  <2>1. packets' \subseteq SUBSET Addr
    BY <1>1, <1>3, <1>5 DEF SendData, RestOK
  <2>2. due' \subseteq {"heartbeat", "data"} /\ UNCHANGED <<server, nics, beats, settled>>
    BY <1>1, <1>5 DEF SendData, RestOK
  <2>3. RestOK'
    BY <1>1, <2>1, <2>2 DEF RestOK, server, nics, AddrOf
  <2> QED BY <1>2, <2>3, TypeInvMade
<1> QED BY <1>4, <1>5

LEMMA NextTypeInv == TypeInv /\ [Next]_vars => TypeInv'
<1> SUFFICES ASSUME TypeInv, [Next]_vars PROVE TypeInv'
  OBVIOUS
<1>1. SessionOK(session) /\ RestOK
  BY TypeInvSplit
<1>2. CASE ReceiveLoop
  BY <1>2, HandleHeartbeatType, HandleDataType DEF ReceiveLoop
<1>3. CASE SendToClient
  <2>1. SessionOK(session') /\ RestOK'
    BY <1>1, <1>3 DEF SendToClient, RestOK, nics, network, AddrOf
  <2> QED BY <2>1, TypeInvMade
<1>4. CASE DeleteClient
  <2>1. SessionOK(session') /\ RestOK'
    BY <1>1, <1>4, NoSessionOK, ForwardingAssumption DEF DeleteClient, RestOK, network, AddrOf
  <2> QED BY <2>1, TypeInvMade
<1>5. CASE Lose
  <2>1. beats' \subseteq beats /\ packets' \subseteq packets
    BY <1>5 DEF Lose, LoseHeartbeat, LosePacket
  <2>2. UNCHANGED <<server, nics, due, settled>>
    BY <1>5 DEF Lose
  <2>3. SessionOK(session') /\ RestOK'
    BY <1>1, <2>1, <2>2 DEF RestOK, server, nics, AddrOf
  <2> QED BY <2>3, TypeInvMade
<1>7. CASE Settle
  <2>1. SessionOK(session')
    BY <1>1, <1>7 DEF Settle, server
  <2>2. RestOK'
    BY <1>1, <1>7, ForwardingAssumption DEF Settle, RestOK, server, network, AddrOf
  <2> QED BY <2>1, <2>2, TypeInvMade
<1>6. CASE UNCHANGED vars
  <2>1. SessionOK(session') /\ RestOK'
    BY <1>1, <1>6 DEF vars, RestOK, server, nics, network, AddrOf
  <2> QED BY <2>1, TypeInvMade
<1> QED BY <1>2, <1>3, <1>4, <1>5, <1>6, <1>7, CleanupType, TickType, ChangeType, SendType DEF Next

LEMMA TypeInvariant == Spec => []TypeInv
  BY InitTypeInv, NextTypeInv, PTL DEF Spec

(* Types of session, client and network: in particular a session's         *)
(* addresses are ports a NIC can have, and it remembers at most one for    *)
(* failover.                                                               *)
THEOREM ForwardingTypeCorrect == Spec => []TypeOK
<1>1. TypeInv => TypeOK
  BY DEF TypeInv
<1> QED BY <1>1, TypeInvariant, PTL

------------------------------------------------------------------------------
(* One address per NIC that is named.                                      *)

Single(A) == \A a, b \in DOMAIN A : A[a].nic = A[b].nic /\ A[a].nic # NoName => a = b

(* A heartbeat removes whatever else its NIC had, or names no NIC.         *)
LEMMA HeartbeatSingle ==
  ASSUME NEW A, Single(A), NEW m
  PROVE  Single(Heard(A, m))
<1> DEFINE D == (DOMAIN A \cup {m.from}) \ SameNic(A, m)
           B == Heard(A, m)
<1>1. /\ DOMAIN B = D
      /\ \A a \in D : a # m.from => a \in DOMAIN A /\ B[a].nic = A[a].nic
  BY DEF Heard
<1>2. m.from \in D => B[m.from].nic = NameOf(A, m)
  BY DEF Heard
<1>3. CASE m.nic = NoName
  <2>1. m.from \in D => \/ B[m.from].nic = NoName
                        \/ m.from \in DOMAIN A /\ B[m.from].nic = A[m.from].nic
    BY <1>2, <1>3 DEF NameOf
  <2> HIDE DEF B, D
  <2> QED BY <1>1, <2>1 DEF Single, B
<1>4. CASE m.nic # NoName
  <2>1. m.from \in D => B[m.from].nic = m.nic
    BY <1>2, <1>4 DEF NameOf
  <2>2. \A a \in D : a # m.from => A[a].nic # m.nic
    BY <1>4 DEF SameNic
  <2> HIDE DEF B, D
  <2> QED BY <1>1, <2>1, <2>2 DEF Single, B
<1> QED BY <1>3, <1>4

(* Whoever has no more addresses than before, with the names they had, has *)
(* none more per NIC.                                                      *)
LEMMA FewerSingle ==
  ASSUME NEW A, Single(A), NEW B, DOMAIN B \subseteq DOMAIN A,
         \A a \in DOMAIN B : B[a].nic = A[a].nic
  PROVE  Single(B)
  BY DEF Single

LEMMA NextSingle == TypeInv /\ Single(session.addrs) /\ [Next]_vars => Single(session'.addrs)
<1> SUFFICES ASSUME TypeInv, Single(session.addrs), [Next]_vars PROVE Single(session'.addrs)
  OBVIOUS
<1>1. SessionOK(session)
  BY TypeInvSplit
<1>2. session = [sendMode |-> session.sendMode, lastDataAddr |-> session.lastDataAddr,
                 addrs |-> session.addrs, age |-> session.age]
  BY <1>1, SessionFields DEF SessionOK
<1>3. Single(NoSession.addrs)
  BY DEF Single, NoSession
<1>4. ASSUME NEW m \in beats, HandleHeartbeat(m) PROVE Single(session'.addrs)
  <2> DEFINE B == Heard(session.addrs, m)
  <2>1. session' = [session EXCEPT !.sendMode = m.mode, !.addrs = B, !.age = 0]
    BY <1>4 DEF HandleHeartbeat
  <2>2. Single(B)
    BY HeartbeatSingle
  <2> HIDE DEF B
  <2>3. session'.addrs = B
    BY <1>2, <2>1
  <2> QED BY <2>2, <2>3
<1> DEFINE A == session.addrs
<1>10. A \in [DOMAIN A -> AddrInfo]
  BY <1>1, SessionFields, AddrMapDomain DEF SessionOK
<1>11. \A t : \A a \in DOMAIN A : [A[a] EXCEPT !.age = t].nic = A[a].nic
  BY <1>10 DEF AddrInfo
<1>5. ASSUME NEW p \in packets, NEW from \in p, HandleData(p, from) PROVE Single(session'.addrs)
  <2> DEFINE B == [a \in DOMAIN A |-> IF a = from THEN [A[a] EXCEPT !.age = 0] ELSE A[a]]
  <2>1. CASE Exists
    <3>1. session' = [session EXCEPT !.addrs = B, !.lastDataAddr = {from}, !.age = 0]
      BY <1>5, <2>1 DEF HandleData, LastDataAddr
    <3>2. DOMAIN B \subseteq DOMAIN A /\ \A a \in DOMAIN B : B[a].nic = A[a].nic
      BY <1>11
    <3>3. Single(B)
      BY <3>2, FewerSingle
    <3> HIDE DEF B
    <3>4. session'.addrs = B
      BY <1>2, <3>1
    <3> QED BY <3>3, <3>4
  <2>2. CASE ~Exists
    BY <1>5, <2>2 DEF HandleData
  <2> QED BY <2>1, <2>2
<1>6. CASE Cleanup
  <2> DEFINE B == [a \in DOMAIN A \ Expired(session) |-> A[a]]
             s == [session EXCEPT !.addrs = B]
  <2>1. session' = IF Silent(s) THEN NoSession ELSE s
    BY <1>6 DEF Cleanup
  <2>2. DOMAIN B \subseteq DOMAIN A /\ \A a \in DOMAIN B : B[a].nic = A[a].nic
    OBVIOUS
  <2>3. Single(B)
    BY <2>2, FewerSingle
  <2> HIDE DEF B
  <2>4. s.addrs = B
    BY <1>2
  <2> HIDE DEF s
  <2> QED BY <1>3, <2>1, <2>3, <2>4
<1>7. CASE DeleteClient
  BY <1>3, <1>7 DEF DeleteClient
<1>8. CASE Tick
  <2> DEFINE B == [a \in DOMAIN A |-> Aged(A[a])]
  <2>1. CASE Exists
    <3>1. session' = [session EXCEPT !.addrs = B, !.age = Older(@, ClientTimeout)]
      BY <1>8, <2>1 DEF Tick
    <3>2. DOMAIN B \subseteq DOMAIN A /\ \A a \in DOMAIN B : B[a].nic = A[a].nic
      BY <1>11 DEF Aged
    <3>3. Single(B)
      BY <3>2, FewerSingle
    <3> HIDE DEF B
    <3>4. session'.addrs = B
      BY <1>2, <3>1
    <3> QED BY <3>3, <3>4
  <2>2. CASE ~Exists
    BY <1>8, <2>2 DEF Tick
  <2> QED BY <2>1, <2>2
<1>9. CASE SendToClient \/ SendHeartbeat \/ SendData \/ Change \/ Lose \/ Settle \/ UNCHANGED vars
  BY <1>9 DEF SendToClient, SendHeartbeat, SendData, Change, Lose, Settle, vars, server
<1> QED BY <1>4, <1>5, <1>6, <1>7, <1>8, <1>9 DEF Next, ReceiveLoop

(* However heartbeats from old and new ports overtake each other, and      *)
(* whatever expires or is removed, a session has at most one address for   *)
(* each NIC that heartbeats name, whichever NICs those are                 *)
(* (handleHeartbeat, the removal by NIC name).                             *)
THEOREM NicsHaveOneAddress == Spec => []OneAddressPerNic
<1>1. Single(session.addrs) <=> OneAddressPerNic
  BY DEF Single, OneAddressPerNic
<1>2. Init => Single(session.addrs)
  BY DEF Init, Single, NoSession
<1>3. TypeInv /\ Single(session.addrs) /\ [Next]_vars => Single(session.addrs)'
  BY NextSingle
<1> QED BY <1>1, <1>2, <1>3, TypeInvariant, PTL DEF Spec

==============================================================================
