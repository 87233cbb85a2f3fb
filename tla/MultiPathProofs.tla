---------------------------- MODULE MultiPathProofs ----------------------------
(***************************************************************************)
(* Proofs about the client's paths, for every set of interfaces and of     *)
(* addresses, any number of path objects, receive loops and changes, and   *)
(* whichever faults happen: types; every open socket belongs to a path in  *)
(* m.paths; the paths follow the scans; the receive loops of paths that    *)
(* are gone find out.  While interfaces stay and sockets can be created,   *)
(* the usable paths are open.                                              *)
(***************************************************************************)
EXTENDS MultiPath, TLAPS

------------------------------------------------------------------------------
(* Path objects.                                                           *)

LEMMA Numbers == /\ MaxLoops \in Nat /\ MaxLoops >= 1 /\ MaxAttempts \in Nat /\ MaxAttempts >= 1
                 /\ NoPath \notin PathId /\ MaxChanges \in Nat
  BY MultiPathAssumption DEF NoPath, PathId

Loops(p)   == p.reading + p.failing
Looping(p) == Loops(p) > 0

LEMMA CappedRange ==
  ASSUME NEW k \in Nat
  PROVE  Capped(k) \in 0 .. MaxLoops /\ (Capped(k) > 0 <=> k > 0)
  BY Numbers DEF Capped

(* A path as it is made, with its socket and one receive loop.             *)
LEMMA NewPathFields ==
  ASSUME NEW n \in Nic, NEW a \in Addr
  PROVE  /\ NewPath(n, a) \in Path
         /\ NewPath(n, a).nic = n /\ NewPath(n, a).addr = a
         /\ NewPath(n, a).open /\ ~NewPath(n, a).closed
  BY Numbers DEF NewPath, Path, AnyAddr, Status, Age

LEMMA DeadPathFields ==
  DeadPath \in Path /\ ~DeadPath.open /\ DeadPath.closed /\ ~Looping(DeadPath)
<1> DEFINE n == CHOOSE n \in Nic : TRUE
           a == CHOOSE a \in Addr : TRUE
<1>1. n \in Nic /\ a \in Addr
  BY MultiPathAssumption
<1> HIDE DEF n, a
<1>2. NewPath(n, a) \in Path /\ NewPath(n, a).failing = 0
  BY <1>1, NewPathFields DEF NewPath
<1>3. DeadPath = [NewPath(n, a) EXCEPT !.status = "down", !.open = FALSE, !.closed = TRUE, !.reading = 0]
  BY DEF DeadPath, n, a
<1> DEFINE q == NewPath(n, a)
<1> HIDE DEF q
<1>4. DeadPath = [q EXCEPT !.status = "down", !.open = FALSE, !.closed = TRUE, !.reading = 0]
  BY <1>3 DEF q
<1>5. q \in Path /\ q.failing = 0
  BY <1>2 DEF q
<1>6. DeadPath \in Path
  BY <1>4, <1>5, Numbers DEF Path, Status
<1>7. ~DeadPath.open /\ DeadPath.closed /\ DeadPath.reading = 0 /\ DeadPath.failing = 0
  BY <1>4, <1>5 DEF Path
<1> QED BY <1>6, <1>7 DEF Loops, Looping

(* What remains of a path out of m.paths is its socket and its loops.      *)
LEMMA ForgottenFields ==
  ASSUME NEW p \in Path
  PROVE  /\ Forgotten(p) \in Path
         /\ Forgotten(p).open = p.open /\ Forgotten(p).closed = p.closed
         /\ Loops(Forgotten(p)) = Loops(p)
<1> HIDE DEF DeadPath
<1> QED BY DeadPathFields DEF Forgotten, Path, Loops

(* Shutting a path down closes what it has; its loops are still there.     *)
LEMMA ShutFields ==
  ASSUME NEW p \in Path
  PROVE  /\ Shut(p) \in Path
         /\ Shut(p).nic = p.nic /\ Shut(p).addr = p.addr
         /\ ~Shut(p).open /\ Shut(p).closed
         /\ Looping(Shut(p)) => Looping(p)
<1>1. p.failing + p.reading \in Nat
  BY DEF Path
<1>2. Capped(p.failing + p.reading) \in 0 .. MaxLoops
  BY <1>1, CappedRange
<1>3. Shut(p) \in Path
  <2>1. 0 \in 0 .. MaxLoops
    BY Numbers
  <2> QED BY <1>2, <2>1 DEF Shut, Path
<1>4. /\ Shut(p).nic = p.nic /\ Shut(p).addr = p.addr
      /\ ~Shut(p).open /\ Shut(p).closed
      /\ Shut(p).reading = 0 /\ Shut(p).failing = Capped(p.failing + p.reading)
  BY DEF Shut, Path
<1>5. Looping(Shut(p)) => Looping(p)
  BY <1>1, <1>2, <1>4, CappedRange DEF Path, Loops, Looping
<1> QED BY <1>3, <1>4, <1>5

(* A recycled path is as good as new.                                      *)
LEMMA ReopenedFields ==
  ASSUME NEW p \in Path
  PROVE  /\ Reopened(p) \in Path
         /\ Reopened(p).nic = p.nic /\ Reopened(p).addr = p.addr
         /\ Reopened(p).open /\ ~Reopened(p).closed
<1>1. p.reading + 1 \in Nat
  BY DEF Path
<1>2. p.attempts = MaxAttempts \/ p.attempts + 1 \in 0 .. MaxAttempts
  BY Numbers DEF Path
<1> QED BY <1>1, <1>2, CappedRange DEF Reopened, Path, Status, Age

LEMMA HeardFields ==
  ASSUME NEW p \in Path, NEW r \in RTTs
  PROVE  /\ Heard(p, r) \in Path
         /\ Heard(p, r).nic = p.nic /\ Heard(p, r).addr = p.addr
         /\ Heard(p, r).open = p.open /\ Heard(p, r).closed = p.closed
         /\ Loops(Heard(p, r)) = Loops(p)
<1>1. Heard(p, r) \in Path
  <2>1. 0 \in 0 .. MaxAttempts /\ "active" \in Status /\ r \in RTTs \cup {0}
    BY Numbers DEF Status
  <2> QED BY <2>1 DEF Heard, Path
<1> QED BY <1>1 DEF Heard, Path, Loops

------------------------------------------------------------------------------
(* Type correctness.                                                       *)

NetworkOK   == nics \in [Nic -> AnyAddr] /\ deaf \subseteq Nic /\ changes \in 0 .. MaxChanges
WatcherOK   == watcher \in [step : {"idle", "update", "close", "delete", "quit"},
                            removed : SUBSET Nic, added : [Nic -> AnyAddr], news : BOOLEAN,
                            path : PathId \cup {NoPath}]
PathsOK     == paths \in [Nic -> PathId \cup {NoPath}] /\ path \in [PathId -> Path]
ChoiceOK    == mode \in Modes /\ active \in AnyNic /\ cooling \in BOOLEAN
HeartbeatOK == heartbeat \in [step : {"tick", "check", "recycle", "open", "sleep"}, stale : SUBSET Nic,
                              path : PathId \cup {NoPath}]
RecvOK      == pinged \subseteq PathId /\ recvCh \subseteq Nic /\ reselect \in BOOLEAN
FlagsOK     == writeLock \in BOOLEAN /\ stop \in {"no", "begun", "waiting", "done"} /\ panicked \in BOOLEAN

LEMMA TypeOKParts ==
  TypeOK <=> /\ NetworkOK /\ current \in [Nic -> AnyAddr] /\ WatcherOK /\ PathsOK /\ ChoiceOK
             /\ HeartbeatOK /\ RecvOK /\ FlagsOK
  BY DEF TypeOK, NetworkOK, WatcherOK, PathsOK, ChoiceOK, HeartbeatOK, RecvOK, FlagsOK

(* The parts a step leaves alone.                                          *)
LEMMA PartsUnchanged ==
  ASSUME TypeOK
  PROVE  /\ UNCHANGED network => NetworkOK'
         /\ UNCHANGED watch => current' \in [Nic -> AnyAddr] /\ WatcherOK'
         /\ UNCHANGED current => current' \in [Nic -> AnyAddr]
         /\ UNCHANGED watcher => WatcherOK'
         /\ UNCHANGED <<paths, path>> => PathsOK'
         /\ UNCHANGED choice => ChoiceOK'
         /\ UNCHANGED heartbeat => HeartbeatOK'
         /\ UNCHANGED recv => RecvOK'
         /\ UNCHANGED <<writeLock, stop, panicked>> => FlagsOK'
  BY TypeOKParts DEF NetworkOK, WatcherOK, PathsOK, ChoiceOK, HeartbeatOK, RecvOK, FlagsOK,
                     network, watch, choice, recv

LEMMA TypeOKMade ==
  /\ NetworkOK' /\ current' \in [Nic -> AnyAddr] /\ WatcherOK' /\ PathsOK' /\ ChoiceOK'
  /\ HeartbeatOK' /\ RecvOK' /\ FlagsOK'
  => TypeOK'
  BY DEF TypeOK, NetworkOK, WatcherOK, PathsOK, ChoiceOK, HeartbeatOK, RecvOK, FlagsOK

LEMMA ListedPaths ==
  ASSUME PathsOK
  PROVE  /\ Present \subseteq Nic /\ Usable \subseteq Present /\ Listed \subseteq PathId
         /\ \A n \in Present : paths[n] \in Listed
  BY Numbers DEF PathsOK, Present, Usable, Listed

LEMMA SelectBestType ==
  ASSUME TypeOK, SelectBest
  PROVE  active' \in AnyNic /\ cooling' \in BOOLEAN
<1>1. Best \subseteq AnyNic
  BY ListedPaths, TypeOKParts DEF Best, Fastest, ChoiceOK, AnyNic
<1> QED BY <1>1, TypeOKParts DEF SelectBest, ChoiceOK

LEMMA SuspectType ==
  ASSUME PathsOK, NEW F, Suspect(F)
  PROVE  path' \in [PathId -> Path]
<1>1. \A p \in Path : [p EXCEPT !.status = "suspect"] \in Path
  BY DEF Path, Status
<1> QED BY <1>1 DEF PathsOK, Suspect

LEMMA IdleType ==
  /\ Nobody \in [Nic -> AnyAddr]
  /\ Idle \in [step : {"idle"}, removed : SUBSET Nic, added : [Nic -> AnyAddr], news : BOOLEAN,
               path : PathId \cup {NoPath}]
  /\ \A S \in SUBSET Nic : NextStale(S) \in [step : {"sleep", "recycle"}, stale : SUBSET Nic, path : {NoPath}]
  BY DEF Nobody, AnyAddr, Idle, Asleep, NextStale

(* The paths Start adds have different identities.                         *)
LEMMA NumberingExists ==
  ASSUME NEW S \in SUBSET Nic
  PROVE  \E f \in [S -> PathId] : \A n, k \in S : n # k => f[n] # f[k]
<1>1. PICK f \in [Nic -> PathId] : \A n, k \in Nic : n # k => f[n] # f[k]
  BY MultiPathAssumption
<1> WITNESS [n \in S |-> f[n]] \in [S -> PathId]
<1> QED BY <1>1

LEMMA InitPaths ==
  ASSUME Init
  PROVE  /\ PathsOK
         /\ ChoiceOK
         /\ \A n \in Present : /\ path[paths[n]].nic = n /\ path[paths[n]].addr = current[n]
                               /\ current[n] # NoAddr
                               /\ path[paths[n]].open /\ ~path[paths[n]].closed
         /\ \A i \in PathId \ Listed : ~path[i].open /\ ~Looping(path[i])
<1> DEFINE started == {n \in Nic : current[n] # NoAddr /\ CanBind(n, current[n])}
           id == CHOOSE f \in [started -> PathId] : \A n, k \in started : n # k => f[n] # f[k]
           nicOf(i) == CHOOSE n \in started : id[n] = i
<1>0. started \in SUBSET Nic
  OBVIOUS
<1>1. id \in [started -> PathId] /\ \A n, k \in started : n # k => id[n] # id[k]
  <2> HIDE DEF started
  <2>1. \E f \in [started -> PathId] : \A n, k \in started : n # k => f[n] # f[k]
    BY <1>0, NumberingExists
  <2> QED BY <2>1
<1>2. /\ paths = [n \in Nic |-> IF n \in started THEN id[n] ELSE NoPath]
      /\ path = [i \in PathId |-> IF \E n \in started : id[n] = i
                                  THEN NewPath(nicOf(i), current[nicOf(i)]) ELSE DeadPath]
      /\ mode \in Modes
      /\ active \in (IF mode = "redundant" \/ started = {} THEN {NoNic} ELSE started)
      /\ cooling = (active # NoNic)
      /\ current \in [Nic -> AnyAddr]
  BY DEF Init
<1>3. started \subseteq Nic /\ \A n \in started : current[n] \in Addr
  BY <1>2 DEF AnyAddr
<1> HIDE DEF started, id
<1>4. \A n \in started : nicOf(id[n]) = n
  BY <1>1
<1>5. \A i \in PathId : (\E n \in started : id[n] = i) => nicOf(i) \in started /\ id[nicOf(i)] = i
  OBVIOUS
<1> HIDE DEF nicOf
<1>6. PathsOK
  BY <1>1, <1>2, <1>3, <1>5, NewPathFields, DeadPathFields DEF PathsOK
<1>7. Present = started /\ \A n \in started : paths[n] = id[n]
  BY <1>1, <1>2, <1>3, Numbers DEF Present
<1>8. \A n \in started : path[id[n]] = NewPath(n, current[n])
  BY <1>1, <1>2, <1>4
<1>9. \A i \in PathId \ Listed : path[i] = DeadPath
  BY <1>2, <1>7 DEF Listed
<1>10. ChoiceOK
  BY <1>2, <1>3 DEF ChoiceOK, AnyNic
<1>11. \A n \in started : current[n] # NoAddr
  BY <1>3, MultiPathAssumption
<1> QED BY <1>3, <1>6, <1>7, <1>8, <1>9, <1>10, <1>11, NewPathFields, DeadPathFields

LEMMA InitTypeOK == Init => TypeOK
<1> SUFFICES ASSUME Init PROVE TypeOK
  OBVIOUS
<1>1. NetworkOK /\ current \in [Nic -> AnyAddr]
  BY Numbers DEF Init, NetworkOK
<1>2. WatcherOK
  BY IdleType DEF Init, WatcherOK
<1>3. HeartbeatOK
  BY DEF Init, HeartbeatOK, Asleep
<1> QED BY <1>1, <1>2, <1>3, InitPaths, TypeOKParts DEF Init, RecvOK, FlagsOK

LEMMA SendingType ==
  ASSUME TypeOK,
         \/ \E m \in Modes : SetSendMode(m)
         \/ \E S \in SUBSET PathId : SendRedundant(S) \/ Tick(S) \/ Announce(S)
         \/ \E n \in Nic : SendFailover(n)
  PROVE  TypeOK'
<1> USE TypeOKParts, PartsUnchanged
<1>1. ASSUME NEW m \in Modes, SetSendMode(m) PROVE TypeOK'
  <2>1. ChoiceOK'
    BY <1>1, SelectBestType DEF SetSendMode, ChoiceOK
  <2> QED BY <1>1, <2>1, TypeOKMade DEF SetSendMode
<1>2. ASSUME NEW S \in SUBSET PathId, SendRedundant(S) PROVE TypeOK'
  <2>1. PathsOK'
    BY <1>2, SuspectType DEF SendRedundant, PathsOK
  <2> QED BY <1>2, <2>1, TypeOKMade DEF SendRedundant
<1>3. ASSUME NEW n \in Nic, SendFailover(n) PROVE TypeOK'
  <2>1. PathsOK'
    BY <1>3, SuspectType DEF SendFailover, PathsOK
  <2> QED BY <1>3, <2>1, TypeOKMade DEF SendFailover
<1>4. ASSUME NEW S, SendAllHeartbeat(S), UNCHANGED <<paths, recvCh, reselect>> PROVE PathsOK' /\ RecvOK'
  <2>1. PathsOK'
    BY <1>4, SuspectType DEF SendAllHeartbeat, PathsOK
  <2>2. {paths[n] : n \in Usable} \subseteq PathId
    BY ListedPaths DEF Listed
  <2> QED BY <1>4, <2>1, <2>2 DEF SendAllHeartbeat, RecvOK
<1>5. ASSUME NEW S \in SUBSET PathId, Tick(S) PROVE TypeOK'
  <2>1. PathsOK' /\ RecvOK'
    BY <1>4, <1>5 DEF Tick
  <2>2. HeartbeatOK'
    BY <1>5 DEF Tick, HeartbeatOK
  <2> QED BY <1>5, <2>1, <2>2, TypeOKMade DEF Tick
<1>6. ASSUME NEW S \in SUBSET PathId, Announce(S) PROVE TypeOK'
  <2>1. PathsOK' /\ RecvOK'
    BY <1>4, <1>6 DEF Announce
  <2>2. WatcherOK'
    BY <1>6 DEF Announce, WatcherOK
  <2> QED BY <1>6, <2>1, <2>2, TypeOKMade DEF Announce
<1> QED BY <1>1, <1>2, <1>3, <1>5, <1>6

LEMMA ReceivingType ==
  ASSUME TypeOK,
         \/ \E i \in PathId : Receive(i) \/ Retry(i)
         \/ \E n \in Nic, r \in RTTs : UpdateRTT(n, r)
         \/ Reselect
  PROVE  TypeOK'
<1> USE TypeOKParts, PartsUnchanged
<1>1. ASSUME NEW i \in PathId, Receive(i) PROVE TypeOK'
  <2>1. path[i] \in Path
    BY DEF PathsOK
  <2>2. path[i].nic \in Nic
    BY <2>1 DEF Path
  <2>3. path[i].reading > 0 => [path[i] EXCEPT !.reading = @ - 1] \in Path
    BY <2>1, Numbers DEF Path
  <2>4. path' \in [PathId -> Path]
    BY <1>1, <2>3 DEF Receive, PathsOK
  <2>5. PathsOK' /\ RecvOK'
    BY <1>1, <2>2, <2>4 DEF Receive, PathsOK, RecvOK
  <2> QED BY <1>1, <2>5, TypeOKMade DEF Receive
<1>2. ASSUME NEW i \in PathId, Retry(i) PROVE TypeOK'
  <2> DEFINE ends == path[i].closed \/ stop # "no"
             q == [path[i] EXCEPT !.failing = @ - 1, !.reading = IF ends THEN @ ELSE Capped(@ + 1)]
  <2>1. path[i] \in Path /\ path[i].failing > 0
    BY <1>2 DEF PathsOK, Retry
  <2>2. Capped(path[i].reading + 1) \in 0 .. MaxLoops
    BY <2>1, CappedRange DEF Path
  <2>3. q \in Path
    <3> DEFINE reads == IF ends THEN path[i].reading ELSE Capped(path[i].reading + 1)
               fails == path[i].failing - 1
    <3>1. reads \in 0 .. MaxLoops /\ fails \in 0 .. MaxLoops
      BY <2>1, <2>2, Numbers DEF Path
    <3>2. q = [path[i] EXCEPT !.failing = fails, !.reading = reads]
      OBVIOUS
    <3> HIDE DEF reads, fails, q
    <3> QED BY <2>1, <3>1, <3>2 DEF Path
  <2>4. path' = [path EXCEPT ![i] = q]
    BY <1>2 DEF Retry, PathsOK
  <2> HIDE DEF q
  <2>5. PathsOK'
    BY <1>2, <2>3, <2>4 DEF PathsOK, Retry
  <2> QED BY <1>2, <2>5, TypeOKMade DEF Retry
<1>3. ASSUME NEW n \in Nic, NEW r \in RTTs, UpdateRTT(n, r) PROVE TypeOK'
  <2>1. PathsOK'
    BY <1>3, HeardFields, ListedPaths DEF UpdateRTT, PathsOK
  <2>2. RecvOK'
    BY <1>3 DEF UpdateRTT, RecvOK
  <2> QED BY <1>3, <2>1, <2>2, TypeOKMade DEF UpdateRTT
<1>4. CASE Reselect
  <2>1. ChoiceOK' /\ RecvOK'
    BY <1>4, SelectBestType DEF Reselect, ChoiceOK, RecvOK
  <2> QED BY <1>4, <2>1, TypeOKMade DEF Reselect
<1> QED BY <1>1, <1>2, <1>3, <1>4

LEMMA RecyclingType ==
  ASSUME TypeOK, CheckStale \/ Recycler
  PROVE  TypeOK'
<1> USE TypeOKParts, PartsUnchanged
<1>1. CASE CheckStale
  <2>1. \A p \in Path : [p EXCEPT !.status = "down"] \in Path
    BY DEF Path, Status
  <2>2. PathsOK'
    BY <1>1, <2>1 DEF CheckStale, PathsOK
  <2>3. HeartbeatOK'
    BY <1>1, IdleType, ListedPaths DEF CheckStale, HeartbeatOK
  <2> QED BY <1>1, <2>2, <2>3, TypeOKMade DEF CheckStale
<1>2. ASSUME NEW n \in Nic, RecycleClose(n) PROVE TypeOK'
  <2>1. CASE n \in Present
    <3>1. paths[n] \in PathId /\ path[paths[n]] \in Path
      BY <2>1, ListedPaths DEF PathsOK
    <3>2. path[paths[n]].closed \in BOOLEAN /\ Shut(path[paths[n]]) \in Path
      BY <3>1, ShutFields DEF Path
    <3>3. PathsOK' /\ RecvOK' /\ FlagsOK' /\ HeartbeatOK'
      BY <1>2, <2>1, <3>1, <3>2 DEF RecycleClose, PathsOK, RecvOK, FlagsOK, HeartbeatOK
    <3> QED BY <1>2, <3>3, TypeOKMade DEF RecycleClose
  <2>2. CASE n \notin Present
    <3>1. HeartbeatOK'
      BY <1>2, <2>2, IdleType DEF RecycleClose, HeartbeatOK
    <3>2. PathsOK' /\ RecvOK' /\ FlagsOK'
      BY <1>2, <2>2 DEF RecycleClose, PathsOK, RecvOK, FlagsOK
    <3> QED BY <1>2, <3>1, <3>2, TypeOKMade DEF RecycleClose
  <2> QED BY <2>1, <2>2
<1>3. CASE RecycleOpen
  <2> DEFINE i == heartbeat.path
  <2>1. \A p \in Path : [p EXCEPT !.status = "down"] \in Path
    BY DEF Path, Status
  <2>2. path' \in [PathId -> Path]
    BY <1>3, <2>1, ReopenedFields DEF RecycleOpen, PathsOK
  <2>3. heartbeat.stale \in SUBSET Nic
    BY DEF HeartbeatOK
  <2>4. HeartbeatOK'
    BY <1>3, <2>3, IdleType DEF RecycleOpen, HeartbeatOK
  <2>5. PathsOK' /\ FlagsOK'
    BY <1>3, <2>2 DEF RecycleOpen, PathsOK, FlagsOK
  <2> QED BY <1>3, <2>4, <2>5, TypeOKMade DEF RecycleOpen
<1> QED BY <1>1, <1>2, <1>3 DEF Recycler

LEMMA WatchingType ==
  ASSUME TypeOK, watcher.step = "close" => watcher.path \in PathId,
         \/ \E scan \in {nics, Nobody} : DetectChanges(scan)
         \/ \E n \in Nic : RemoveLookup(n) \/ AddPath(n)
         \/ RemoveClose \/ RemoveDelete \/ FinishChanges \/ WatcherQuit
  PROVE  TypeOK'
<1> USE TypeOKParts, PartsUnchanged
<1>1. ASSUME NEW scan \in {nics, Nobody}, DetectChanges(scan) PROVE TypeOK'
  <2>1. scan \in [Nic -> AnyAddr]
    BY IdleType DEF NetworkOK
  <2>2. Changed(scan) \subseteq Nic
    BY DEF Changed
  <2>3. WatcherOK' /\ current' \in [Nic -> AnyAddr]
    <3> DEFINE added == [n \in Nic |-> IF n \in Changed(scan) THEN scan[n] ELSE NoAddr]
               removed == {n \in Changed(scan) : current[n] # NoAddr}
               news == watcher.news \/ \E n \in Changed(scan) : scan[n] # NoAddr
    <3>1. added \in [Nic -> AnyAddr]
      BY <2>1 DEF AnyAddr
    <3>2. removed \in SUBSET Nic /\ news \in BOOLEAN
      BY <2>2 DEF WatcherOK
    <3>3. /\ watcher' = [step |-> IF Changed(scan) = {} THEN "idle" ELSE "update",
                         removed |-> removed, added |-> added, news |-> news, path |-> NoPath]
          /\ current' = scan
      BY <1>1 DEF DetectChanges
    <3> HIDE DEF added, removed, news
    <3> QED BY <2>1, <3>1, <3>2, <3>3 DEF WatcherOK
  <2>4. NetworkOK'
    BY <1>1, Numbers DEF DetectChanges, NetworkOK
  <2> QED BY <1>1, <2>3, <2>4, TypeOKMade DEF DetectChanges
<1>2. ASSUME NEW n \in Nic, RemoveLookup(n) PROVE TypeOK'
  <2>1. paths[n] \in PathId \cup {NoPath}
    BY DEF PathsOK
  <2>2. WatcherOK'
    BY <1>2, <2>1 DEF RemoveLookup, WatcherOK
  <2> QED BY <1>2, <2>2, TypeOKMade DEF RemoveLookup
<1>3. ASSUME NEW n \in Nic, AddPath(n) PROVE TypeOK'
  <2>1. watcher.added[n] \in Addr
    BY <1>3 DEF AddPath, WatcherOK, AnyAddr
  <2>2. PathsOK'
    BY <1>3, <2>1, NewPathFields DEF AddPath, PathsOK
  <2>3. WatcherOK'
    BY <1>3 DEF AddPath, WatcherOK, AnyAddr
  <2> QED BY <1>3, <2>2, <2>3, TypeOKMade DEF AddPath
<1>4. CASE RemoveClose
  <2>1. PathsOK'
    BY <1>4, ShutFields DEF RemoveClose, PathsOK
  <2>2. WatcherOK' /\ RecvOK'
    BY <1>4 DEF RemoveClose, WatcherOK, RecvOK
  <2>3. FlagsOK'
    BY <1>4 DEF RemoveClose, FlagsOK, PathsOK, Path
  <2> QED BY <1>4, <2>1, <2>2, <2>3, TypeOKMade DEF RemoveClose
<1>5. CASE RemoveDelete
  <2>1. PathsOK'
    BY <1>5, ForgottenFields DEF RemoveDelete, PathsOK
  <2>2. WatcherOK'
    BY <1>5 DEF RemoveDelete, WatcherOK
  <2> QED BY <1>5, <2>1, <2>2, TypeOKMade DEF RemoveDelete
<1>6. CASE FinishChanges
  <2>1. ChoiceOK'
    BY <1>6, SelectBestType DEF FinishChanges, Reselected, ChoiceOK
  <2>2. WatcherOK'
    BY <1>6, IdleType DEF FinishChanges, WatcherOK
  <2> QED BY <1>6, <2>1, <2>2, TypeOKMade DEF FinishChanges
<1>7. CASE WatcherQuit
  <2>1. WatcherOK'
    BY <1>7 DEF WatcherQuit, WatcherOK
  <2> QED BY <1>7, <2>1, TypeOKMade DEF WatcherQuit
<1> QED BY <1>1, <1>2, <1>3, <1>4, <1>5, <1>6, <1>7

LEMMA StoppingType ==
  ASSUME TypeOK, StopBegin \/ StopClose \/ StopDone
  PROVE  TypeOK'
<1> USE TypeOKParts, PartsUnchanged
<1>1. CASE StopBegin \/ StopDone
  <2>1. FlagsOK'
    BY <1>1 DEF StopBegin, StopDone, FlagsOK
  <2> QED BY <1>1, <2>1, TypeOKMade DEF StopBegin, StopDone
<1>2. CASE StopClose
  <2>1. ASSUME NEW p \in Path, NEW b \in BOOLEAN PROVE [Forgotten(Shut(p)) EXCEPT !.closed = b] \in Path
    <3>1. Forgotten(Shut(p)) \in Path
      BY ShutFields, ForgottenFields
    <3> QED BY <3>1 DEF Path
  <2>2. \A i \in PathId : path[i] \in Path /\ path[i].closed \in BOOLEAN
    BY DEF PathsOK, Path
  <2>3. PathsOK'
    BY <1>2, <2>1, <2>2 DEF StopClose, PathsOK
  <2>4. FlagsOK'
    BY <1>2 DEF StopClose, FlagsOK
  <2> QED BY <1>2, <2>3, <2>4, TypeOKMade DEF StopClose
<1> QED BY <1>1, <1>2

LEMMA EnvironmentType ==
  ASSUME TypeOK, Time \/ World
  PROVE  TypeOK'
<1> USE TypeOKParts, PartsUnchanged
<1>1. ASSUME NEW quiet \in SUBSET PathId, NEW aged \in SUBSET PathId, Sleep(quiet, aged) PROVE TypeOK'
  <2>1. ASSUME NEW p \in Path, NEW b \in BOOLEAN, NEW a \in Age
        PROVE  [p EXCEPT !.silent = b, !.age = a] \in Path
    BY DEF Path
  <2> DEFINE quieter(i) == path[i].silent \/ i \in quiet
             older(i) == CASE path[i].age = "fresh" -> "recent"
                           [] i \in aged /\ path[i].age = "recent" -> "cooled"
                           [] i \in aged /\ path[i].age = "cooled" -> "old"
                           [] OTHER -> path[i].age
  <2>2. \A i \in PathId : path[i] \in Path /\ quieter(i) \in BOOLEAN /\ older(i) \in Age
    BY DEF PathsOK, Path, Age
  <2>3. path' = [i \in PathId |-> [path[i] EXCEPT !.silent = quieter(i), !.age = older(i)]]
    BY <1>1 DEF Sleep
  <2> HIDE DEF quieter, older
  <2>4. PathsOK'
    <3>1. \A i \in PathId : [path[i] EXCEPT !.silent = quieter(i), !.age = older(i)] \in Path
      BY <2>1, <2>2
    <3>2. path' \in [PathId -> Path]
      BY <2>3, <3>1
    <3> QED BY <1>1, <3>2 DEF Sleep, PathsOK
  <2>5. HeartbeatOK'
    BY <1>1 DEF Sleep, HeartbeatOK
  <2> QED BY <1>1, <2>4, <2>5, TypeOKMade DEF Sleep
<1>2. CASE CoolDown
  <2>1. ChoiceOK'
    BY <1>2 DEF CoolDown, ChoiceOK
  <2> QED BY <1>2, <2>1, TypeOKMade DEF CoolDown
<1>3. ASSUME NEW n \in Nic, Silence(n) \/ \E a \in AnyAddr : NicChange(n, a) PROVE TypeOK'
  <2>1. NetworkOK'
    BY <1>3, Numbers DEF Silence, NicChange, NetworkOK
  <2> QED BY <1>3, <2>1, TypeOKMade DEF Silence, NicChange, watch
<1>4. ASSUME NEW i \in PathId, Lose(i) PROVE TypeOK'
  <2>1. RecvOK'
    BY <1>4 DEF Lose, RecvOK
  <2> QED BY <1>4, <2>1, TypeOKMade DEF Lose
<1> QED BY <1>1, <1>2, <1>3, <1>4 DEF Time, World

LEMMA StutterType ==
  ASSUME TypeOK, UNCHANGED vars
  PROVE  TypeOK'
  BY TypeOKParts, PartsUnchanged, TypeOKMade DEF vars

------------------------------------------------------------------------------
(* Who holds which path.                                                   *)

(* An entry of m.paths is a path of that interface, so no path is listed   *)
(* twice.                                                                  *)
OwnNic == \A n \in Present : path[paths[n]].nic = n

(* While recyclePath holds m.mu it has shut down a path that is listed.    *)
RecycleInv ==
  /\ heartbeat.step = "open" => /\ writeLock /\ heartbeat.path \in Listed
                                /\ path[heartbeat.path].closed /\ ~path[heartbeat.path].open
  /\ heartbeat.step # "open" => ~writeLock /\ heartbeat.path = NoPath

Removing == watcher.step \in {"close", "delete"}

(* The path removePath has looked up is listed until it is deleted, unless *)
(* Stop has deleted them all.  Once removePath has shut it down nobody     *)
(* opens it again: a recycling under way would have closed its channel     *)
(* twice.                                                                  *)
RemoveInv ==
  /\ Removing => /\ watcher.path \in PathId
                 /\ watcher.path \in Listed \/ (Listed = {} /\ stop # "no")
  /\ ~Removing => watcher.path = NoPath
  /\ watcher.step = "delete" /\ ~panicked =>
       path[watcher.path].closed /\ ~path[watcher.path].open /\ heartbeat.path # watcher.path

(* What is listed agrees with the last scan, or has yet to be removed; what*)
(* has yet to be added is what the scan found where no path is left.       *)
ScanInv ==
  /\ watcher.step \in {"idle", "quit"} => watcher.removed = {}
  /\ \A n \in Nic : watcher.added[n] \in {NoAddr, current[n]}
  /\ \A n \in Present : \/ n \in watcher.removed \/ paths[n] = watcher.path
                        \/ path[paths[n]].addr = current[n] /\ watcher.added[n] = NoAddr

PathInv == /\ OwnNic /\ RecycleInv /\ RemoveInv /\ ScanInv
           /\ SocketsAccounted /\ RemovedLoopsEnd

LEMMA ListedIs ==
  ASSUME PathsOK
  PROVE  /\ \A i : i \in Listed <=> \E n \in Present : i = paths[n]
         /\ \A n \in Present : paths[n] \in Listed /\ paths[n] \in PathId
         /\ \A n \in Nic : n \in Present <=> paths[n] # NoPath
         /\ Present \subseteq Nic /\ Listed \subseteq PathId
  BY ListedPaths DEF Listed, Present

LEMMA InitPathInv == Init => PathInv
<1> SUFFICES ASSUME Init PROVE PathInv
  OBVIOUS
<1>1. OwnNic /\ SocketsAccounted /\ RemovedLoopsEnd
  BY InitPaths DEF OwnNic, SocketsAccounted, RemovedLoopsEnd, Looping, Loops
<1>2. RecycleInv /\ RemoveInv
  BY DEF Init, RecycleInv, RemoveInv, Removing, Asleep, Idle
<1>3. ScanInv
  <2>1. watcher = Idle /\ \A n \in Nic : watcher.added[n] = NoAddr
    BY DEF Init, Idle, Nobody
  <2> QED BY <2>1, InitPaths DEF ScanInv, Idle, Present
<1> QED BY <1>1, <1>2, <1>3 DEF PathInv

(* The path objects keep what PathInv is about.                            *)
Kept(i) == /\ path'[i].nic = path[i].nic /\ path'[i].addr = path[i].addr
           /\ path'[i].open = path[i].open /\ path'[i].closed = path[i].closed
           /\ Looping(path'[i]) => Looping(path[i])

(* The watcher goes on, without touching what it holds.                    *)
WatcherKept ==
  /\ watcher'.removed = watcher.removed /\ watcher'.added = watcher.added /\ watcher'.path = watcher.path
  /\ Removing' = Removing /\ (watcher'.step = "delete" <=> watcher.step = "delete")
  /\ watcher'.step \in {"idle", "quit"} => watcher.removed = {}
  /\ watcher.step \in {"idle", "quit"} => watcher'.step \in {"idle", "quit"}

HeartbeatKept ==
  /\ heartbeat'.step = "open" <=> heartbeat.step = "open"
  /\ heartbeat'.path = heartbeat.path

(* Steps that open, close, add and remove nothing.                         *)
Quiet ==
  /\ UNCHANGED <<paths, current, writeLock, panicked>> /\ (nics' = nics \/ "nic" \in Faults)
  /\ WatcherKept /\ HeartbeatKept
  /\ stop # "no" => stop' # "no"
  /\ \A i \in PathId : Kept(i)

LEMMA QuietStep ==
  ASSUME TypeOK, PathInv, Quiet
  PROVE  PathInv'
<1> USE DEF Quiet
<1>0. PathsOK
  BY TypeOKParts
<1>1. Present' = Present /\ Listed' = Listed
  BY DEF Present, Listed
<1> HIDE DEF Present, Listed
<1>2. \A n \in Present : paths[n] \in PathId /\ paths[n] \in Listed
  BY <1>0, ListedIs
<1>3. OwnNic'
  BY <1>1, <1>2 DEF PathInv, OwnNic, Kept
<1>4. RecycleInv'
  <2>1. Listed \subseteq PathId
    BY <1>0, ListedIs
  <2> QED BY <1>1, <2>1 DEF PathInv, RecycleInv, HeartbeatKept, Kept
<1>5. RemoveInv'
  BY <1>1 DEF PathInv, RemoveInv, WatcherKept, HeartbeatKept, Kept, Removing
<1>6. ScanInv'
  BY <1>1, <1>2 DEF PathInv, ScanInv, WatcherKept, Kept
<1>7. SocketsAccounted'
  BY <1>1 DEF PathInv, SocketsAccounted, Kept
<1>8. RemovedLoopsEnd'
  BY <1>1 DEF PathInv, RemovedLoopsEnd, Kept, Looping, Loops
<1> QED BY <1>3, <1>4, <1>5, <1>6, <1>7, <1>8 DEF PathInv

LEMMA SuspectKeeps ==
  ASSUME PathsOK, NEW F, Suspect(F)
  PROVE  \A i \in PathId : Kept(i)
<1>1. \A i \in PathId : path[i] \in Path
  BY DEF PathsOK
<1>2. \A p \in Path : LET q == [p EXCEPT !.status = "suspect"]
                      IN  /\ q.nic = p.nic /\ q.addr = p.addr /\ q.open = p.open /\ q.closed = p.closed
                          /\ Loops(q) = Loops(p)
  BY DEF Path, Loops
<1>3. \A i \in PathId : path'[i] = IF i \in F THEN [path[i] EXCEPT !.status = "suspect"] ELSE path[i]
  BY DEF Suspect
<1> QED BY <1>1, <1>2, <1>3 DEF Kept, Looping

LEMMA UnchangedKeeps == UNCHANGED path => \A i \in PathId : Kept(i)
  BY DEF Kept

LEMMA OthersKeep ==
  /\ UNCHANGED watcher /\ (watcher.step \in {"idle", "quit"} => watcher.removed = {}) => WatcherKept
  /\ UNCHANGED heartbeat => HeartbeatKept
  BY DEF WatcherKept, HeartbeatKept, Removing

LEMMA SendingIsQuiet ==
  ASSUME TypeOK, PathInv,
         \/ \E m \in Modes : SetSendMode(m)
         \/ \E S \in SUBSET PathId : SendRedundant(S) \/ Tick(S) \/ Announce(S)
         \/ \E n \in Nic : SendFailover(n)
  PROVE  Quiet
<1> USE OthersKeep
<1>0. PathsOK /\ WatcherOK /\ HeartbeatOK /\ (watcher.step \in {"idle", "quit"} => watcher.removed = {})
  BY TypeOKParts DEF PathInv, ScanInv
<1>1. ASSUME NEW m \in Modes, SetSendMode(m) PROVE Quiet
  BY <1>0, <1>1, UnchangedKeeps DEF Quiet, network, SetSendMode, watch
<1>2. ASSUME NEW S \in SUBSET PathId, SendRedundant(S) PROVE Quiet
  BY <1>0, <1>2, SuspectKeeps DEF Quiet, network, SendRedundant, watch
<1>3. ASSUME NEW n \in Nic, SendFailover(n) PROVE Quiet
  BY <1>0, <1>3, SuspectKeeps DEF Quiet, network, SendFailover, watch
<1>4. ASSUME NEW S \in SUBSET PathId, Tick(S) PROVE Quiet
  <2>1. \A i \in PathId : Kept(i)
    BY <1>0, <1>4, SuspectKeeps DEF Tick, SendAllHeartbeat
  <2>2. HeartbeatKept
    BY <1>0, <1>4 DEF Tick, HeartbeatKept, HeartbeatOK
  <2> QED BY <1>0, <1>4, <2>1, <2>2 DEF Quiet, network, Tick, watch
<1>5. ASSUME NEW S \in SUBSET PathId, Announce(S) PROVE Quiet
  <2>1. \A i \in PathId : Kept(i)
    BY <1>0, <1>5, SuspectKeeps DEF Announce, SendAllHeartbeat
  <2>2. WatcherKept
    BY <1>0, <1>5 DEF Announce, WatcherKept, WatcherOK, Removing
  <2> QED BY <1>0, <1>5, <2>1, <2>2 DEF Quiet, network, Announce
<1> QED BY <1>1, <1>2, <1>3, <1>4, <1>5

LEMMA ReceivingIsQuiet ==
  ASSUME TypeOK, PathInv,
         \/ \E i \in PathId : Receive(i) \/ Retry(i)
         \/ \E n \in Nic, r \in RTTs : UpdateRTT(n, r)
         \/ Reselect
  PROVE  Quiet
<1> USE OthersKeep
<1>0. PathsOK /\ WatcherOK /\ HeartbeatOK /\ (watcher.step \in {"idle", "quit"} => watcher.removed = {})
  BY TypeOKParts DEF PathInv, ScanInv
<1>1. ASSUME NEW i \in PathId, Receive(i) PROVE Quiet
  <2>1. path[i] \in Path /\ path[i].reading > 0
    BY <1>0, <1>1 DEF PathsOK, Receive
  <2>2. CASE path' = [path EXCEPT ![i].reading = @ - 1]
    <3> DEFINE q == [path[i] EXCEPT !.reading = @ - 1]
    <3>1. \A j \in PathId : path'[j] = IF j = i THEN q ELSE path[j]
      BY <1>0, <2>2 DEF PathsOK
    <3>2. /\ q.nic = path[i].nic /\ q.addr = path[i].addr
          /\ q.open = path[i].open /\ q.closed = path[i].closed
      BY <2>1 DEF Path
    <3>3. Looping(path[i])
      BY <2>1 DEF Path, Looping, Loops
    <3> HIDE DEF q
    <3>4. \A j \in PathId : Kept(j)
      BY <3>1, <3>2, <3>3 DEF Kept
    <3> QED BY <1>0, <1>1, <3>4 DEF Quiet, network, Receive, watch
  <2>3. CASE UNCHANGED path
    BY <1>0, <1>1, <2>3, UnchangedKeeps DEF Quiet, network, Receive, watch
  <2> QED BY <1>1, <2>2, <2>3 DEF Receive
<1>2. ASSUME NEW i \in PathId, Retry(i) PROVE Quiet
  <2> DEFINE ends == path[i].closed \/ stop # "no"
             q == [path[i] EXCEPT !.failing = @ - 1, !.reading = IF ends THEN @ ELSE Capped(@ + 1)]
  <2>1. path[i] \in Path /\ path[i].failing > 0
    BY <1>0, <1>2 DEF PathsOK, Retry
  <2>2. \A j \in PathId : path'[j] = IF j = i THEN q ELSE path[j]
    BY <1>0, <1>2 DEF PathsOK, Retry
  <2>3. /\ q.nic = path[i].nic /\ q.addr = path[i].addr
        /\ q.open = path[i].open /\ q.closed = path[i].closed
    BY <2>1 DEF Path
  <2>4. Looping(path[i])
    BY <2>1 DEF Path, Looping, Loops
  <2> HIDE DEF q
  <2>5. \A j \in PathId : Kept(j)
    BY <2>2, <2>3, <2>4 DEF Kept
  <2> QED BY <1>0, <1>2, <2>5 DEF Quiet, network, Retry, watch
<1>3. ASSUME NEW n \in Nic, NEW r \in RTTs, UpdateRTT(n, r) PROVE Quiet
  <2>1. \A i \in PathId : Kept(i)
    <3>1. CASE n \in Present
      <4>1. paths[n] \in PathId /\ path[paths[n]] \in Path
        BY <1>0, <3>1, ListedIs DEF PathsOK
      <4>2. \A i \in PathId : path'[i] = IF i = paths[n] THEN Heard(path[i], r) ELSE path[i]
        BY <1>0, <1>3, <3>1, <4>1 DEF UpdateRTT, PathsOK
      <4> QED BY <4>1, <4>2, HeardFields DEF Kept, Looping
    <3> QED BY <1>3, <3>1, UnchangedKeeps DEF UpdateRTT
  <2> QED BY <1>0, <1>3, <2>1 DEF Quiet, network, UpdateRTT, watch
<1>4. CASE Reselect
  BY <1>0, <1>4, UnchangedKeeps DEF Quiet, network, Reselect, watch
<1> QED BY <1>1, <1>2, <1>3, <1>4

LEMMA EnvironmentIsQuiet ==
  ASSUME TypeOK, PathInv, Time \/ World \/ StopBegin \/ StopDone \/ WatcherQuit \/ UNCHANGED vars
  PROVE  Quiet
<1> USE OthersKeep
<1>0. /\ PathsOK /\ WatcherOK /\ HeartbeatOK /\ (watcher.step \in {"idle", "quit"} => watcher.removed = {})
      /\ heartbeat.step # "open" => ~writeLock /\ heartbeat.path = NoPath
  BY TypeOKParts DEF PathInv, ScanInv, RecycleInv
<1>1. ASSUME NEW quiet \in SUBSET PathId, NEW aged \in SUBSET PathId, Sleep(quiet, aged) PROVE Quiet
  <2>1. ASSUME NEW p \in Path, NEW q, NEW b, NEW a, q = [p EXCEPT !.silent = b, !.age = a]
        PROVE  /\ q.nic = p.nic /\ q.addr = p.addr /\ q.open = p.open
               /\ q.closed = p.closed /\ Loops(q) = Loops(p)
    BY <2>1 DEF Path, Loops
  <2> DEFINE quieter(i) == path[i].silent \/ i \in quiet
             older(i) == CASE path[i].age = "fresh" -> "recent"
                           [] i \in aged /\ path[i].age = "recent" -> "cooled"
                           [] i \in aged /\ path[i].age = "cooled" -> "old"
                           [] OTHER -> path[i].age
  <2>2. path' = [i \in PathId |-> [path[i] EXCEPT !.silent = quieter(i), !.age = older(i)]]
    BY <1>1 DEF Sleep
  <2> HIDE DEF quieter, older
  <2>3. \A i \in PathId : path[i] \in Path /\ path'[i] = [path[i] EXCEPT !.silent = quieter(i), !.age = older(i)]
    BY <1>0, <2>2 DEF PathsOK
  <2>4. ASSUME NEW i \in PathId PROVE Kept(i)
    <3> DEFINE q == path'[i]
    <3>1. path[i] \in Path /\ q = [path[i] EXCEPT !.silent = quieter(i), !.age = older(i)]
      BY <2>3
    <3> HIDE DEF q
    <3>2. /\ q.nic = path[i].nic /\ q.addr = path[i].addr /\ q.open = path[i].open
          /\ q.closed = path[i].closed /\ Loops(q) = Loops(path[i])
      BY <2>1, <3>1
    <3> QED BY <3>2 DEF Kept, Looping, q
  <2>5. HeartbeatKept
    BY <1>0, <1>1 DEF Sleep, HeartbeatKept, HeartbeatOK
  <2> QED BY <1>0, <1>1, <2>4, <2>5 DEF Quiet, network, Sleep, watch
<1>2. CASE CoolDown
  BY <1>0, <1>2, UnchangedKeeps DEF Quiet, network, CoolDown, watch
<1>3. ASSUME NEW n \in Nic, Silence(n) \/ \E a \in AnyAddr : NicChange(n, a) PROVE Quiet
  BY <1>0, <1>3, UnchangedKeeps DEF Quiet, network, Silence, NicChange, watch
<1>4. ASSUME NEW i \in PathId, Lose(i) PROVE Quiet
  BY <1>0, <1>4, UnchangedKeeps DEF Quiet, network, Lose, watch
<1>5. CASE StopBegin \/ StopDone
  BY <1>0, <1>5, UnchangedKeeps DEF Quiet, network, StopBegin, StopDone, watch
<1>6. CASE WatcherQuit
  <2>1. WatcherKept
    BY <1>0, <1>6 DEF WatcherQuit, WatcherKept, WatcherOK, Removing
  <2> QED BY <1>0, <1>6, <2>1, UnchangedKeeps DEF Quiet, network, WatcherQuit
<1>7. CASE UNCHANGED vars
  BY <1>0, <1>7, UnchangedKeeps DEF Quiet, network, vars, watch
<1> QED BY <1>1, <1>2, <1>3, <1>4, <1>5, <1>6, <1>7 DEF Time, World

LEMMA CheckStaleIsQuiet ==
  ASSUME TypeOK, PathInv, CheckStale
  PROVE  Quiet
<1> USE OthersKeep
<1>0. /\ PathsOK /\ HeartbeatOK /\ (watcher.step \in {"idle", "quit"} => watcher.removed = {})
      /\ heartbeat.step # "open" => ~writeLock /\ heartbeat.path = NoPath
  BY TypeOKParts DEF PathInv, ScanInv, RecycleInv
<1>1. \A p \in Path : LET q == [p EXCEPT !.status = "down"]
                      IN  /\ q.nic = p.nic /\ q.addr = p.addr /\ q.open = p.open
                          /\ q.closed = p.closed /\ Loops(q) = Loops(p)
  BY DEF Path, Loops
<1>2. \A i \in PathId : /\ path[i] \in Path
                        /\ path'[i] = path[i] \/ path'[i] = [path[i] EXCEPT !.status = "down"]
  BY <1>0 DEF CheckStale, PathsOK
<1>3. \A i \in PathId : Kept(i)
  BY <1>1, <1>2 DEF Kept, Looping
<1>4. HeartbeatKept
  <2>1. \E S \in SUBSET Nic : heartbeat' = NextStale(S)
    BY <1>0, ListedIs DEF CheckStale
  <2> QED BY <1>0, <2>1, IdleType DEF HeartbeatKept, CheckStale
<1> QED BY <1>0, <1>3, <1>4 DEF Quiet, network, CheckStale, watch

(* Shutting a path down closes it and opens none.                          *)
LEMMA Shutting ==
  ASSUME PathsOK, NEW i \in PathId, path' = [path EXCEPT ![i] = Shut(@)]
  PROVE  /\ \A j \in PathId : /\ path'[j].nic = path[j].nic /\ path'[j].addr = path[j].addr
                              /\ path'[j].open => path[j].open
                              /\ path[j].closed => path'[j].closed
                              /\ Looping(path'[j]) => Looping(path[j])
                              /\ j # i => path'[j] = path[j]
         /\ path'[i].closed /\ ~path'[i].open
<1>1. \A j \in PathId : path[j] \in Path /\ path'[j] = IF j = i THEN Shut(path[j]) ELSE path[j]
  BY DEF PathsOK
<1> QED BY <1>1, ShutFields

LEMMA LoopsEndIs ==
  /\ RemovedLoopsEnd <=> \A i \in PathId \ Listed : Looping(path[i]) => path[i].closed \/ stop # "no"
  /\ RemovedLoopsEnd' <=> \A i \in (PathId \ Listed)' : Looping(path'[i]) => path'[i].closed \/ stop' # "no"
  BY DEF RemovedLoopsEnd, Looping, Loops

LEMMA RecycleCloseKeeps ==
  ASSUME TypeOK, PathInv, ~panicked, NEW n \in Nic, RecycleClose(n)
  PROVE  PathInv' /\ (n \notin Present => Quiet)
<1>0. /\ PathsOK /\ HeartbeatOK /\ (watcher.step \in {"idle", "quit"} => watcher.removed = {})
      /\ heartbeat.step # "open" => ~writeLock /\ heartbeat.path = NoPath
  BY TypeOKParts DEF PathInv, ScanInv, RecycleInv
<1>1. CASE n \notin Present
  <2>1. heartbeat' = NextStale(heartbeat.stale \ {n}) /\ heartbeat.stale \ {n} \in SUBSET Nic
    BY <1>0, <1>1 DEF RecycleClose, HeartbeatOK
  <2>2. HeartbeatKept
    BY <1>0, <2>1, IdleType DEF HeartbeatKept, RecycleClose
  <2>3. Quiet
    BY <1>0, <1>1, <2>2, OthersKeep, UnchangedKeeps DEF RecycleClose, watch, Quiet, network
  <2> QED BY <1>1, <2>3, QuietStep
<1>2. CASE n \in Present
  <2> DEFINE i == paths[n]
  <2>1. i \in PathId /\ i \in Listed
    BY <1>0, <1>2, ListedIs
  <2>2. /\ path' = [path EXCEPT ![i] = Shut(@)] /\ panicked' = path[i].closed
        /\ writeLock' = TRUE /\ heartbeat'.step = "open" /\ heartbeat'.path = i
        /\ UNCHANGED <<paths, current, watcher, stop>>
    BY <1>2 DEF RecycleClose, watch
  <2> HIDE DEF i
  <2>3. /\ \A j \in PathId : /\ path'[j].nic = path[j].nic /\ path'[j].addr = path[j].addr
                             /\ path'[j].open => path[j].open
                             /\ path[j].closed => path'[j].closed
                             /\ j # i => path'[j] = path[j]
        /\ path'[i].closed /\ ~path'[i].open
    BY <1>0, <2>1, <2>2, Shutting
  <2>4. Present' = Present /\ Listed' = Listed
    BY <2>2 DEF Present, Listed
  <2>5. \A k \in Present : paths[k] \in PathId
    BY <1>0, ListedIs
  <2> HIDE DEF Present, Listed
  <2>6. OwnNic'
    BY <2>2, <2>3, <2>4, <2>5 DEF PathInv, OwnNic
  <2>7. RecycleInv'
    BY <2>1, <2>2, <2>3, <2>4 DEF RecycleInv
  <2>8. RemoveInv'
    BY <2>1, <2>2, <2>3, <2>4 DEF PathInv, RemoveInv, Removing
  <2>9. ScanInv'
    BY <2>2, <2>3, <2>4, <2>5 DEF PathInv, ScanInv
  <2>10. SocketsAccounted'
    BY <2>3, <2>4 DEF PathInv, SocketsAccounted
  <2>11. RemovedLoopsEnd'
    BY <2>1, <2>2, <2>3, <2>4, LoopsEndIs DEF PathInv
  <2> QED BY <1>2, <2>6, <2>7, <2>8, <2>9, <2>10, <2>11 DEF PathInv
<1> QED BY <1>1, <1>2

LEMMA RecycleOpenKeeps ==
  ASSUME TypeOK, PathInv, ~panicked, RecycleOpen
  PROVE  PathInv'
<1> DEFINE i == heartbeat.path
<1>0. PathsOK /\ HeartbeatOK
  BY TypeOKParts
<1>1. i \in PathId /\ i \in Listed
  BY <1>0, ListedIs DEF PathInv, RecycleInv, RecycleOpen
<1>2. PICK q : /\ path' = [path EXCEPT ![i] = q]
               /\ q = Reopened(path[i]) \/ q = [path[i] EXCEPT !.status = "down"]
  BY DEF RecycleOpen
<1>3. q.nic = path[i].nic /\ q.addr = path[i].addr
  <2>1. path[i] \in Path
    BY <1>0, <1>1 DEF PathsOK
  <2> QED BY <1>2, <2>1, ReopenedFields DEF Path
<1>4. /\ heartbeat' = NextStale(heartbeat.stale) /\ heartbeat.stale \in SUBSET Nic
      /\ writeLock' = FALSE /\ UNCHANGED <<paths, current, watcher, stop, panicked>>
  BY <1>0 DEF RecycleOpen, watch, HeartbeatOK
<1>5. heartbeat'.step # "open" /\ heartbeat'.path = NoPath
  BY <1>4, IdleType
<1>6. \A j \in PathId : path'[j] = IF j = i THEN q ELSE path[j]
  BY <1>0, <1>2 DEF PathsOK
<1> HIDE DEF i
<1>7. Present' = Present /\ Listed' = Listed
  BY <1>4 DEF Present, Listed
<1>8. \A k \in Present : paths[k] \in PathId
  BY <1>0, ListedIs
<1> HIDE DEF Present, Listed
<1>9. OwnNic'
  BY <1>3, <1>4, <1>6, <1>7, <1>8 DEF PathInv, OwnNic
<1>10. RecycleInv'
  BY <1>4, <1>5 DEF RecycleInv
<1>11. RemoveInv'
  BY <1>4, <1>5, <1>6, <1>7, Numbers DEF PathInv, RemoveInv, Removing, i
<1>12. ScanInv'
  BY <1>3, <1>4, <1>6, <1>7, <1>8 DEF PathInv, ScanInv
<1>13. SocketsAccounted'
  BY <1>1, <1>6, <1>7 DEF PathInv, SocketsAccounted
<1>14. RemovedLoopsEnd'
  BY <1>1, <1>4, <1>6, <1>7, LoopsEndIs DEF PathInv
<1> QED BY <1>9, <1>10, <1>11, <1>12, <1>13, <1>14 DEF PathInv

LEMMA DetectKeeps ==
  ASSUME TypeOK, PathInv, NEW scan \in {nics, Nobody}, DetectChanges(scan)
  PROVE  PathInv'
<1>0. PathsOK
  BY TypeOKParts
<1>1. /\ watcher.step = "idle" /\ watcher.removed = {} /\ watcher.path = NoPath
      /\ UNCHANGED <<paths, path, heartbeat, writeLock, stop, panicked>> /\ current' = scan
  BY DEF DetectChanges, PathInv, ScanInv, RemoveInv, Removing
<1>2. /\ watcher'.step = IF Changed(scan) = {} THEN "idle" ELSE "update"
      /\ watcher'.removed = {n \in Changed(scan) : current[n] # NoAddr}
      /\ watcher'.added = [n \in Nic |-> IF n \in Changed(scan) THEN scan[n] ELSE NoAddr]
      /\ watcher'.path = NoPath
  BY DEF DetectChanges
<1>3. Present' = Present /\ Listed' = Listed
  BY <1>1 DEF Present, Listed
<1>4. \A k \in Present : /\ k \in Nic /\ paths[k] \in PathId /\ paths[k] # NoPath
                         /\ path[paths[k]].addr \in Addr
  BY <1>0, ListedIs DEF PathsOK, Path
<1> HIDE DEF Present, Listed
<1>5. OwnNic' /\ RecycleInv' /\ SocketsAccounted'
  BY <1>1, <1>3 DEF PathInv, OwnNic, RecycleInv, SocketsAccounted
<1>6. RemovedLoopsEnd'
  BY <1>1, <1>3, LoopsEndIs DEF PathInv
<1>7. RemoveInv'
  BY <1>2 DEF RemoveInv, Removing
<1>8. ScanInv'
  <2>1. \A n \in Nic : watcher'.added[n] \in {NoAddr, current'[n]}
    BY <1>1, <1>2
  <2>2. watcher'.step \in {"idle", "quit"} => watcher'.removed = {}
    BY <1>2
  <2>3. ASSUME NEW n \in Present
        PROVE  \/ n \in watcher'.removed
               \/ path'[paths'[n]].addr = current'[n] /\ watcher'.added[n] = NoAddr
    <3>1. path[paths[n]].addr = current[n] /\ current[n] # NoAddr
      BY <1>1, <1>4, MultiPathAssumption DEF PathInv, ScanInv
    <3> QED BY <1>1, <1>2, <1>4, <3>1 DEF Changed
  <2> QED BY <1>3, <2>1, <2>2, <2>3 DEF ScanInv
<1> QED BY <1>5, <1>6, <1>7, <1>8 DEF PathInv

LEMMA RemoveLookupKeeps ==
  ASSUME TypeOK, PathInv, NEW n \in Nic, RemoveLookup(n)
  PROVE  PathInv'
<1>0. PathsOK /\ WatcherOK
  BY TypeOKParts
<1>1. /\ watcher.step = "update" /\ watcher.path = NoPath
      /\ UNCHANGED <<paths, path, current, heartbeat, writeLock, stop, panicked>>
  BY DEF RemoveLookup, PathInv, RemoveInv, Removing
<1>2. /\ watcher'.step = IF n \in Present THEN "close" ELSE "update"
      /\ watcher'.removed = watcher.removed \ {n} /\ watcher'.added = watcher.added
      /\ watcher'.path = paths[n]
  BY <1>0 DEF RemoveLookup, WatcherOK
<1>3. Present' = Present /\ Listed' = Listed
  BY <1>1 DEF Present, Listed
<1>4. /\ \A k \in Present : paths[k] \in PathId /\ paths[k] \in Listed /\ paths[k] # NoPath /\ k \in Nic
      /\ n \notin Present => paths[n] = NoPath
  BY <1>0, ListedIs
<1> HIDE DEF Present, Listed
<1>5. OwnNic' /\ RecycleInv' /\ SocketsAccounted'
  BY <1>1, <1>3 DEF PathInv, OwnNic, RecycleInv, SocketsAccounted
<1>6. RemovedLoopsEnd'
  BY <1>1, <1>3, LoopsEndIs DEF PathInv
<1>7. RemoveInv'
  BY <1>2, <1>3, <1>4 DEF RemoveInv, Removing
<1>8. ScanInv'
  BY <1>1, <1>2, <1>3, <1>4 DEF PathInv, ScanInv
<1> QED BY <1>5, <1>6, <1>7, <1>8 DEF PathInv

LEMMA RemoveCloseKeeps ==
  ASSUME TypeOK, PathInv, RemoveClose
  PROVE  PathInv'
<1> DEFINE i == watcher.path
<1>0. PathsOK /\ WatcherOK
  BY TypeOKParts
<1>1. i \in PathId /\ (i \in Listed \/ (Listed = {} /\ stop # "no"))
  BY DEF RemoveClose, PathInv, RemoveInv, Removing
<1>2. /\ path' = [path EXCEPT ![i] = Shut(@)] /\ panicked' = path[i].closed
      /\ watcher.step = "close"
      /\ watcher'.step = "delete" /\ watcher'.path = i /\ watcher'.removed = watcher.removed
      /\ watcher'.added = watcher.added
      /\ UNCHANGED <<paths, current, heartbeat, writeLock, stop>>
  BY <1>0 DEF RemoveClose, WatcherOK
<1>3. /\ \A j \in PathId : /\ path'[j].nic = path[j].nic /\ path'[j].addr = path[j].addr
                           /\ path'[j].open => path[j].open
                           /\ path[j].closed => path'[j].closed
                           /\ Looping(path'[j]) => Looping(path[j])
                           /\ j # i => path'[j] = path[j]
      /\ path'[i].closed /\ ~path'[i].open
  BY <1>0, <1>1, <1>2, Shutting
<1>4. Present' = Present /\ Listed' = Listed
  BY <1>2 DEF Present, Listed
<1>5. (\A k \in Present : paths[k] \in PathId) /\ Listed \subseteq PathId
  BY <1>0, ListedIs
<1> HIDE DEF Present, Listed
<1>6. OwnNic'
  BY <1>2, <1>3, <1>4, <1>5 DEF PathInv, OwnNic
<1>7. RecycleInv'
  BY <1>2, <1>3, <1>4, <1>5 DEF PathInv, RecycleInv
<1>8. RemoveInv'
  <2>1. ~path[i].closed => heartbeat.path # i
    BY <1>1, Numbers DEF PathInv, RecycleInv
  <2> QED BY <1>1, <1>2, <1>3, <1>4, <2>1 DEF RemoveInv, Removing
<1>9. ScanInv'
  BY <1>2, <1>3, <1>4, <1>5 DEF PathInv, ScanInv
<1>10. SocketsAccounted'
  BY <1>3, <1>4 DEF PathInv, SocketsAccounted
<1>11. RemovedLoopsEnd'
  BY <1>1, <1>2, <1>3, <1>4, LoopsEndIs DEF PathInv
<1> QED BY <1>6, <1>7, <1>8, <1>9, <1>10, <1>11 DEF PathInv

LEMMA RemoveDeleteKeeps ==
  ASSUME TypeOK, PathInv, ~panicked, RemoveDelete
  PROVE  PathInv'
<1> DEFINE i == watcher.path
           k == path[i].nic
<1>0. PathsOK /\ WatcherOK
  BY TypeOKParts
<1>1. /\ i \in PathId /\ (i \in Listed \/ (Listed = {} /\ stop # "no"))
      /\ path[i].closed /\ ~path[i].open
      /\ heartbeat.step # "open"
  BY DEF RemoveDelete, PathInv, RemoveInv, Removing, RecycleInv
<1>2. /\ paths' = [paths EXCEPT ![k] = NoPath] /\ path' = [path EXCEPT ![i] = Forgotten(@)]
      /\ watcher.step = "delete"
      /\ watcher'.step = "update" /\ watcher'.path = NoPath /\ watcher'.removed = watcher.removed
      /\ watcher'.added = watcher.added
      /\ UNCHANGED <<current, heartbeat, writeLock, stop, panicked>>
  BY <1>0 DEF RemoveDelete, WatcherOK
<1>3. path[i] \in Path /\ k \in Nic
  BY <1>0, <1>1 DEF PathsOK, Path
<1>4. /\ \A j \in PathId : path'[j] = IF j = i THEN Forgotten(path[i]) ELSE path[j]
      /\ ~path'[i].open /\ path'[i].closed
  BY <1>0, <1>1, <1>2, <1>3, ForgottenFields DEF PathsOK
<1>5. \A n \in Nic : paths'[n] = IF n = k THEN NoPath ELSE paths[n]
  BY <1>0, <1>2 DEF PathsOK
<1>6. /\ \A n \in Present : path[paths[n]].nic = n /\ paths[n] \in PathId /\ n \in Nic
      /\ \A j : j \in Listed <=> \E n \in Present : j = paths[n]
      /\ \A n \in Nic : n \in Present <=> paths[n] # NoPath
  BY <1>0, ListedIs DEF PathInv, OwnNic
<1>7. Present' = Present \ {k}
  BY <1>5 DEF Present
<1> HIDE DEF i, k, Present
<1>8. /\ Listed' = Listed \ {i}
      /\ \A n \in Present \ {k} : paths'[n] = paths[n] /\ paths[n] # i /\ paths[n] \in PathId
  <2>1. CASE i \in Listed
    <3>1. k \in Present /\ paths[k] = i
      BY <1>6, <2>1 DEF k
    <3>2. \A n \in Present \ {k} : paths'[n] = paths[n] /\ paths[n] # i /\ paths[n] \in PathId
      BY <1>5, <1>6, <3>1 DEF k
    <3> QED BY <1>7, <3>1, <3>2 DEF Listed
  <2>2. CASE Listed = {}
    <3>1. Present = {}
      BY <2>2 DEF Listed
    <3> QED BY <1>7, <2>2, <3>1 DEF Listed
  <2> QED BY <1>1, <2>1, <2>2
<1> HIDE DEF Listed
<1>9. OwnNic'
  BY <1>4, <1>6, <1>7, <1>8 DEF OwnNic
<1>10. RecycleInv'
  BY <1>1, <1>2 DEF PathInv, RecycleInv
<1>11. RemoveInv'
  BY <1>2 DEF RemoveInv, Removing
<1>12. ScanInv'
  <2>1. \A n \in Present \ {k} : \/ n \in watcher.removed
                                 \/ path[paths[n]].addr = current[n] /\ watcher.added[n] = NoAddr
    BY <1>8 DEF PathInv, ScanInv, i
  <2> QED BY <1>2, <1>4, <1>7, <1>8, <2>1 DEF PathInv, ScanInv
<1>13. SocketsAccounted'
  BY <1>4, <1>8 DEF PathInv, SocketsAccounted
<1>14. RemovedLoopsEnd'
  BY <1>2, <1>4, <1>8, LoopsEndIs DEF PathInv
<1> QED BY <1>9, <1>10, <1>11, <1>12, <1>13, <1>14 DEF PathInv

LEMMA AddPathKeeps ==
  ASSUME TypeOK, PathInv, NEW n \in Nic, AddPath(n)
  PROVE  PathInv'
<1>0. PathsOK /\ WatcherOK
  BY TypeOKParts
<1>1. /\ watcher.step = "update" /\ watcher.removed = {} /\ watcher.path = NoPath
      /\ watcher.added[n] = current[n] /\ watcher.added[n] \in Addr
      /\ heartbeat.step # "open" /\ heartbeat.path = NoPath
      /\ UNCHANGED <<current, heartbeat, writeLock, stop, panicked>>
  BY <1>0 DEF AddPath, PathInv, ScanInv, RemoveInv, Removing, RecycleInv, WatcherOK, AnyAddr
<1>2. /\ watcher'.step = "update" /\ watcher'.path = NoPath /\ watcher'.removed = {}
      /\ \A k \in Nic : watcher'.added[k] = IF k = n THEN NoAddr ELSE watcher.added[k]
  BY <1>0, <1>1 DEF AddPath, WatcherOK
<1>3. /\ \A k \in Present : paths[k] \in PathId /\ paths[k] \in Listed /\ paths[k] # NoPath /\ k \in Nic
      /\ \A j : j \in Listed <=> \E k \in Present : j = paths[k]
      /\ \A k \in Nic : k \in Present <=> paths[k] # NoPath
  BY <1>0, ListedIs
<1>4. \A k \in Present : path[paths[k]].addr = current[k] /\ watcher.added[k] = NoAddr
  BY <1>1, <1>3 DEF PathInv, ScanInv
<1>5. n \notin Present
  BY <1>1, <1>4, MultiPathAssumption
<1>6. RemoveInv' /\ RecycleInv'
  BY <1>1, <1>2 DEF PathInv, RemoveInv, Removing, RecycleInv
<1>7. CASE UNCHANGED <<path, paths>>
  <2>1. Present' = Present /\ Listed' = Listed
    BY <1>7 DEF Present, Listed
  <2> HIDE DEF Present, Listed
  <2>2. OwnNic' /\ SocketsAccounted'
    BY <1>7, <2>1 DEF PathInv, OwnNic, SocketsAccounted
  <2>3. RemovedLoopsEnd'
    BY <1>1, <1>7, <2>1, LoopsEndIs DEF PathInv
  <2>4. ScanInv'
    BY <1>1, <1>2, <1>3, <1>4, <1>7, <2>1 DEF PathInv, ScanInv
  <2> QED BY <1>6, <2>2, <2>3, <2>4 DEF PathInv
<1>8. ASSUME NEW i \in PathId, ~InUse(i), path' = [path EXCEPT ![i] = NewPath(n, watcher.added[n])],
             paths' = [paths EXCEPT ![n] = i]
      PROVE  PathInv'
  <2> DEFINE q == NewPath(n, watcher.added[n])
  <2>1. q.nic = n /\ q.addr = current[n] /\ q.open /\ ~q.closed
    BY <1>1, NewPathFields
  <2>2. \A j \in PathId : path'[j] = IF j = i THEN q ELSE path[j]
    BY <1>0, <1>8 DEF PathsOK
  <2>3. \A k \in Nic : paths'[k] = IF k = n THEN i ELSE paths[k]
    BY <1>0, <1>8 DEF PathsOK
  <2> HIDE DEF q
  <2>4. i \notin Listed /\ i # NoPath
    BY <1>8, Numbers DEF InUse
  <2>5. Present' = Present \cup {n}
    BY <2>3, <2>4 DEF Present
  <2>6. \A k \in Present : paths'[k] = paths[k] /\ paths[k] # i /\ k # n /\ path'[paths[k]] = path[paths[k]]
    BY <1>3, <1>5, <2>2, <2>3, <2>4
  <2>7. Listed' = Listed \cup {i}
    BY <2>3, <2>5, <2>6 DEF Listed
  <2> HIDE DEF Present, Listed
  <2>8. OwnNic'
    BY <2>1, <2>2, <2>3, <2>5, <2>6 DEF PathInv, OwnNic
  <2>9. ScanInv'
    BY <1>1, <1>2, <1>3, <1>4, <2>1, <2>2, <2>3, <2>5, <2>6 DEF PathInv, ScanInv
  <2>10. SocketsAccounted'
    BY <2>2, <2>7 DEF PathInv, SocketsAccounted
  <2>11. RemovedLoopsEnd'
    BY <1>1, <2>2, <2>7, LoopsEndIs DEF PathInv
  <2> QED BY <1>6, <2>8, <2>9, <2>10, <2>11 DEF PathInv
<1> QED BY <1>7, <1>8 DEF AddPath

LEMMA FinishIsQuiet ==
  ASSUME TypeOK, PathInv, FinishChanges
  PROVE  Quiet
<1>1. watcher.path = NoPath /\ watcher.removed = {} /\ watcher.added = Nobody /\ watcher.step = "update"
  BY DEF FinishChanges, PathInv, RemoveInv, Removing
<1>2. /\ watcher'.step = "idle" /\ watcher'.removed = {} /\ watcher'.added = Nobody
      /\ watcher'.path = NoPath
  BY DEF FinishChanges, Idle
<1>3. WatcherKept
  BY <1>1, <1>2 DEF WatcherKept, Removing
<1> QED BY <1>3, OthersKeep, UnchangedKeeps DEF FinishChanges, Quiet, network

LEMMA StopCloseKeeps ==
  ASSUME TypeOK, PathInv, StopClose
  PROVE  PathInv'
<1>0. PathsOK
  BY TypeOKParts
<1>1. /\ paths' = [n \in Nic |-> NoPath] /\ stop' # "no" /\ ~writeLock
      /\ UNCHANGED <<current, watcher, heartbeat, writeLock, panicked>>
  BY DEF StopClose, watch
<1>2. \A i \in PathId : /\ i \in Listed => /\ path'[i].closed = path[i].closed /\ ~path'[i].open
                        /\ i \notin Listed => path'[i] = path[i]
  <2>1. ASSUME NEW p \in Path PROVE LET q == [Forgotten(Shut(p)) EXCEPT !.closed = p.closed]
                                    IN  q.closed = p.closed /\ ~q.open
    <3>1. Forgotten(Shut(p)) \in Path /\ ~Forgotten(Shut(p)).open
      BY ShutFields, ForgottenFields
    <3> HIDE DEF Path
    <3>2. ASSUME NEW r \in Path PROVE LET q == [r EXCEPT !.closed = p.closed]
                                      IN  q.closed = p.closed /\ q.open = r.open
      BY DEF Path
    <3> QED BY <3>1, <3>2
  <2>2. \A i \in PathId :
          /\ path[i] \in Path
          /\ path'[i] = IF i \in Listed THEN [Forgotten(Shut(path[i])) EXCEPT !.closed = path[i].closed]
                                        ELSE path[i]
    BY <1>0 DEF StopClose, PathsOK
  <2> QED BY <2>1, <2>2
<1>3. Present' = {} /\ Listed' = {}
  BY <1>1 DEF Present, Listed
<1> HIDE DEF Present, Listed
<1>4. OwnNic'
  BY <1>3 DEF OwnNic
<1>5. RecycleInv'
  BY <1>1 DEF PathInv, RecycleInv
<1>6. RemoveInv'
  <2>1. watcher.step = "delete" /\ ~panicked =>
          path'[watcher.path].closed /\ ~path'[watcher.path].open
    BY <1>2 DEF PathInv, RemoveInv, Removing
  <2> QED BY <1>1, <1>3, <2>1 DEF PathInv, RemoveInv, Removing
<1>7. ScanInv'
  BY <1>1, <1>3 DEF PathInv, ScanInv
<1>8. SocketsAccounted'
  BY <1>2, <1>3 DEF PathInv, SocketsAccounted
<1>9. RemovedLoopsEnd'
  BY <1>1 DEF RemovedLoopsEnd
<1> QED BY <1>4, <1>5, <1>6, <1>7, <1>8, <1>9 DEF PathInv

------------------------------------------------------------------------------
(* The theorems.                                                           *)

IInv == TypeOK /\ PathInv

LEMMA NextKeepsType ==
  ASSUME IInv, [Next]_vars
  PROVE  TypeOK'
<1>1. TypeOK /\ (watcher.step = "close" => watcher.path \in PathId)
  BY DEF IInv, PathInv, RemoveInv, Removing
<1>2. ASSUME Sender \/ Heartbeat \/ (\E S \in SUBSET PathId : Announce(S)) \/ \E m \in Modes : SetSendMode(m)
      PROVE  TypeOK'
  BY <1>1, <1>2, SendingType DEF Sender, Heartbeat
<1>3. CASE Receiver
  BY <1>1, <1>3, ReceivingType DEF Receiver
<1>4. CASE CheckStale \/ Recycler
  BY <1>1, <1>4, RecyclingType
<1>5. ASSUME \/ \E n \in Nic : RemoveLookup(n) \/ AddPath(n)
             \/ RemoveClose \/ RemoveDelete \/ FinishChanges \/ Detect \/ WatcherQuit
      PROVE  TypeOK'
  BY <1>1, <1>5, WatchingType DEF Detect
<1>6. CASE StopBegin \/ StopClose \/ StopDone
  BY <1>1, <1>6, StoppingType
<1>7. CASE Time \/ World
  BY <1>1, <1>7, EnvironmentType
<1>8. CASE UNCHANGED vars
  BY <1>1, <1>8, StutterType
<1> QED BY <1>2, <1>3, <1>4, <1>5, <1>6, <1>7, <1>8 DEF Next, Update, Stopping

LEMMA NextKeepsPathInv ==
  ASSUME IInv, [Next]_vars
  PROVE  PathInv'
<1> USE DEF IInv
<1>1. ASSUME Sender \/ Heartbeat \/ (\E S \in SUBSET PathId : Announce(S)) \/ \E m \in Modes : SetSendMode(m)
      PROVE  PathInv'
  BY <1>1, SendingIsQuiet, QuietStep DEF Sender, Heartbeat
<1>2. CASE Receiver
  BY <1>2, ReceivingIsQuiet, QuietStep DEF Receiver
<1>3. CASE ~panicked /\ (CheckStale \/ Recycler)
  BY <1>3, CheckStaleIsQuiet, QuietStep, RecycleCloseKeeps, RecycleOpenKeeps DEF Recycler
<1>4. ASSUME ~panicked,
             \/ \E n \in Nic : RemoveLookup(n) \/ AddPath(n)
             \/ RemoveClose \/ RemoveDelete \/ FinishChanges \/ Detect
      PROVE  PathInv'
  BY <1>4, DetectKeeps, RemoveLookupKeeps, RemoveCloseKeeps, RemoveDeleteKeeps, AddPathKeeps, FinishIsQuiet, QuietStep
     DEF Detect
<1>5. CASE StopClose
  BY <1>5, StopCloseKeeps
<1>6. CASE Time \/ World \/ StopBegin \/ StopDone \/ WatcherQuit \/ UNCHANGED vars
  BY <1>6, EnvironmentIsQuiet, QuietStep
<1> QED BY <1>1, <1>2, <1>3, <1>4, <1>5, <1>6 DEF Next, Update, Stopping

LEMMA Invariance == Spec => []IInv
<1>1. Init => IInv
  BY InitTypeOK, InitPathInv DEF IInv
<1>2. IInv /\ [Next]_vars => IInv'
  BY NextKeepsType, NextKeepsPathInv DEF IInv
<1> QED BY <1>1, <1>2, PTL DEF Spec

(* Every variable keeps to its type, whatever the faults.                  *)
THEOREM MultiPathTypeCorrect == Spec => []TypeOK
<1>1. IInv => TypeOK
  BY DEF IInv
<1> QED BY <1>1, Invariance, PTL

(* No socket is left behind: an open one belongs to a path in m.paths,     *)
(* however addPath, removePath, recyclePath and Stop interleave.           *)
THEOREM NoSocketIsLost == Spec => []SocketsAccounted
<1>1. IInv => SocketsAccounted
  BY DEF IInv, PathInv
<1> QED BY <1>1, Invariance, PTL

(* When the watcher rests, every path is bound to the address its last     *)
(* scan found on its interface (detectChanges, onInterfaceChange).         *)
THEOREM PathsAgreeWithScan == Spec => []PathsFollowScan
<1>1. IInv => PathsFollowScan
  <2> SUFFICES ASSUME IInv, watcher.step = "idle", NEW n \in Present
               PROVE  path[paths[n]].addr = current[n]
    BY DEF PathsFollowScan
  <2>1. watcher.removed = {} /\ watcher.path = NoPath /\ paths[n] # NoPath
    BY DEF IInv, PathInv, ScanInv, RemoveInv, Removing, Present
  <2> QED BY <2>1 DEF IInv, PathInv, ScanInv
<1> QED BY <1>1, Invariance, PTL

(* The receive loops of a path that is no longer in m.paths find its       *)
(* channel closed, or the sender stopped (removePath, perPathRecvLoop).    *)
THEOREM LoopsOfRemovedPathsEnd == Spec => []RemovedLoopsEnd
<1>1. IInv => RemovedLoopsEnd
  BY DEF IInv, PathInv
<1> QED BY <1>1, Invariance, PTL

------------------------------------------------------------------------------
(* While the interfaces stay and sockets can be created.                   *)

(* Peers may fall silent and writes fail, but interfaces do not change,    *)
(* scans succeed and so does the creation of sockets.                      *)
Calm == Faults \cap {"nic", "scan", "socket"} = {}

(* A path is shut down only while recyclePath has it in hand.              *)
CalmInv ==
  /\ nics = current /\ watcher.step \in {"idle", "quit"} /\ ~panicked
  /\ \A n \in Present : paths[n] # heartbeat.path => path[paths[n]].open /\ ~path[paths[n]].closed

LEMMA CalmQuiet ==
  ASSUME Calm, TypeOK, PathInv, CalmInv, Quiet
  PROVE  CalmInv'
<1>1. Present' = Present /\ \A n \in Present : paths[n] \in PathId
  BY TypeOKParts, ListedIs DEF Present, Quiet
<1>2. UNCHANGED <<nics, paths, current, panicked>>
  BY DEF Calm, Quiet
<1>3. watcher'.step \in {"idle", "quit"}
  BY DEF Quiet, CalmInv, WatcherKept
<1> HIDE DEF Present
<1> QED BY <1>1, <1>2, <1>3 DEF CalmInv, Quiet, HeartbeatKept, Kept

LEMMA CalmShutting ==
  ASSUME Calm, TypeOK, PathInv, CalmInv, NEW n \in Present, RecycleClose(n)
  PROVE  CalmInv'
<1>0. PathsOK /\ heartbeat.step # "open"
  BY TypeOKParts DEF RecycleClose
<1>1. /\ heartbeat.path = NoPath
      /\ \A k \in Present : paths[k] \in PathId /\ paths[k] # NoPath
  BY <1>0, ListedIs DEF PathInv, RecycleInv
<1>2. /\ UNCHANGED <<nics, current, watcher, paths>>
      /\ panicked' = path[paths[n]].closed
      /\ heartbeat'.path = paths[n]
      /\ path' = [path EXCEPT ![paths[n]] = Shut(@)]
  BY DEF RecycleClose, network, watch
<1>3. \A j \in PathId \ {paths[n]} : path'[j] = path[j]
  BY <1>0, <1>2 DEF PathsOK
<1>4. Present' = Present
  BY <1>2 DEF Present
<1> HIDE DEF Present
<1> QED BY <1>1, <1>2, <1>3, <1>4 DEF CalmInv

LEMMA CalmReopening ==
  ASSUME Calm, TypeOK, PathInv, CalmInv, RecycleOpen
  PROVE  CalmInv'
<1> DEFINE i == heartbeat.path
<1>0. PathsOK
  BY TypeOKParts
<1>1. i \in PathId /\ path[i] \in Path /\ \E n \in Present : i = paths[n]
  BY <1>0, ListedIs DEF PathInv, RecycleInv, RecycleOpen, PathsOK
<1>2. \A k \in Present : k \in Nic /\ paths[k] \in PathId /\ paths[k] # NoPath
  BY <1>0, ListedIs
<1>3. UNCHANGED <<nics, current, watcher, paths, panicked>>
  BY DEF RecycleOpen, network, watch
<1>4. Present' = Present
  BY <1>3 DEF Present
<1> HIDE DEF Present
<1>5. CanBind(path[i].nic, path[i].addr)
  <2>1. PICK n \in Present : i = paths[n]
    BY <1>1
  <2>2. path[i].nic = n
    BY <2>1 DEF PathInv, OwnNic
  <2>3. path[i].addr = current[n]
    BY <1>2, <2>1 DEF PathInv, ScanInv, RemoveInv, Removing, CalmInv
  <2> QED BY <2>2, <2>3 DEF CanBind, CalmInv
<1>6. path' = [path EXCEPT ![i] = Reopened(@)]
  BY <1>5 DEF RecycleOpen, Calm
<1>7. \A j \in PathId : path'[j] = IF j = i THEN Reopened(path[i]) ELSE path[j]
  BY <1>0, <1>1, <1>6 DEF PathsOK
<1>8. path'[i].open /\ ~path'[i].closed
  BY <1>1, <1>7, ReopenedFields
<1> QED BY <1>2, <1>3, <1>4, <1>7, <1>8 DEF CalmInv

LEMMA CalmStep ==
  ASSUME Calm, IInv, CalmInv, [Next]_vars
  PROVE  CalmInv'
<1> USE DEF IInv
<1>1. ASSUME Sender \/ Heartbeat \/ (\E S \in SUBSET PathId : Announce(S)) \/ \E m \in Modes : SetSendMode(m)
      PROVE  CalmInv'
  BY <1>1, SendingIsQuiet, CalmQuiet DEF Sender, Heartbeat
<1>2. CASE Receiver
  BY <1>2, ReceivingIsQuiet, CalmQuiet DEF Receiver
<1>3. CASE CheckStale
  BY <1>3, CheckStaleIsQuiet, CalmQuiet
<1>4. ASSUME NEW n \in Nic, RecycleClose(n) PROVE CalmInv'
  <2>1. ~panicked
    BY DEF CalmInv
  <2>2. n \notin Present => Quiet
    BY <1>4, <2>1, RecycleCloseKeeps
  <2> QED BY <1>4, <2>2, CalmShutting, CalmQuiet
<1>5. CASE RecycleOpen
  BY <1>5, CalmReopening
<1>6. ~(\/ \E n \in Nic : RemoveLookup(n) \/ AddPath(n)
        \/ RemoveClose \/ RemoveDelete \/ FinishChanges \/ Detect)
  BY DEF CalmInv, Calm, RemoveLookup, AddPath, RemoveClose, RemoveDelete, FinishChanges, Detect, DetectChanges
<1>7. CASE StopClose
  BY <1>7 DEF StopClose, CalmInv, Present, network, watch
<1>8. CASE Time \/ World \/ StopBegin \/ StopDone \/ WatcherQuit \/ UNCHANGED vars
  BY <1>8, EnvironmentIsQuiet, CalmQuiet
<1> QED BY <1>1, <1>2, <1>3, <1>4, <1>5, <1>6, <1>7, <1>8 DEF Next, Update, Stopping, Recycler

LEMMA CalmInvariance ==
  ASSUME Calm
  PROVE  Spec => [](IInv /\ CalmInv)
<1>1. Init => CalmInv
  <2> SUFFICES ASSUME Init PROVE CalmInv
    OBVIOUS
  <2>1. nics = current /\ watcher.step = "idle" /\ ~panicked
    BY DEF Init, Calm, Idle
  <2> QED BY <2>1, InitPaths DEF CalmInv
<1>2. IInv /\ CalmInv /\ [Next]_vars => CalmInv'
  BY CalmStep
<1> QED BY <1>1, <1>2, Invariance, PTL DEF Spec

(* While interfaces do not change and sockets can be created, a path that  *)
(* is not down can be written to, except while recyclePath has it in hand, *)
(* however often paths fall silent, are given up and are tried again, and  *)
(* whenever Stop comes (recyclePath, SendAll).                             *)
THEOREM CalmPathsOpen ==
  ASSUME Calm
  PROVE  Spec => []UsablePathsOpen
<1>1. CalmInv => UsablePathsOpen
  BY DEF CalmInv, UsablePathsOpen, Usable
<1> QED BY <1>1, CalmInvariance, PTL

==============================================================================
