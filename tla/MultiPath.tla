------------------------------- MODULE MultiPath -------------------------------
(***************************************************************************)
(* The client's paths to the server (internal/transport/multipath.go and   *)
(* iface.go): one path with a socket of its own per network interface.     *)
(* The interface watcher adds and removes paths; the heartbeat loop probes *)
(* them and replaces the sockets of those that have gone silent; the       *)
(* client's receive loop turns acknowledgements into round-trip times and  *)
(* chooses the active path of failover mode; every socket has a receive    *)
(* loop of its own.                                                        *)
(*                                                                         *)
(* An action is one critical section of m.mu, or one step outside of it.   *)
(* A path outlives its entry in m.paths, and a path can lose its socket    *)
(* while goroutines still hold on to it, so paths are objects with an      *)
(* identity.  Times are abstracted to what the code compares them with:    *)
(* silent says that LastRecv is older than pathStaleTimeout, age how long  *)
(* ago lastRecycled is.                                                    *)
(***************************************************************************)
EXTENDS Integers, FiniteSets

CONSTANTS Nic,         \* interface names
          Addr,        \* the addresses they can have
          RTTs,        \* measured averages; 0 is a path never measured
          Modes,       \* the send modes in use, "redundant" and "failover"
          MaxAttempts, \* recycleMaxAttempts
          MaxPaths,    \* bound: path objects at one time
          MaxLoops,    \* bound: receive loops counted per path, more look alike
          MaxChanges,  \* bound: changes of interfaces and of what they reach
          Faults       \* which of "nic", "scan", "socket", "silence", "write", "stop" happen

NoAddr  == "none"
NoPath  == 0
NoNic   == "nobody"       \* activePath = ""
PathId  == 1 .. MaxPaths
AnyAddr == Addr \cup {NoAddr}
AnyNic  == Nic \cup {NoNic}

ASSUME MultiPathAssumption ==
  /\ Nic # {} /\ Addr # {} /\ NoAddr \notin Addr /\ NoNic \notin Nic
  /\ RTTs \subseteq Nat \ {0}
  /\ Modes \subseteq {"redundant", "failover"} /\ Modes # {}
  /\ MaxAttempts \in Nat \ {0} /\ MaxPaths \in Nat /\ MaxLoops \in Nat \ {0} /\ MaxChanges \in Nat
  /\ Faults \subseteq {"nic", "scan", "socket", "silence", "write", "stop"}
  \* every interface can have a path at the same time
  /\ \E f \in [Nic -> PathId] : \A n, k \in Nic : n # k => f[n] # f[k]

VARIABLES nics,       \* interface -> its address, or NoAddr while it is gone
          deaf,       \* interfaces through which nothing comes back
          changes,    \* changes of nics and deaf so far
          current,    \* the watcher's last scan
          watcher,    \* what the watcher does: step, its removed and added, whether there is
              \* news of paths for OnPathChange, the path in hand
          paths,      \* m.paths: interface -> path object, or NoPath
          path,       \* the path objects
          mode,       \* sendMode
          active,     \* activePath
          cooling,    \* less than switchCooldown since lastSwitch
          heartbeat,  \* what the heartbeat loop does: step, its stale paths, the path in hand
          writeLock,  \* m.mu is held for writing by recyclePath
          pinged,     \* path objects whose heartbeat the server will answer
          recvCh,     \* paths whose acknowledgement waits in recvCh
          reselect,   \* UpdateRTT has yet to choose the active path
          stop,       \* Stop: "no", "begun", "waiting", "done"
          panicked    \* a closed channel was closed again

network == <<nics, deaf, changes>>
watch   == <<current, watcher>>
choice  == <<mode, active, cooling>>
recv    == <<pinged, recvCh, reselect>>
vars    == <<network, watch, paths, path, choice, heartbeat, writeLock, recv, stop, panicked>>

Status == {"active", "suspect", "down"}
Age    == {"never", "fresh", "recent", "cooled", "old"}

Path == [nic : Nic, addr : Addr, status : Status, rtt : RTTs \cup {0}, silent : BOOLEAN,
         attempts : 0 .. MaxAttempts,  \* recycleCount; only >= recycleMaxAttempts matters
         age : Age,
         open : BOOLEAN,               \* Conn is open
         closed : BOOLEAN,             \* the channel closed is closed
         reading : 0 .. MaxLoops,      \* receive loops reading from Conn
         failing : 0 .. MaxLoops]      \* receive loops whose read has failed

TypeOK == /\ nics \in [Nic -> AnyAddr] /\ deaf \subseteq Nic /\ changes \in 0 .. MaxChanges
          /\ current \in [Nic -> AnyAddr]
          /\ watcher \in [step : {"idle", "update", "close", "delete", "quit"},
                          removed : SUBSET Nic, added : [Nic -> AnyAddr], news : BOOLEAN,
                          path : PathId \cup {NoPath}]
          /\ paths \in [Nic -> PathId \cup {NoPath}]
          /\ path \in [PathId -> Path]
          /\ mode \in Modes /\ active \in AnyNic /\ cooling \in BOOLEAN
          /\ heartbeat \in [step : {"tick", "check", "recycle", "open", "sleep"}, stale : SUBSET Nic,
                            path : PathId \cup {NoPath}]
          /\ writeLock \in BOOLEAN
          /\ pinged \subseteq PathId /\ recvCh \subseteq Nic /\ reselect \in BOOLEAN
          /\ stop \in {"no", "begun", "waiting", "done"} /\ panicked \in BOOLEAN

Nobody     == [n \in Nic |-> NoAddr]
Idle       == [step |-> "idle", removed |-> {}, added |-> Nobody, news |-> FALSE, path |-> NoPath]
Asleep     == [step |-> "sleep", stale |-> {}, path |-> NoPath]
Capped(k)  == IF k > MaxLoops THEN MaxLoops ELSE k
Present    == {n \in Nic : paths[n] # NoPath}
Listed     == {paths[n] : n \in Present}
Live(i)    == path[i].open \/ path[i].reading + path[i].failing > 0
InUse(i)   == Live(i) \/ i \in Listed \cup {watcher.path, heartbeat.path}

(* A path as addPath makes it, with its receive loop.                      *)
NewPath(n, a) == [nic |-> n, addr |-> a, status |-> "active", rtt |-> 0, silent |-> FALSE,
                  attempts |-> 0, age |-> "never", open |-> TRUE, closed |-> FALSE,
                  reading |-> 1, failing |-> 0]

(* A path nobody refers to any more.                                       *)
DeadPath == [NewPath(CHOOSE n \in Nic : TRUE, CHOOSE a \in Addr : TRUE)
               EXCEPT !.status = "down", !.open = FALSE, !.closed = TRUE, !.reading = 0]

(* All that is left of a path out of m.paths: its receive loops.           *)
Forgotten(p) == [DeadPath EXCEPT !.open = p.open, !.closed = p.closed,
                                 !.reading = p.reading, !.failing = p.failing]

(* Fault: the socket is not closed.                                        *)
ShutChannelOnly(p) == [p EXCEPT !.closed = TRUE]

(* Fault: the channel is not closed.                                       *)
ShutSocketOnly(p) == [p EXCEPT !.open = FALSE, !.failing = Capped(p.failing + p.reading), !.reading = 0]

(* Closing the channel and the socket sends the receive loops to look why. *)
Shut(p) == [p EXCEPT !.open = FALSE, !.closed = TRUE,
                     !.failing = Capped(p.failing + p.reading), !.reading = 0]

(* createBoundUDPConn can succeed: the address is the interface's.         *)
CanBind(n, a) == nics[n] = a

(* Start has scanned the interfaces and added their paths, skipping those  *)
(* whose socket it could not create because they have changed since.       *)
Init ==
  /\ current \in [Nic -> AnyAddr] /\ watcher = Idle
  /\ nics \in [Nic -> AnyAddr] /\ ("nic" \notin Faults => nics = current)
  /\ deaf = {} /\ changes = 0
  /\ LET started == {n \in Nic : current[n] # NoAddr /\ CanBind(n, current[n])}
         id == CHOOSE f \in [started -> PathId] : \A n, k \in started : n # k => f[n] # f[k]
     IN    /\ paths = [n \in Nic |-> IF n \in started THEN id[n] ELSE NoPath]
           /\ path = [i \in PathId |->
                        IF \E n \in started : id[n] = i
                        THEN LET n == CHOOSE n \in started : id[n] = i IN NewPath(n, current[n])
                        ELSE DeadPath]
           /\ mode \in Modes
           /\ active \in (IF mode = "redundant" \/ started = {} THEN {NoNic} ELSE started)
           /\ cooling = (active # NoNic)
  /\ heartbeat = [Asleep EXCEPT !.step = "tick"] /\ writeLock = FALSE
  /\ pinged = {} /\ recvCh = {} /\ reselect = FALSE
  /\ stop = "no" /\ panicked = FALSE

------------------------------------------------------------------------------
(* Failover mode.                                                          *)

Usable  == {n \in Present : path[paths[n]].status # "down"}
Fastest == {n \in Usable : \A k \in Usable : path[paths[n]].rtt <= path[paths[k]].rtt}

(* What selectBestPathLocked may return: an unmeasured path counts as the  *)
(* fastest, and ties are decided by the order in which Go walks the map.   *)
Best == IF cooling /\ active \in Usable THEN {active}
        ELSE IF Fastest = {} THEN {NoNic} ELSE Fastest

SelectBest == \E b \in Best : active' = b /\ cooling' = (cooling \/ b # active)

Reselected == IF mode = "failover" THEN SelectBest ELSE UNCHANGED <<active, cooling>>

(* SetSendMode.                                                            *)
SetSendMode(m) ==
  /\ m # mode /\ ~writeLock
  /\ mode' = m
  /\ IF m = "failover" THEN SelectBest ELSE UNCHANGED <<active, cooling>>
  /\ UNCHANGED <<network, watch, paths, path, heartbeat, writeLock, recv, stop, panicked>>

------------------------------------------------------------------------------
(* Sending.  Every call holds m.mu for reading until it is through all     *)
(* paths.                                                                  *)

Reaches(i) == path[i].open /\ nics[path[i].nic] = path[i].addr /\ path[i].nic \notin deaf

(* The paths to which a write must fail, and those to which it may.        *)
Broken(S)  == {i \in S : ~path[i].open}
Shaky(S)   == {i \in S : \/ ~path[i].open \/ nics[path[i].nic] # path[i].addr
                         \/ "write" \in Faults /\ path[i].nic \in deaf}

Suspect(F) == path' = [i \in PathId |-> IF i \in F THEN [path[i] EXCEPT !.status = "suspect"] ELSE path[i]]

(* sendRedundantLocked.                                                    *)
SendRedundant(F) ==
  /\ mode = "redundant" /\ stop = "no" /\ ~writeLock
  /\ LET S == {paths[n] : n \in Usable} IN Broken(S) \subseteq F /\ F \subseteq Shaky(S)
  /\ Suspect(F)
  /\ UNCHANGED <<network, watch, paths, choice, heartbeat, writeLock, recv, stop, panicked>>

(* sendFailoverLocked when its write fails: it does not look whether the   *)
(* active path is down.                                                    *)
SendFailover(n) ==
  /\ mode = "failover" /\ stop = "no" /\ ~writeLock
  /\ n \in (IF active \in Present THEN {active} ELSE Usable)
  /\ paths[n] \in Shaky({paths[n]})
  /\ Suspect({paths[n]})
  /\ UNCHANGED <<network, watch, paths, choice, heartbeat, writeLock, recv, stop, panicked>>

(* SendAllHeartbeat.                                                       *)
SendAllHeartbeat(F) ==
  /\ ~writeLock
  /\ LET S == {paths[n] : n \in Usable}
     IN  /\ Broken(S) \subseteq F /\ F \subseteq Shaky(S)
         /\ pinged' = pinged \cup {i \in S \ F : Reaches(i)}
  /\ Suspect(F)

(* A tick of the heartbeat loop: the heartbeats come before the check.     *)
Tick(F) ==
  /\ heartbeat.step = "tick" /\ stop = "no"
  /\ SendAllHeartbeat(F)
  /\ heartbeat' = [heartbeat EXCEPT !.step = "check"]
  /\ UNCHANGED <<network, watch, paths, choice, writeLock, recvCh, reselect, stop, panicked>>

(* OnPathChange: the watcher has added paths and has a goroutine send      *)
(* heartbeats.                                                             *)
Announce(F) ==
  /\ watcher.news /\ watcher.step \in {"idle", "quit"}
  /\ SendAllHeartbeat(F)
  /\ watcher' = [watcher EXCEPT !.news = FALSE]
  /\ UNCHANGED <<network, current, paths, choice, heartbeat, writeLock, recvCh, reselect, stop, panicked>>

------------------------------------------------------------------------------
(* Receiving.                                                              *)

(* perPathRecvLoop hands an acknowledgement to the client; once stopCh is  *)
(* closed it may as well return.                                           *)
Receive(i) ==
  /\ i \in pinged /\ Reaches(i) /\ path[i].reading > 0
  /\ pinged' = pinged \ {i}
  /\ \/ recvCh' = recvCh \cup {path[i].nic} /\ UNCHANGED path
     \/ /\ stop # "no"
        /\ path' = [path EXCEPT ![i].reading = @ - 1]
        /\ UNCHANGED recvCh
  /\ UNCHANGED <<network, watch, paths, choice, heartbeat, writeLock, reselect, stop, panicked>>

(* perPathRecvLoop after a failed read: it returns if the path's channel   *)
(* is closed, or else reads from the path's socket again.  Both are the    *)
(* path's present ones, not those the loop was started with.               *)
Retry(i) ==
  /\ path[i].failing > 0
  /\ LET ends == path[i].closed \/ stop # "no"
     IN  /\ ends \/ path[i].open
         /\ path' = [path EXCEPT ![i].failing = @ - 1,
                                 ![i].reading = IF ends THEN @ ELSE Capped(@ + 1)]
  /\ UNCHANGED <<network, watch, paths, choice, heartbeat, writeLock, recv, stop, panicked>>

(* Fault: the attempts are counted down.                                   *)
HeardOnce(p, r) == [p EXCEPT !.rtt = r, !.silent = FALSE, !.attempts = @ - 1, !.status = "active"]

(* What an acknowledgement makes of a path.                                *)
Heard(p, r) == [p EXCEPT !.rtt = r, !.silent = FALSE, !.attempts = 0, !.status = "active"]

(* recvLoopMultipath and UpdateRTT up to the choice of the active path.    *)
UpdateRTT(n, r) ==
  /\ n \in recvCh /\ ~reselect /\ stop = "no" /\ ~writeLock
  /\ recvCh' = recvCh \ {n}
  /\ IF n \in Present
     THEN /\ path' = [path EXCEPT ![paths[n]] = Heard(@, r)]
          /\ reselect' = (mode = "failover")
     ELSE UNCHANGED <<path, reselect>>
  /\ UNCHANGED <<network, watch, paths, choice, heartbeat, writeLock, pinged, stop, panicked>>

Reselect ==
  /\ reselect /\ ~writeLock
  /\ reselect' = FALSE
  /\ SelectBest
  /\ UNCHANGED <<network, watch, paths, path, mode, heartbeat, writeLock, pinged, recvCh, stop, panicked>>

------------------------------------------------------------------------------
(* CheckAndRecycleStalePaths and recyclePath, in the heartbeat loop.       *)

GivenUp(p)   == p.status # "down" /\ p.silent /\ p.attempts >= MaxAttempts
Stale(p)     == p.status # "down" /\ p.silent /\ p.attempts < MaxAttempts /\ p.age \notin {"fresh", "recent"}

(* Fault: paths that are down are never tried again.                       *)
RetriedNever(p) == FALSE

Retried(p)   == p.status = "down" /\ p.attempts >= MaxAttempts /\ p.age \in {"old", "never"}

NextStale(rest) == [Asleep EXCEPT !.step = IF rest = {} THEN "sleep" ELSE "recycle", !.stale = rest]

CheckStale ==
  /\ heartbeat.step = "check" /\ ~writeLock
  /\ LET stale == {n \in Present : Stale(path[paths[n]]) \/ Retried(path[paths[n]])}
     IN  heartbeat' = NextStale(stale)
  /\ path' = [i \in PathId |-> IF i \in Listed /\ GivenUp(path[i])
                               THEN [path[i] EXCEPT !.status = "down"] ELSE path[i]]
  /\ UNCHANGED <<network, watch, paths, choice, writeLock, recv, stop, panicked>>

(* recyclePath takes m.mu and closes the old channel and socket.           *)
RecycleClose(n) ==
  /\ heartbeat.step = "recycle" /\ n \in heartbeat.stale /\ ~writeLock
  /\ IF n \in Present
     THEN /\ path' = [path EXCEPT ![paths[n]] = Shut(@)]
          /\ panicked' = path[paths[n]].closed
          /\ pinged' = pinged \ {paths[n]}
          /\ writeLock' = TRUE
          /\ heartbeat' = [step |-> "open", stale |-> heartbeat.stale \ {n}, path |-> paths[n]]
     ELSE /\ heartbeat' = NextStale(heartbeat.stale \ {n})
          /\ UNCHANGED <<path, panicked, pinged, writeLock>>
  /\ UNCHANGED <<network, watch, paths, choice, recvCh, reselect, stop>>

(* Fault: the path keeps the closed socket.                                *)
ReopenedOldSocket(p) ==
  [p EXCEPT !.closed = FALSE, !.status = "active", !.age = "fresh",
            !.attempts = IF @ = MaxAttempts THEN @ ELSE @ + 1, !.failing = Capped(@ + 1)]

(* Fault: the attempts are not counted.                                    *)
ReopenedUncounted(p) ==
  [p EXCEPT !.open = TRUE, !.closed = FALSE, !.status = "active", !.age = "fresh",
            !.reading = Capped(@ + 1)]

(* A new socket, a new channel and a new receive loop.                     *)
Reopened(p) ==
  [p EXCEPT !.open = TRUE, !.closed = FALSE, !.status = "active", !.age = "fresh",
            !.attempts = IF @ = MaxAttempts THEN @ ELSE @ + 1, !.reading = Capped(@ + 1)]

(* The new socket is created, or the path is marked down.                  *)
RecycleOpen ==
  /\ heartbeat.step = "open"
  /\ LET i == heartbeat.path
         p == path[i]
     IN  \/ CanBind(p.nic, p.addr) /\ path' = [path EXCEPT ![i] = Reopened(@)]
         \/ /\ ~CanBind(p.nic, p.addr) \/ "socket" \in Faults
            /\ path' = [path EXCEPT ![i].status = "down"]
  /\ heartbeat' = NextStale(heartbeat.stale)
  /\ writeLock' = FALSE
  /\ UNCHANGED <<network, watch, paths, choice, recv, stop, panicked>>

------------------------------------------------------------------------------
(* The interface watcher, which polls.                                     *)

(* Fault: a changed address is not a change.                               *)
ChangedPresence(scan) == {n \in Nic : (scan[n] = NoAddr) # (current[n] = NoAddr)}

Changed(scan) == {n \in Nic : scan[n] # current[n]}

(* detectChanges up to the callback.  scanInterfaces returns nothing at    *)
(* all when the interfaces cannot be listed.  An interface whose address   *)
(* has changed is removed and added.                                       *)
DetectChanges(scan) ==
  /\ watcher.step = "idle"
  /\ \/ scan = nics /\ UNCHANGED changes
     \/ /\ "scan" \in Faults /\ scan = Nobody
        /\ changes < MaxChanges /\ changes' = changes + 1
  /\ scan # current /\ current' = scan
  /\ watcher' = [step    |-> IF Changed(scan) = {} THEN "idle" ELSE "update",
                 removed |-> {n \in Changed(scan) : current[n] # NoAddr},
                 added   |-> [n \in Nic |-> IF n \in Changed(scan) THEN scan[n] ELSE NoAddr],
                 news    |-> watcher.news \/ \E n \in Changed(scan) : scan[n] # NoAddr,
                 path    |-> NoPath]
  /\ UNCHANGED <<nics, deaf, paths, path, choice, heartbeat, writeLock, recv, stop, panicked>>

(* removePath looks the path up under the read lock,                       *)
RemoveLookup(n) ==
  /\ watcher.step = "update" /\ n \in watcher.removed /\ ~writeLock
  /\ watcher' = [watcher EXCEPT !.removed = @ \ {n}, !.path = paths[n],
                                !.step = IF n \in Present THEN "close" ELSE "update"]
  /\ UNCHANGED <<network, current, paths, path, choice, heartbeat, writeLock, recv, stop, panicked>>

(* closes its channel and socket without any lock                          *)
RemoveClose ==
  /\ watcher.step = "close"
  /\ path' = [path EXCEPT ![watcher.path] = Shut(@)]
  /\ panicked' = path[watcher.path].closed
  /\ pinged' = pinged \ {watcher.path}
  /\ watcher' = [watcher EXCEPT !.step = "delete"]
  /\ UNCHANGED <<network, current, paths, choice, heartbeat, writeLock, recvCh, reselect, stop>>

(* and deletes the entry under the write lock.                             *)
RemoveDelete ==
  /\ watcher.step = "delete" /\ ~writeLock
  /\ paths' = [paths EXCEPT ![path[watcher.path].nic] = NoPath]
  /\ path' = [path EXCEPT ![watcher.path] = Forgotten(@)]
  /\ watcher' = [watcher EXCEPT !.step = "update", !.path = NoPath]
  /\ UNCHANGED <<network, current, choice, heartbeat, writeLock, recv, stop, panicked>>

(* addPath: a socket that cannot be created is skipped.                    *)
AddPath(n) ==
  /\ watcher.step = "update" /\ watcher.removed = {} /\ watcher.added[n] # NoAddr /\ ~writeLock
  /\ LET a == watcher.added[n]
     IN  \/ /\ CanBind(n, a)
            /\ \E i \in PathId : /\ ~InUse(i) /\ \A j \in 1 .. i - 1 : InUse(j)
                                 /\ path' = [path EXCEPT ![i] = NewPath(n, a)]
                                 /\ paths' = [paths EXCEPT ![n] = i]
         \/ /\ ~CanBind(n, a) \/ "socket" \in Faults
            /\ UNCHANGED <<path, paths>>
  /\ watcher' = [watcher EXCEPT !.added[n] = NoAddr]
  /\ UNCHANGED <<network, current, choice, heartbeat, writeLock, recv, stop, panicked>>

(* The end of onInterfaceChange.                                           *)
FinishChanges ==
  /\ watcher.step = "update" /\ watcher.removed = {} /\ watcher.added = Nobody /\ ~writeLock
  /\ Reselected
  /\ watcher' = [Idle EXCEPT !.news = watcher.news]
  /\ UNCHANGED <<network, current, paths, path, mode, heartbeat, writeLock, recv, stop, panicked>>

------------------------------------------------------------------------------
(* Stop, once the client's other loops have ended.                         *)

StopBegin ==
  /\ "stop" \in Faults
  /\ stop = "no" /\ heartbeat.step \in {"sleep", "tick"} /\ ~reselect
  /\ stop' = "begun"
  /\ UNCHANGED <<network, watch, paths, path, choice, heartbeat, writeLock, recv, panicked>>

(* pollInterfaces sees stopCh; until then its ticker may win.              *)
WatcherQuit ==
  /\ stop # "no" /\ watcher.step = "idle"
  /\ watcher' = [watcher EXCEPT !.step = "quit"]
  /\ UNCHANGED <<network, current, paths, path, choice, heartbeat, writeLock, recv, stop, panicked>>

(* Fault: the sockets are not closed.                                      *)
StopForget ==
  /\ stop = "begun" /\ ~writeLock
  /\ paths' = [n \in Nic |-> NoPath]
  /\ stop' = "waiting"
  /\ UNCHANGED <<network, watch, path, choice, heartbeat, writeLock, recv, panicked>>

(* All sockets are closed and all entries deleted under the write lock.    *)
StopClose ==
  /\ stop = "begun" /\ ~writeLock
  /\ path' = [i \in PathId |-> IF i \in Listed THEN [Forgotten(Shut(path[i])) EXCEPT !.closed = path[i].closed] ELSE path[i]]
  /\ paths' = [n \in Nic |-> NoPath]
  /\ stop' = "waiting"
  /\ UNCHANGED <<network, watch, choice, heartbeat, writeLock, recv, panicked>>

(* wg.Wait returns when the last receive loop has.                         *)
StopDone ==
  /\ stop = "waiting"
  /\ \A i \in PathId : path[i].reading + path[i].failing = 0
  /\ stop' = "done"
  /\ UNCHANGED <<network, watch, paths, path, choice, heartbeat, writeLock, recv, panicked>>

------------------------------------------------------------------------------
(* Interfaces, the network and the clock.                                  *)

NicChange(n, a) ==
  /\ "nic" \in Faults
  /\ a # nics[n] /\ changes < MaxChanges
  /\ nics' = [nics EXCEPT ![n] = a] /\ changes' = changes + 1
  /\ UNCHANGED <<deaf, watch, paths, path, choice, heartbeat, writeLock, recv, stop, panicked>>

(* What an interface reaches comes and goes.                               *)
Silence(n) ==
  /\ "silence" \in Faults
  /\ changes < MaxChanges /\ changes' = changes + 1
  /\ deaf' = IF n \in deaf THEN deaf \ {n} ELSE deaf \cup {n}
  /\ UNCHANGED <<nics, watch, paths, path, choice, heartbeat, writeLock, recv, stop, panicked>>

(* An answer that does not come because what the path reaches has changed. *)
Lose(i) ==
  /\ i \in pinged /\ ~Reaches(i)
  /\ pinged' = pinged \ {i}
  /\ UNCHANGED <<network, watch, paths, path, choice, heartbeat, writeLock, recvCh, reselect, stop, panicked>>

(* The time between two ticks.  The watcher has worked off what it saw,    *)
(* the answers to the heartbeats of the last tick have come and been dealt *)
(* with.  pathStaleTimeout has passed for the quiet paths (single losses,  *)
(* and the time until the watcher sees a change, are shorter), and         *)
(* recycleMinInterval or recycleBackoffDuration, both longer than a tick,  *)
(* for the aged ones.                                                      *)
Sleep(quiet, aged) ==
  /\ heartbeat.step = "sleep" /\ stop = "no"
  /\ watcher.step = "idle" /\ ~watcher.news /\ pinged = {} /\ recvCh = {} /\ ~reselect
  /\ quiet \subseteq {i \in Listed : ~path[i].silent /\ path[i].nic \in deaf}
  /\ aged \subseteq {i \in Listed : path[i].age \in {"recent", "cooled"}}
  /\ path' = [i \in PathId |->
                [path[i] EXCEPT !.silent = @ \/ i \in quiet,
                                !.age = CASE @ = "fresh" -> "recent"
                                          [] i \in aged /\ @ = "recent" -> "cooled"
                                          [] i \in aged /\ @ = "cooled" -> "old"
                                          [] OTHER -> @]]
  /\ heartbeat' = [heartbeat EXCEPT !.step = "tick"]
  /\ UNCHANGED <<network, watch, paths, choice, writeLock, recv, stop, panicked>>

(* switchCooldown passes.                                                  *)
CoolDown ==
  /\ cooling
  /\ cooling' = FALSE
  /\ UNCHANGED <<network, watch, paths, path, mode, active, heartbeat, writeLock, recv, stop, panicked>>

------------------------------------------------------------------------------
Sender    == \E S \in SUBSET PathId : SendRedundant(S) \/ (\E n \in Nic : S = {} /\ SendFailover(n))
Heartbeat == \E S \in SUBSET PathId : Tick(S)
Receiver  == \/ \E i \in PathId : Receive(i) \/ Retry(i)
             \/ \E n \in Nic, r \in RTTs : UpdateRTT(n, r)
             \/ Reselect
Recycler  == (\E n \in Nic : RecycleClose(n)) \/ RecycleOpen
Update    == \/ \E n \in Nic : RemoveLookup(n) \/ AddPath(n)
             \/ RemoveClose \/ RemoveDelete \/ FinishChanges
             \/ \E S \in SUBSET PathId : Announce(S)
Detect    == \E scan \in {nics, Nobody} : DetectChanges(scan)
Stopping  == WatcherQuit \/ StopClose \/ StopDone
Time      == (\E quiet, aged \in SUBSET PathId : Sleep(quiet, aged)) \/ CoolDown
World     == \/ \E n \in Nic : Silence(n) \/ \E a \in AnyAddr : NicChange(n, a)
             \/ \E i \in PathId : Lose(i)

Next == /\ ~panicked
        /\ \/ Sender \/ Heartbeat \/ Receiver \/ CheckStale \/ Recycler
           \/ Update \/ Detect \/ StopBegin \/ Stopping \/ Time \/ World
           \/ \E m \in Modes : SetSendMode(m)

Spec == Init /\ [][Next]_vars

(* Goroutines run and get the mutex they wait for, the tickers of the      *)
(* heartbeat loop and of the watcher tick, time passes for every path, and *)
(* a reachable server answers.                                             *)
Fairness ==
  /\ WF_vars(Heartbeat) /\ WF_vars(CheckStale) /\ WF_vars(Recycler) /\ WF_vars(Time)
  /\ WF_vars(Detect) /\ WF_vars(Update) /\ WF_vars(Stopping)
  /\ \A i \in PathId :
       /\ WF_vars(Receive(i)) /\ WF_vars(Retry(i)) /\ WF_vars(Lose(i))
       /\ SF_vars(\E quiet, aged \in SUBSET PathId : i \in quiet /\ Sleep(quiet, aged))
       /\ SF_vars(\E quiet, aged \in SUBSET PathId : i \in aged /\ Sleep(quiet, aged))
  /\ SF_vars(\E n \in Nic, r \in RTTs : UpdateRTT(n, r)) /\ SF_vars(Reselect)
  /\ SF_vars(CoolDown)

FairSpec == Spec /\ Fairness

------------------------------------------------------------------------------
(* Properties.                                                             *)

Healthy(n) == nics[n] # NoAddr /\ n \notin deaf

(* A path can be removed whatever its state (removePath), and even a down  *)
(* path can be retried after the backoff (the comment in                   *)
(* CheckAndRecycleStalePaths): neither closes a channel that is closed     *)
(* already, which would panic and end the client.  A run shows this        *)
(* violated: the removal closes it again while recyclePath replaces the    *)
(* socket, and both do once recyclePath has failed to create one.          *)
NeverPanics == ~panicked

(* No socket is left behind: one that is open belongs to a path the sender *)
(* knows, whatever the interfaces did and however often a path was         *)
(* replaced (addPath, removePath, Stop).                                   *)
SocketsAccounted == \A i \in PathId : path[i].open => i \in Listed

(* Except while a path is being taken away or replaced, nothing is sent to *)
(* a closed socket: a path in m.paths that is not down can be written to.  *)
UsablePathsOpen ==
  \A n \in Usable : path[paths[n]].open \/ paths[n] \in {watcher.path, heartbeat.path}

(* When the watcher has worked off a scan every path is bound to the       *)
(* address that scan found, and none is left of an interface that had gone,*)
(* although scans fail and paths are replaced meanwhile                    *)
(* (detectChanges, onInterfaceChange).                                     *)
PathsFollowScan ==
  watcher.step = "idle" => \A n \in Present : path[paths[n]].addr = current[n]

(* The receive loop of a path that was taken away finds out: its channel   *)
(* is closed and stays closed (removePath, recyclePath, perPathRecvLoop).  *)
RemovedLoopsEnd ==
  \A i \in PathId \ Listed :
    path[i].reading + path[i].failing > 0 => path[i].closed \/ stop # "no"

(* An interface that works again gets its path back, however long it was   *)
(* silent (CheckAndRecycleStalePaths: a path that was given up is tried    *)
(* again after the backoff, with a new socket).                            *)
PathsRecover ==
  \A n \in Nic : <>[](Healthy(n) /\ stop = "no")
                   => <>[](n \in Present /\ path[paths[n]].status = "active")

(* Failover does not stay on a path that has gone silent while another     *)
(* works, whatever its round-trip time was (docs/architecture.md: failover *)
(* switches automatically on a fault).                                     *)
FailoverLeavesSilentPaths ==
  \A n \in Nic :
    <>[](n \in deaf /\ mode = "failover" /\ stop = "no" /\ \E k \in Nic : Healthy(k))
      => []<>(active # n)

(* Stop returns: every receive loop ends (Stop waits for all of them).     *)
StopEnds == stop = "begun" ~> stop = "done"

==============================================================================
