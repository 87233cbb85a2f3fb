----------------------------- MODULE DedupChannel -----------------------------
(***************************************************************************)
(* One sender, a redundant multipath network and the deduplicator at its   *)
(* far end: the sender numbers its packets with a wrapping counter and     *)
(* sends a copy of each over every path (client.go, multipath.go), the     *)
(* copies are lost, delayed and reordered, and the receiver asks           *)
(* IsDuplicate about each one that arrives (handleData).  A sender that    *)
(* restarts counts from zero again while the receiver still holds its      *)
(* state.  Packets are told apart by the order they were sent in, which    *)
(* the receiver does not see.                                              *)
(***************************************************************************)
EXTENDS DedupWindow, FiniteSets

CONSTANTS Path,         \* the paths of the sender
          Lag,          \* a copy is lost at the latest when Lag newer packets were sent
          MaxSent,      \* bound: packets the sender sends in all its runs
          MaxRestarts,  \* bound: restarts of the sender
          MaxGap,       \* the receiver hears one of every MaxGap packets sent
          RestartAt     \* the counter values at which the sender may restart

ASSUME ChannelAssumption == /\ Lag \in Nat \ {0}
                            /\ MaxGap \in Nat \ {0}
                            /\ MaxSent \in Nat
                            /\ MaxRestarts \in Nat
                            /\ RestartAt \subseteq SeqNum

VARIABLES sent,      \* packets sent so far
          seq,       \* the sender's counter (Client.seq)
          restarts,  \* restarts so far
          net,       \* copies in flight
          cs,        \* the receiver's state for this sender
          got,       \* packets the receiver accepted
          twice,     \* packets it accepted more than once
          missed     \* packets it dropped although no copy had been accepted

vars == <<sent, seq, restarts, net, cs, got, twice, missed>>

Packet == 1 .. MaxSent

TypeOK == /\ sent \in 0 .. MaxSent
          /\ seq \in SeqNum
          /\ restarts \in 0 .. MaxRestarts
          /\ net \subseteq [packet : Packet, seq : SeqNum, path : Path]
          /\ cs \in ClientState
          /\ got \subseteq Packet /\ twice \subseteq got /\ missed \subseteq Packet

Init == /\ sent = 0 /\ seq = 0 /\ restarts = 0
        /\ net = {}
        /\ cs = FreshState
        /\ got = {} /\ twice = {} /\ missed = {}

(* No more than MaxGap packets were sent since the newest one accepted.    *)
Heard == \E p \in got \cup {0} : sent - p < MaxGap

(* client.go: take the next number and hand a copy to every path.          *)
Send ==
  /\ sent < MaxSent
  /\ Heard
  /\ sent' = sent + 1
  /\ seq' = (seq + 1) % SeqMod
  /\ net' = {m \in net : sent' - m.packet < Lag}
              \cup {[packet |-> sent', seq |-> seq, path |-> p] : p \in Path}
  /\ UNCHANGED <<restarts, cs, got, twice, missed>>

(* The sender's process starts anew; its packets in flight stay in flight. *)
SenderRestart ==
  /\ restarts < MaxRestarts
  /\ seq \in RestartAt /\ cs.maxSeq \in RestartAt
  /\ restarts' = restarts + 1
  /\ seq' = 0
  /\ UNCHANGED <<sent, net, cs, got, twice, missed>>

Lose(m) ==
  /\ net' = net \ {m}
  /\ UNCHANGED <<sent, seq, restarts, cs, got, twice, missed>>

(* handleData's first step at either end.                                  *)
Arrive(m) ==
  /\ net' = net \ {m}
  /\ cs' = Judged(cs, m.seq)
  /\ IF IsDup(cs, m.seq)
     THEN /\ missed' = missed \cup ({m.packet} \ got)
          /\ UNCHANGED <<got, twice>>
     ELSE /\ got' = got \cup {m.packet}
          /\ twice' = twice \cup ({m.packet} \cap got)
          /\ UNCHANGED missed
  /\ UNCHANGED <<sent, seq, restarts>>

Next == \/ Send
        \/ SenderRestart
        \/ \E m \in net : Lose(m) \/ Arrive(m)

Spec == Init /\ [][Next]_vars

------------------------------------------------------------------------------
(* As long as the sender does not restart, no packet reaches the tunnel    *)
(* twice, whatever the paths lose, delay or reorder and however often the  *)
(* counter wraps, if no copy trails the newest packet by Window or more    *)
(* (IsDuplicate: true for a duplicate).                                    *)
NoPacketTwice == restarts = 0 => twice = {}

(* No packet is dropped whose copies were all dropped or lost before: the  *)
(* deduplicator never mistakes a packet it has not seen for a duplicate,   *)
(* nor one of a new run of the sender for one of the old run whose copies  *)
(* are still in flight (IsDuplicate: false for a new packet).              *)
NoFreshPacketDropped == missed = {}

==============================================================================
