--------------------------- MODULE DedupChannelProofs ---------------------------
(***************************************************************************)
(* Proofs about DedupChannel: type correctness for every circle and every  *)
(* window, and, under ChannelBounds, that no packet is accepted twice and  *)
(* none is taken for a duplicate it is not, for every number of paths,     *)
(* packets and restarts.                                                   *)
(***************************************************************************)
EXTENDS DedupChannel, DedupWindowProofs

(* What the two theorems about packets assume.  A copy trails the newest   *)
(* packet by less than the window; the receiver hears of the sender before *)
(* the numbers it misses come round to the window again; and a sender      *)
(* restarts only where the deduplicator can notice it: far enough along    *)
(* the circle for the numbers of the new run to lie a window behind those  *)
(* of the copies still in flight.                                          *)
ChannelBounds ==
  /\ AlignedWindow
  /\ Lag <= Window
  /\ MaxGap + Window <= SeqMod
  /\ Window >= 2
  /\ \A s \in RestartAt : s >= Window + MaxGap + Lag - 2

------------------------------------------------------------------------------
(* The inductive invariant.  base is how many packets earlier runs of the  *)
(* sender sent, stop the counter at its last restart, newest the newest    *)
(* packet accepted.                                                        *)

(* The number of packet q, as long as copies of it are in flight.          *)
NumberOf(base, stop, q) ==
  IF q > base THEN (q - base - 1) % SeqMod ELSE stop - 1 - base + q

(* The counter and the copies in flight carry the numbers of their runs.   *)
NumbersOfRuns(base, stop) ==
  /\ restarts = 0 => base = 0
  /\ base > 0 => stop >= Window + MaxGap + Lag - 1
  /\ seq = (sent - base) % SeqMod
  /\ \A m \in net : /\ m.packet <= sent
                    /\ sent - m.packet < Lag
                    /\ m.seq = NumberOf(base, stop, m.packet)

(* The receiver is not further behind than it may be (Heard).              *)
NewestAccepted(newest) ==
  /\ \A g \in got : g <= newest
  /\ newest <= sent
  /\ sent <= newest + MaxGap

(* The window's top is packet t of the current run: the newest accepted,   *)
(* or a packet sent soon after the restart.                                *)
TopIs(base, newest, t) ==
  /\ t \in got /\ base < t /\ t <= newest
  /\ cs.maxSeq = (t - base - 1) % SeqMod
  /\ t = newest \/ (base > 0 /\ newest - base < Lag)

(* The window is still that of the earlier run, far ahead of the new one.  *)
TopIsOld(base, newest) ==
  /\ base > 0 /\ newest - base < Lag
  /\ cs.maxSeq >= Window + MaxGap - 1 + (newest - base)

(* Once something was accepted the window is in one of the two places.     *)
TopInv(base, newest) ==
  got # {} => (\E t \in got : TopIs(base, newest, t)) \/ TopIsOld(base, newest)

RunInv(base, stop, newest) ==
  NumbersOfRuns(base, stop) /\ NewestAccepted(newest) /\ TopInv(base, newest)

RunsInv ==
  \E base \in 0 .. sent, stop \in SeqNum, newest \in got \cup {0} :
    RunInv(base, stop, newest)

(* What the ring remembers of the packets in flight.                       *)
SeenInv ==
  /\ SoundState(cs)
  /\ cs.inited <=> got # {}
  /\ \A m \in net : cs.inited /\ m.seq \in SeenBy(cs) => m.packet \in got
  /\ missed = {}
  /\ restarts = 0 => /\ twice = {}
                     /\ \A m \in net : m.packet \in got => m.seq \in SeenBy(cs)

ChannelInv == TypeOK /\ RunsInv /\ SeenInv

------------------------------------------------------------------------------
(* Type correctness.                                                       *)

(* Every variable keeps its type; the set of packets accepted twice stays  *)
(* among the accepted ones (Client.seq, IsDuplicate).                      *)
THEOREM ChannelTypeCorrect == Spec => []TypeOK
<1> DEFINE Inv == TypeOK /\ SoundState(cs)
<1>1. Init => Inv
  BY FreshSound, ChannelAssumption, DedupAssumption DEF Init, TypeOK, SeqNum
<1>2. Inv /\ [Next]_vars => Inv'
  <2> SUFFICES ASSUME Inv, [Next]_vars PROVE Inv'
    OBVIOUS
  <2> USE DEF TypeOK
  <2>0. SoundState(cs') <=> SoundState(cs)'
    BY DEF SoundState
  <2>1. CASE Send
    <3>1. sent' \in 0 .. MaxSent /\ sent' \in Packet
      BY <2>1, ChannelAssumption DEF Send, Packet
    <3>2. seq' \in SeqNum
      BY <2>1, DivMod, DedupAssumption, seq + 1 \in Int DEF Send, SeqNum
    <3>3. net' \subseteq [packet : Packet, seq : SeqNum, path : Path]
      BY <2>1, <3>1 DEF Send
    <3> QED BY <2>0, <2>1, <3>1, <3>2, <3>3 DEF Send
  <2>2. CASE SenderRestart
    <3>1. restarts' \in 0 .. MaxRestarts /\ seq' \in SeqNum
      BY <2>2, ChannelAssumption, DedupAssumption DEF SenderRestart, SeqNum
    <3> QED BY <2>0, <2>2, <3>1 DEF SenderRestart
  <2>3. ASSUME NEW m \in net, Lose(m) PROVE Inv'
    BY <2>0, <2>3 DEF Lose
  <2>4. ASSUME NEW m \in net, Arrive(m) PROVE Inv'
    <3>1. m.packet \in Packet /\ m.seq \in SeqNum
      OBVIOUS
    <3>2. cs' \in ClientState /\ SoundState(cs')
      BY <2>4, <3>1, JudgedSound DEF Arrive
    <3>3. got' \subseteq Packet /\ twice' \subseteq got' /\ missed' \subseteq Packet
      BY <2>4, <3>1 DEF Arrive
    <3>4. net' \subseteq net /\ UNCHANGED <<sent, seq, restarts>>
      BY <2>4 DEF Arrive
    <3> QED BY <2>0, <3>2, <3>3, <3>4
  <2>5. CASE UNCHANGED vars
    BY <2>0, <2>5 DEF vars
  <2> QED BY <2>1, <2>2, <2>3, <2>4, <2>5 DEF Next
<1>3. Inv => TypeOK
  OBVIOUS
<1> QED BY <1>1, <1>2, <1>3, PTL DEF Spec

------------------------------------------------------------------------------
(* Numbers on the circle.                                                  *)

(* The bounds in plain numbers.                                            *)
LEMMA Sizes ==
  ASSUME ChannelBounds
  PROVE  /\ SeqMod \in Nat \ {0} /\ Window \in Nat /\ Lag \in Nat /\ MaxGap \in Nat
         /\ Window >= 2 /\ Lag >= 1 /\ MaxGap >= 1
         /\ Lag <= Window /\ MaxGap + Window <= SeqMod
         /\ Lag < SeqMod
  BY DedupAssumption, ChannelAssumption DEF ChannelBounds

LEMMA SmallRemainder == ASSUME NEW a \in SeqNum PROVE a % SeqMod = a
<1>1. (SeqMod * 0 + a) % SeqMod = a
  BY RemainderUnique, DedupAssumption DEF SeqNum
<1> QED BY <1>1, DedupAssumption DEF SeqNum

(* How far apart two residues lie on the circle.                           *)
LEMMA DistanceOfResidues ==
  ASSUME NEW a \in Int, NEW b \in Int
  PROVE  /\ a % SeqMod \in SeqNum /\ b % SeqMod \in SeqNum
         /\ ((a % SeqMod) - (b % SeqMod)) % SeqMod = (a - b) % SeqMod
<1> DEFINE M == SeqMod
           x == a \div M
           y == b \div M
           r == a % M
           s == b % M
<1>0. M \in Nat \ {0}
  BY DedupAssumption
<1>1. /\ x \in Int /\ r \in 0 .. M - 1 /\ a = M * x + r
      /\ y \in Int /\ s \in 0 .. M - 1 /\ b = M * y + s
  BY <1>0, DivMod
<1> HIDE DEF x, y, r, s
<1> DEFINE k == x - y
<1>2. k \in Int /\ r - s \in Int /\ a - b = (r - s) + M * k
  BY <1>0, <1>1
<1> HIDE DEF k, M
<1>3. ((r - s) + M * k) % M = (r - s) % M
  BY <1>0, <1>2, AddMultiple
<1> QED BY <1>1, <1>2, <1>3 DEF M, r, s, SeqNum

(* A little behind ...                                                     *)
LEMMA BehindBy ==
  ASSUME NEW a \in Int, NEW b \in Int, 0 <= a - b, a - b < SeqMod
  PROVE  ((a % SeqMod) - (b % SeqMod)) % SeqMod = a - b
<1>1. a - b \in SeqNum
  BY DedupAssumption DEF SeqNum
<1> QED BY <1>1, SmallRemainder, DistanceOfResidues

(* ... and a little ahead, the long way round.                             *)
LEMMA AheadBy ==
  ASSUME NEW a \in Int, NEW b \in Int, 0 < b - a, b - a < SeqMod
  PROVE  ((a % SeqMod) - (b % SeqMod)) % SeqMod = SeqMod - (b - a)
<1> DEFINE r == SeqMod - (b - a)
<1>1. r \in SeqNum /\ a - b = SeqMod * (-1) + r
  BY DedupAssumption DEF SeqNum
<1> HIDE DEF r
<1>2. (SeqMod * (-1) + r) % SeqMod = r
  BY <1>1, RemainderUnique, DedupAssumption DEF SeqNum
<1> QED BY <1>1, <1>2, DistanceOfResidues DEF r

(* The counter's step.                                                     *)
LEMMA NextResidue ==
  ASSUME NEW a \in Int
  PROVE  ((a % SeqMod) + 1) % SeqMod = (a + 1) % SeqMod
<1> DEFINE k == a \div SeqMod
           r == a % SeqMod
<1>1. k \in Int /\ r \in Int /\ a = SeqMod * k + r
  BY DivMod, DedupAssumption
<1> HIDE DEF k, r
<1> DEFINE b == r + 1
<1>2. b \in Int /\ a + 1 = b + SeqMod * k
  BY <1>1, DedupAssumption
<1> HIDE DEF b
<1>3. (b + SeqMod * k) % SeqMod = b % SeqMod
  BY <1>1, <1>2, AddMultiple, DedupAssumption
<1> QED BY <1>2, <1>3 DEF r, b

(* Copies in flight have the same number only if they are of one packet.   *)
LEMMA NumbersDiffer ==
  ASSUME ChannelBounds, sent \in Nat, NEW base \in 0 .. sent, NEW stop \in SeqNum,
         base > 0 => stop >= Window + MaxGap + Lag - 1,
         NEW p \in 1 .. sent, NEW q \in 1 .. sent, sent - p < Lag, p < q
  PROVE  NumberOf(base, stop, p) # NumberOf(base, stop, q)
<1>0. stop \in Int /\ base \in Int /\ p \in Int /\ q \in Int
  BY DedupAssumption DEF SeqNum
<1>1. CASE base < p
  <2>1. (p - base - 1) % SeqMod # (q - base - 1) % SeqMod
    <3> DEFINE a == p - base - 1
               b == q - base - 1
    <3>1. a \in Int /\ b \in Int /\ a < b /\ b - a < SeqMod
      BY <1>0, Sizes
    <3> HIDE DEF a, b
    <3>2. a % SeqMod # b % SeqMod
      BY <3>1, CloseResidues, DedupAssumption
    <3> QED BY <3>2 DEF a, b
  <2> QED BY <1>0, <1>1, <2>1 DEF NumberOf
<1>2. CASE p <= base /\ base < q
  <2>1. q - base - 1 \in SeqNum
    BY <1>0, <1>2, Sizes DEF SeqNum
  <2>2. (q - base - 1) % SeqMod = q - base - 1
    BY <2>1, SmallRemainder
  <2>3. stop >= Window + MaxGap + Lag - 1
    BY <1>0, <1>2
  <2> QED BY <1>0, <1>2, <2>2, <2>3, Sizes DEF NumberOf
<1>3. CASE q <= base
  BY <1>0, <1>3 DEF NumberOf
<1> QED BY <1>0, <1>1, <1>2, <1>3

------------------------------------------------------------------------------
(* Where a packet's number lies relative to the window.                    *)

(* The numbers of the packets after the window's top, up to those that may *)
(* be sent before another one is accepted, are not in the window: it has   *)
(* not come round to them.                                                 *)
LEMMA NewerIsOutside ==
  ASSUME ChannelBounds, TypeOK, NEW base \in 0 .. sent, NEW stop \in SeqNum,
         NEW newest \in got \cup {0}, RunInv(base, stop, newest),
         NEW t \in got, TopIs(base, newest, t),
         NEW q \in Int, t < q, q <= newest + MaxGap
  PROVE  ~InWindow((q - base - 1) % SeqMod, cs.maxSeq)
<1> DEFINE a == t - base - 1
           b == q - base - 1
<1>0. /\ stop \in 0 .. SeqMod - 1 /\ base \in Int /\ t \in Int /\ newest \in Int
  BY DEF TypeOK, Packet, SeqNum
<1>1. base < t /\ (t = newest \/ (base > 0 /\ newest - base < Lag))
  BY DEF TopIs
<1>2. base > 0 => stop >= Window + MaxGap + Lag - 1
  BY DEF RunInv, NumbersOfRuns
<1>3. 0 < b - a /\ b - a <= SeqMod - Window /\ b - a < SeqMod /\ a \in Int /\ b \in Int
  BY <1>0, <1>1, <1>2, Sizes
<1> HIDE DEF a, b
<1>4. ((a % SeqMod) - (b % SeqMod)) % SeqMod = SeqMod - (b - a)
  BY <1>3, AheadBy
<1>5. cs.maxSeq = a % SeqMod
  BY DEF TopIs, a
<1>6. ~InWindow(b % SeqMod, cs.maxSeq)
  BY <1>3, <1>4, <1>5, Sizes DEF InWindow
<1> QED BY <1>6 DEF b

(* A copy of the window's top or of an older packet of the current run is  *)
(* in the window.                                                          *)
LEMMA OlderIsInside ==
  ASSUME ChannelBounds, TypeOK, NEW base \in 0 .. sent,
         NEW newest \in Int, NEW t \in got, TopIs(base, newest, t), newest <= sent,
         NEW q \in Int, base < q, q <= t, sent - q < Lag
  PROVE  InWindow((q - base - 1) % SeqMod, cs.maxSeq)
<1> DEFINE a == t - base - 1
           b == q - base - 1
<1>0. base \in Int /\ t \in Int /\ sent \in Int /\ t <= sent
  BY DEF TypeOK, Packet, TopIs
<1>1. 0 <= a - b /\ a - b < Window /\ a - b < SeqMod /\ a \in Int /\ b \in Int
  BY <1>0, Sizes
<1> HIDE DEF a, b
<1>2. ((a % SeqMod) - (b % SeqMod)) % SeqMod = a - b
  BY <1>1, BehindBy
<1>3. InWindow(b % SeqMod, cs.maxSeq)
  BY <1>1, <1>2 DEF InWindow, TopIs, a
<1> QED BY <1>3 DEF b

(* While the window is that of an earlier run, no number of the new run is *)
(* in it.                                                                  *)
LEMMA NewRunIsOutside ==
  ASSUME ChannelBounds, TypeOK, NEW base \in 0 .. sent, NEW newest \in Nat,
         TopIsOld(base, newest),
         NEW q \in Int, base < q, q <= newest + MaxGap
  PROVE  ~InWindow((q - base - 1) % SeqMod, cs.maxSeq)
<1> DEFINE b == q - base - 1
<1>0. cs.maxSeq \in 0 .. SeqMod - 1 /\ base \in Int
  BY DEF TypeOK, ClientState, SeqNum
<1>1. cs.maxSeq >= Window + MaxGap - 1 + (newest - base)
  BY DEF TopIsOld
<1>2. b \in 0 .. SeqMod - 1 /\ cs.maxSeq - b >= Window
  BY <1>0, <1>1, Sizes
<1> HIDE DEF b
<1>3. b % SeqMod = b
  BY <1>2, SmallRemainder DEF SeqNum
<1>4. (cs.maxSeq - b) % SeqMod = cs.maxSeq - b
  BY <1>0, <1>2, BehindOnCircle, Sizes DEF SeqNum
<1>5. ~InWindow(b % SeqMod, cs.maxSeq)
  BY <1>0, <1>2, <1>3, <1>4, Sizes DEF InWindow
<1> QED BY <1>5 DEF b

(* What the invariant says in plain numbers.                               *)
LEMMA RunFacts ==
  ASSUME ChannelBounds, TypeOK, NEW base \in 0 .. sent, NEW stop \in SeqNum,
         NEW newest \in got \cup {0}, RunInv(base, stop, newest)
  PROVE  /\ sent \in Nat /\ base \in Nat /\ base <= sent
         /\ stop \in Nat /\ stop < SeqMod
         /\ newest \in Nat /\ newest <= sent /\ sent <= newest + MaxGap
         /\ base > 0 => stop >= Window + MaxGap + Lag - 1
         /\ got # {} => newest \in got
         /\ \A g \in got : g \in Int /\ 1 <= g /\ g <= newest
         /\ \A m \in net : /\ m.packet \in Packet /\ m.packet \in 1 .. sent
                           /\ sent - m.packet < Lag
                           /\ m.seq \in SeqNum
                           /\ m.seq = NumberOf(base, stop, m.packet)
<1>1. \A m \in net : m.packet \in Packet /\ m.seq \in SeqNum
  BY DEF TypeOK
<1>2. \A g \in got : g \in Int /\ 1 <= g /\ g <= newest
  BY DEF TypeOK, Packet, RunInv, NewestAccepted
<1>3. newest \in Nat /\ (got # {} => newest \in got)
  <2>1. CASE newest = 0
    <3>1. ~(\E g \in got : TRUE)
      BY <1>2, <2>1
    <3> QED BY <2>1, <3>1
  <2>2. CASE newest \in got
    BY <1>2, <2>2
  <2> QED BY <2>1, <2>2
<1>4. sent \in Nat /\ base \in Nat /\ base <= sent /\ stop \in Nat /\ stop < SeqMod
  BY DedupAssumption DEF TypeOK, SeqNum
<1> QED BY <1>1, <1>2, <1>3, <1>4 DEF RunInv, NumbersOfRuns, NewestAccepted, Packet

------------------------------------------------------------------------------
(* The steps.                                                              *)

LEMMA ChannelInit == ASSUME ChannelBounds PROVE Init => ChannelInv
<1> SUFFICES ASSUME Init PROVE ChannelInv
  OBVIOUS
<1>1. TypeOK
  BY FreshSound, ChannelAssumption, DedupAssumption DEF Init, TypeOK, SeqNum
<1>2. SeenInv
  BY FreshSound DEF Init, SeenInv, FreshState
<1>3. 0 \in SeqNum /\ (0 - 0) % SeqMod = 0
  BY SmallRemainder, Sizes DEF SeqNum
<1>4. RunInv(0, 0, 0)
  BY <1>3, Sizes DEF Init, RunInv, NumbersOfRuns, NewestAccepted, TopInv
<1>5. 0 \in 0 .. sent /\ 0 \in got \cup {0}
  BY DEF Init
<1> QED BY <1>1, <1>2, <1>3, <1>4, <1>5 DEF ChannelInv, RunsInv

(* A packet sent has a number outside the window.                          *)
LEMMA SendKeeps ==
  ASSUME ChannelBounds, ChannelInv, Send, TypeOK'
  PROVE  RunsInv' /\ SeenInv'
<1> USE DEF ChannelInv
<1>1. PICK base \in 0 .. sent, stop \in SeqNum, newest \in got \cup {0} :
        RunInv(base, stop, newest)
  BY DEF RunsInv
<1> DEFINE q == sent + 1
           n == (sent - base) % SeqMod
           new == {[packet |-> q, seq |-> n, path |-> p] : p \in Path}
<1>2. /\ sent \in Nat /\ base \in Nat /\ base <= sent
      /\ stop \in Nat /\ stop < SeqMod
      /\ newest \in Nat /\ newest <= sent /\ sent <= newest + MaxGap
      /\ base > 0 => stop >= Window + MaxGap + Lag - 1
      /\ got # {} => newest \in got
      /\ \A g \in got : g \in Int /\ 1 <= g /\ g <= newest
      /\ \A m \in net : /\ m.packet \in Packet /\ m.packet \in 1 .. sent
                        /\ sent - m.packet < Lag
                        /\ m.seq \in SeqNum
                        /\ m.seq = NumberOf(base, stop, m.packet)
  BY <1>1, RunFacts
<1>3. seq = n
  BY <1>1 DEF RunInv, NumbersOfRuns
<1>4. /\ sent' = q
      /\ net' = {m \in net : q - m.packet < Lag} \cup new
      /\ seq' = (seq + 1) % SeqMod
      /\ UNCHANGED <<restarts, cs, got, twice, missed>>
  BY <1>3 DEF Send
<1>5. sent < newest + MaxGap
  <2>1. PICK p \in got \cup {0} : sent - p < MaxGap
    BY DEF Send, Heard
  <2> QED BY <1>2, <2>1, Sizes
<1>6. n = (q - base - 1) % SeqMod /\ n = NumberOf(base, stop, q)
  BY <1>2, q - base - 1 = sent - base DEF NumberOf
<1>7. ASSUME got # {} PROVE ~InWindow(n, cs.maxSeq)
  <2>1. CASE \E t \in got : TopIs(base, newest, t)
    <3>1. PICK t \in got : TopIs(base, newest, t)
      BY <2>1
    <3>2. t < q /\ q <= newest + MaxGap /\ q \in Int
      BY <1>2, <1>5, Sizes
    <3> HIDE DEF q
    <3> QED BY <1>1, <1>6, <3>1, <3>2, NewerIsOutside
  <2>2. CASE TopIsOld(base, newest)
    <3>1. base < q /\ q <= newest + MaxGap /\ q \in Int
      BY <1>2, <1>5, Sizes
    <3> HIDE DEF q
    <3> QED BY <1>2, <1>6, <2>2, <3>1, NewRunIsOutside
  <2> QED BY <1>1, <1>7, <2>1, <2>2 DEF RunInv, TopInv
<1>8. \A m \in net' : (m \in net /\ q - m.packet < Lag) \/ (m.packet = q /\ m.seq = n)
  <2> HIDE DEF q, n
  <2>1. \A m \in new : m.packet = q /\ m.seq = n
    BY DEF new
  <2>2. net' = {m \in net : q - m.packet < Lag} \cup new
    BY <1>4 DEF q, n, new
  <2> HIDE DEF new
  <2> QED BY <2>1, <2>2
<1>9. seq' = (sent' - base) % SeqMod
  <2>1. (n + 1) % SeqMod = (sent - base + 1) % SeqMod
    BY <1>2, sent - base \in Int, NextResidue
  <2>2. sent' - base = sent - base + 1
    BY <1>2, <1>4
  <2> QED BY <1>3, <1>4, <2>1, <2>2
<1> HIDE DEF n, new
<1>10. RunInv(base, stop, newest)'
  <2>1. \A m \in net' : /\ m.packet <= sent'
                        /\ sent' - m.packet < Lag
                        /\ m.seq = NumberOf(base, stop, m.packet)
    BY <1>2, <1>4, <1>6, <1>8, Sizes
  <2>2. NumbersOfRuns(base, stop)'
    BY <1>1, <1>4, <1>9, <2>1 DEF RunInv, NumbersOfRuns, NumberOf
  <2>3. NewestAccepted(newest)'
    BY <1>2, <1>4, <1>5, Sizes DEF NewestAccepted
  <2>4. TopInv(base, newest)'
    BY <1>1, <1>4 DEF RunInv, TopInv, TopIs, TopIsOld
  <2> QED BY <2>2, <2>3, <2>4 DEF RunInv
<1>11. RunsInv'
  BY <1>1, <1>2, <1>4, <1>10 DEF RunsInv
<1>12. ~(cs.inited /\ n \in SeenBy(cs))
  BY <1>7 DEF SeenInv, SeenBy
<1>13. q \notin got
  BY <1>2
<1>14. SeenInv'
  <2>1. \A m \in net' : cs.inited /\ m.seq \in SeenBy(cs) => m.packet \in got
    BY <1>8, <1>12 DEF SeenInv
  <2>2. restarts = 0 => \A m \in net' : m.packet \in got => m.seq \in SeenBy(cs)
    BY <1>8, <1>13 DEF SeenInv
  <2>3. cs' = cs /\ got' = got /\ twice' = twice /\ missed' = missed /\ restarts' = restarts
    BY <1>4
  <2> QED BY <2>1, <2>2, <2>3 DEF SeenInv
<1> QED BY <1>11, <1>14

(* Losing a copy leaves less to prove.                                     *)
LEMMA LoseKeeps ==
  ASSUME ChannelInv, NEW m \in net, Lose(m)
  PROVE  RunsInv' /\ SeenInv'
<1>1. net' \subseteq net /\ UNCHANGED <<sent, seq, restarts, cs, got, twice, missed>>
  BY DEF Lose
<1>2. PICK base \in 0 .. sent, stop \in SeqNum, newest \in got \cup {0} :
        RunInv(base, stop, newest)
  BY DEF ChannelInv, RunsInv
<1>3. RunInv(base, stop, newest)'
  <2>1. NumbersOfRuns(base, stop)'
    BY <1>1, <1>2 DEF RunInv, NumbersOfRuns, NumberOf
  <2>2. NewestAccepted(newest)' /\ TopInv(base, newest)'
    BY <1>1, <1>2 DEF RunInv, NewestAccepted, TopInv, TopIs, TopIsOld
  <2> QED BY <2>1, <2>2 DEF RunInv
<1>4. RunsInv'
  BY <1>1, <1>2, <1>3 DEF RunsInv
<1>5. SeenInv'
  BY <1>1 DEF ChannelInv, SeenInv
<1> QED BY <1>4, <1>5

(* A sender can restart only when the window's top is the newest packet    *)
(* accepted: after a restart the counter is too low to do so again until   *)
(* the window has followed the new run.                                    *)
LEMMA RestartFromNewest ==
  ASSUME ChannelBounds, ChannelInv, SenderRestart,
         NEW base \in 0 .. sent, NEW stop \in SeqNum, NEW newest \in got \cup {0},
         RunInv(base, stop, newest)
  PROVE  got # {} /\ TopIs(base, newest, newest)
<1> DEFINE far == Window + MaxGap + Lag - 2
<1>1. /\ sent \in Nat /\ base \in Nat /\ base <= sent
      /\ newest \in Nat /\ newest <= sent /\ sent <= newest + MaxGap
      /\ base > 0 => stop >= Window + MaxGap + Lag - 1
      /\ got # {} => newest \in got
      /\ \A g \in got : g \in Int /\ 1 <= g /\ g <= newest
      /\ stop < SeqMod /\ stop \in Nat
  BY RunFacts DEF ChannelInv
<1>2. seq >= far /\ cs.maxSeq >= far
  BY DEF SenderRestart, ChannelBounds
<1>3. cs.maxSeq # 0
  BY <1>2, Sizes
<1>4. cs.inited /\ got # {}
  BY <1>3 DEF ChannelInv, SeenInv, SoundState, FreshState
<1>5. seq = (sent - base) % SeqMod
  BY DEF RunInv, NumbersOfRuns
<1>6. ~TopIsOld(base, newest)
  <2> SUFFICES ASSUME TopIsOld(base, newest) PROVE FALSE
    OBVIOUS
  <2>1. base > 0 /\ newest - base < Lag
    BY DEF TopIsOld
  <2>2. sent - base \in SeqNum
    BY <1>1, <2>1, Sizes DEF SeqNum
  <2>3. seq = sent - base
    BY <1>5, <2>2, SmallRemainder
  <2> QED BY <1>1, <1>2, <2>1, <2>3, Sizes
<1>7. PICK t \in got : TopIs(base, newest, t)
  BY <1>4, <1>6 DEF RunInv, TopInv
<1>8. t = newest
  <2> SUFFICES ASSUME t # newest PROVE FALSE
    OBVIOUS
  <2>1. base > 0 /\ newest - base < Lag /\ base < t /\ t <= newest
    BY <1>7 DEF TopIs
  <2>2. t - base - 1 \in SeqNum
    BY <1>1, <2>1, Sizes DEF SeqNum
  <2>3. cs.maxSeq = t - base - 1
    BY <1>7, <2>2, SmallRemainder DEF TopIs
  <2> QED BY <1>1, <1>2, <2>1, <2>3, Sizes
<1> QED BY <1>4, <1>7, <1>8

(* A number close behind one that is not near the wrap.                    *)
LEMMA CloseBehind ==
  ASSUME NEW a \in Int, NEW b \in Int, 0 < a - b, a - b < SeqMod, a % SeqMod >= a - b
  PROVE  b % SeqMod = (a % SeqMod) - (a - b)
<1> DEFINE r == a % SeqMod
           s == b % SeqMod
<1>1. (r - s) % SeqMod = a - b
  BY BehindBy
<1>2. r \in SeqNum /\ s \in SeqNum
  BY DistanceOfResidues
<1>3. r >= a - b
  OBVIOUS
<1> HIDE DEF r, s
<1>4. a - b = IF r >= s THEN r - s ELSE r - s + SeqMod
  BY <1>1, <1>2, BehindOnCircle
<1>5. s = r - (a - b)
  BY <1>2, <1>3, <1>4, DedupAssumption DEF SeqNum
<1> QED BY <1>5 DEF r, s

(* A restart opens a run whose numbers lie behind the copies in flight.    *)
LEMMA RestartKeeps ==
  ASSUME ChannelBounds, ChannelInv, SenderRestart
  PROVE  RunsInv' /\ SeenInv'
<1> USE DEF ChannelInv
<1> DEFINE far == Window + MaxGap + Lag - 2
<1>1. PICK base \in 0 .. sent, stop \in SeqNum, newest \in got \cup {0} :
        RunInv(base, stop, newest)
  BY DEF RunsInv
<1>2. /\ sent \in Nat /\ base \in Nat /\ base <= sent
      /\ newest \in Nat /\ newest <= sent /\ sent <= newest + MaxGap
      /\ \A g \in got : g \in Int /\ 1 <= g /\ g <= newest
      /\ \A m \in net : /\ m.packet \in 1 .. sent
                        /\ sent - m.packet < Lag
                        /\ m.seq = NumberOf(base, stop, m.packet)
  BY <1>1, RunFacts
<1>3. /\ got # {} /\ newest \in got /\ base < newest
      /\ cs.maxSeq = (newest - base - 1) % SeqMod
  BY <1>1, RestartFromNewest DEF TopIs
<1>4. /\ seq >= far /\ cs.maxSeq >= far
      /\ restarts' = restarts + 1 /\ seq' = 0
      /\ UNCHANGED <<sent, net, cs, got, twice, missed>>
  BY DEF SenderRestart, ChannelBounds
<1>5. seq = (sent - base) % SeqMod /\ seq \in Nat /\ restarts \in Nat
  BY <1>1, ChannelAssumption, DedupAssumption DEF RunInv, NumbersOfRuns, TypeOK, SeqNum
<1>6. cs.maxSeq = seq - (sent - newest + 1)
  <2> DEFINE a == sent - base
             b == newest - base - 1
  <2>1. a \in Int /\ b \in Int /\ a - b = sent - newest + 1
    BY <1>2
  <2>2. 0 < a - b /\ a - b < SeqMod /\ seq >= a - b
    BY <1>2, <1>4, <1>5, <2>1, Sizes
  <2>3. seq = a % SeqMod /\ cs.maxSeq = b % SeqMod
    BY <1>3, <1>5
  <2> HIDE DEF a, b
  <2>4. b % SeqMod = (a % SeqMod) - (a - b)
    BY <2>1, <2>2, <2>3, CloseBehind
  <2> QED BY <2>1, <2>3, <2>4
<1>7. sent - base >= Lag
  <2>1. CASE sent - base < SeqMod
    <3>1. sent - base \in SeqNum
      BY <1>2, <2>1, DedupAssumption DEF SeqNum
    <3> QED BY <1>4, <1>5, <3>1, SmallRemainder, Sizes
  <2>2. CASE sent - base >= SeqMod
    BY <2>2, <1>2, Sizes
  <2> QED BY <1>2, <2>1, <2>2, Sizes
<1>8. \A m \in net : m.seq = NumberOf(sent, seq, m.packet)
  <2> SUFFICES ASSUME NEW m \in net PROVE m.seq = NumberOf(sent, seq, m.packet)
    OBVIOUS
  <2> DEFINE a == sent - base
             b == m.packet - base - 1
  <2>0. m.packet \in 1 .. sent /\ sent - m.packet < Lag
    BY <1>2
  <2>1. a \in Int /\ b \in Int /\ a - b = sent - m.packet + 1 /\ m.packet > base
    BY <1>2, <1>7, <2>0, Sizes
  <2>2. 0 < a - b /\ a - b < SeqMod /\ seq >= a - b
    BY <1>2, <1>4, <1>5, <2>0, <2>1, Sizes
  <2>3. seq = a % SeqMod /\ m.seq = b % SeqMod
    BY <1>2, <1>5, <2>1 DEF NumberOf
  <2> HIDE DEF a, b
  <2>4. m.seq = seq - (a - b)
    BY <2>1, <2>2, <2>3, CloseBehind
  <2> QED BY <1>2, <1>5, <2>0, <2>1, <2>4 DEF NumberOf
<1>9. 0 = (sent - sent) % SeqMod
  BY <1>2, SmallRemainder, Sizes, sent - sent = 0 DEF SeqNum
<1>10. PICK base2 \in Nat, stop2 \in SeqNum : base2 = sent /\ stop2 = seq
  BY <1>2 DEF TypeOK
<1>11. RunInv(base2, stop2, newest)'
  <2>1. /\ restarts' # 0
        /\ stop2 >= Window + MaxGap + Lag - 1
        /\ seq' = (sent' - base2) % SeqMod
    BY <1>2, <1>4, <1>5, <1>6, <1>9, <1>10, Sizes
  <2>2. \A m \in net' : /\ m.packet <= sent'
                        /\ sent' - m.packet < Lag
                        /\ m.seq = NumberOf(base2, stop2, m.packet)
    BY <1>2, <1>4, <1>8, <1>10
  <2>3. NumbersOfRuns(base2, stop2)'
    BY <2>1, <2>2 DEF NumbersOfRuns, NumberOf
  <2>4. NewestAccepted(newest)'
    BY <1>2, <1>4 DEF NewestAccepted
  <2>5. /\ base2 > 0 /\ newest - base2 < Lag
        /\ cs.maxSeq >= Window + MaxGap - 1 + (newest - base2)
    BY <1>2, <1>3, <1>4, <1>5, <1>6, <1>10, Sizes
  <2>6. TopInv(base2, newest)'
    BY <1>4, <2>5 DEF TopInv, TopIsOld
  <2> QED BY <2>3, <2>4, <2>6 DEF RunInv
<1>12. RunsInv'
  <2>1. base2 \in 0 .. sent' /\ newest \in got' \cup {0}
    BY <1>2, <1>3, <1>4, <1>10
  <2> QED BY <1>11, <2>1 DEF RunsInv
<1>13. SeenInv'
  BY <1>4, <1>5 DEF SeenInv
<1> QED BY <1>12, <1>13

(* Where the window's top goes when a packet is accepted.                  *)
LEMMA TopMoves ==
  ASSUME ChannelBounds, TypeOK, NEW base \in 0 .. sent, NEW stop \in SeqNum,
         NEW newest \in got \cup {0}, RunInv(base, stop, newest),
         NEW m \in net, NEW next \in Int,
         next = (IF m.packet > newest THEN m.packet ELSE newest),
         got' = got \cup {m.packet},
         got = {} => cs'.maxSeq = m.seq,
         got # {} => cs'.maxSeq = IF InWindow(m.seq, cs.maxSeq) THEN cs.maxSeq ELSE m.seq
  PROVE  TopInv(base, next)'
<1> DEFINE q == m.packet
<1>1. /\ sent \in Nat /\ base \in Nat /\ base <= sent
      /\ stop \in Nat /\ stop < SeqMod
      /\ newest \in Nat /\ newest <= sent /\ sent <= newest + MaxGap
      /\ base > 0 => stop >= Window + MaxGap + Lag - 1
      /\ \A g \in got : g \in Int /\ 1 <= g /\ g <= newest
      /\ q \in 1 .. sent
      /\ sent - q < Lag
      /\ m.seq \in SeqNum
      /\ m.seq = NumberOf(base, stop, q)
  BY RunFacts
<1>2. q \in got' /\ q \in Int /\ (got = {} => newest = 0)
  BY <1>1
<1>3. next = (IF q > newest THEN q ELSE newest)
  OBVIOUS
<1> HIDE DEF q
<1>4. q > base => m.seq = (q - base - 1) % SeqMod
  BY <1>1 DEF NumberOf
<1>5. q <= base => m.seq = stop - 1 - base + q /\ base > 0
  BY <1>1, <1>2 DEF NumberOf
(* The top becomes q, a packet of the current run ...                      *)
<1>6. ASSUME q > base, cs'.maxSeq = m.seq,
             q = next \/ (base > 0 /\ newest - base < Lag)
      PROVE  TopInv(base, next)'
  <2>1. q <= next /\ (q = next \/ (base > 0 /\ next - base < Lag))
    BY <1>1, <1>3, <1>6
  <2>2. TopIs(base, next, q)'
    BY <1>2, <1>4, <1>6, <2>1 DEF TopIs
  <2> QED BY <1>2, <2>2 DEF TopInv
(* ... or one of an earlier run.                                           *)
<1>7. ASSUME q <= base, cs'.maxSeq = m.seq
      PROVE  TopInv(base, next)'
  <2>1. base > 0 /\ m.seq = stop - 1 - base + q
    BY <1>5, <1>7
  <2>2. next - base < Lag
    BY <1>1, <1>2, <1>3, <1>7, Sizes
  <2>3. m.seq >= Window + MaxGap - 1 + (next - base)
    BY <1>1, <1>2, <1>3, <1>7, <2>1, Sizes
  <2> QED BY <1>7, <2>1, <2>2, <2>3 DEF TopInv, TopIsOld
<1>8. CASE got = {}
  <2>1. cs'.maxSeq = m.seq /\ next = q
    BY <1>1, <1>2, <1>3, <1>8
  <2> QED BY <1>1, <1>2, <1>6, <1>7, <2>1
<1>9. CASE got # {} /\ \E t \in got : TopIs(base, newest, t)
  <2>1. PICK t \in got : TopIs(base, newest, t)
    BY <1>9
  <2>2. /\ t \in Int /\ base < t /\ t <= newest
        /\ t = newest \/ (base > 0 /\ newest - base < Lag)
    BY <1>1, <2>1 DEF TopIs
  <2>3. ASSUME cs'.maxSeq = cs.maxSeq, q <= t
        PROVE  TopInv(base, next)'
    <3>1. next = newest /\ t \in got'
      BY <1>1, <1>2, <1>3, <2>2, <2>3
    <3>2. TopIs(base, next, t)'
      BY <2>1, <2>3, <3>1 DEF TopIs
    <3> QED BY <3>1, <3>2 DEF TopInv
  <2>4. CASE q <= base
    BY <1>1, <1>2, <1>7, <1>9, <2>2, <2>3, <2>4
  <2>5. CASE base < q /\ q <= t
    <3>1. InWindow((q - base - 1) % SeqMod, cs.maxSeq)
      <4>1. newest \in Int /\ newest <= sent /\ q \in Int /\ base < q /\ q <= t /\ sent - q < Lag
        BY <1>1, <1>2, <2>5
      <4> QED BY <2>1, <4>1, OlderIsInside
    <3>2. cs'.maxSeq = cs.maxSeq
      BY <1>4, <1>9, <2>5, <3>1
    <3> QED BY <2>3, <2>5, <3>2
  <2>6. CASE t < q
    <3>1. q <= newest + MaxGap /\ base < q
      BY <1>1, <1>2, <2>2, <2>6, Sizes
    <3>2. ~InWindow((q - base - 1) % SeqMod, cs.maxSeq)
      BY <1>2, <2>1, <2>6, <3>1, NewerIsOutside
    <3>3. cs'.maxSeq = m.seq
      BY <1>4, <1>9, <3>1, <3>2
    <3>4. q = next \/ (base > 0 /\ newest - base < Lag)
      BY <1>1, <1>2, <1>3, <2>2, <2>6
    <3> QED BY <1>6, <3>1, <3>3, <3>4
  <2> QED BY <1>1, <1>2, <2>2, <2>4, <2>5, <2>6
<1>10. CASE got # {} /\ TopIsOld(base, newest)
  <2>1. /\ base > 0 /\ newest - base < Lag
        /\ cs.maxSeq >= Window + MaxGap - 1 + (newest - base)
        /\ cs.maxSeq \in SeqNum
    BY <1>10 DEF TopIsOld, TypeOK, ClientState
  <2>2. CASE base < q
    <3>1. q <= newest + MaxGap
      BY <1>1, <1>2, Sizes
    <3>2. ~InWindow((q - base - 1) % SeqMod, cs.maxSeq)
      BY <1>1, <1>2, <1>10, <2>2, <3>1, NewRunIsOutside
    <3>3. cs'.maxSeq = m.seq
      BY <1>4, <1>10, <2>2, <3>2
    <3> QED BY <1>6, <2>1, <2>2, <3>3
  <2>3. CASE q <= base /\ ~InWindow(m.seq, cs.maxSeq)
    BY <1>7, <1>10, <2>3
  <2>4. CASE q <= base /\ InWindow(m.seq, cs.maxSeq)
    <3>1. cs'.maxSeq = cs.maxSeq
      BY <1>10, <2>4
    <3>2. m.seq = stop - 1 - base + q
      BY <1>5, <2>4
    <3>3. (IF cs.maxSeq >= m.seq THEN cs.maxSeq - m.seq
           ELSE cs.maxSeq - m.seq + SeqMod) < Window
      BY <1>1, <2>1, <2>4, BehindOnCircle DEF InWindow
    <3>4. cs.maxSeq >= Window - 1
      BY <1>1, <2>1, Sizes DEF SeqNum
    <3>5. cs.maxSeq >= m.seq
      BY <1>1, <2>1, <3>3, <3>4, Sizes DEF SeqNum
    <3>6. cs.maxSeq >= Window + MaxGap - 1 + (next - base) /\ next - base < Lag
      BY <1>1, <1>2, <1>3, <2>1, <2>4, <3>2, <3>5, Sizes DEF SeqNum
    <3> QED BY <2>1, <3>1, <3>6 DEF TopInv, TopIsOld
  <2> QED BY <1>1, <1>2, <2>2, <2>3, <2>4
<1> QED BY <1>8, <1>9, <1>10 DEF RunInv, TopInv

(* A copy that is accepted.                                                *)
LEMMA AcceptKeeps ==
  ASSUME ChannelBounds, ChannelInv, NEW m \in net, Arrive(m), ~IsDup(cs, m.seq)
  PROVE  RunsInv' /\ SeenInv'
<1> USE DEF ChannelInv
<1>1. PICK base \in 0 .. sent, stop \in SeqNum, newest \in got \cup {0} :
        RunInv(base, stop, newest)
  BY DEF RunsInv
<1>2. /\ sent \in Nat /\ base \in Nat /\ base <= sent
      /\ stop \in Nat /\ stop < SeqMod
      /\ newest \in Nat /\ newest <= sent /\ sent <= newest + MaxGap
      /\ base > 0 => stop >= Window + MaxGap + Lag - 1
      /\ \A g \in got : g \in Int /\ 1 <= g /\ g <= newest
      /\ \A k \in net : /\ k.packet \in 1 .. sent
                        /\ sent - k.packet < Lag
                        /\ k.seq \in SeqNum
                        /\ k.seq = NumberOf(base, stop, k.packet)
  BY <1>1, RunFacts
<1>3. /\ net' = net \ {m}
      /\ cs' = Judged(cs, m.seq)
      /\ got' = got \cup {m.packet}
      /\ twice' = twice \cup ({m.packet} \cap got)
      /\ UNCHANGED <<missed, sent, seq, restarts>>
  BY DEF Arrive
<1>4. /\ cs \in ClientState /\ SoundState(cs) /\ cs.maxSeq \in SeqNum
      /\ cs.inited <=> got # {}
  BY DEF TypeOK, SeenInv, ClientState
<1>5. AlignedWindow /\ m.seq \in SeqNum
  BY <1>2 DEF ChannelBounds
<1>6. /\ cs'.inited
      /\ got = {} => cs'.maxSeq = m.seq /\ SeenBy(cs') = {m.seq}
      /\ got # {} /\ InWindow(m.seq, cs.maxSeq) =>
           cs'.maxSeq = cs.maxSeq /\ SeenBy(cs') = SeenBy(cs) \cup {m.seq}
      /\ got # {} /\ ~InWindow(m.seq, cs.maxSeq) =>
           /\ cs'.maxSeq = m.seq
           /\ SeenBy(cs') = {s \in SeenBy(cs) : InWindow(s, m.seq)} \cup {m.seq}
  BY <1>3, <1>4, <1>5, AcceptedExact
<1>7. SoundState(cs')
  BY <1>3, <1>4, <1>5, JudgedSound
<1>8. RunsInv'
  <2> DEFINE next == IF m.packet > newest THEN m.packet ELSE newest
  <2>1. next \in Int /\ next <= sent /\ newest <= next /\ m.packet <= next
    BY <1>2
  <2>2. next \in got' \cup {0}
    BY <1>1, <1>3
  <2>3. TopInv(base, next)'
    <3>1. got # {} => cs'.maxSeq = IF InWindow(m.seq, cs.maxSeq) THEN cs.maxSeq ELSE m.seq
      BY <1>6
    <3> DEFINE x == next
    <3>2. x \in Int /\ x = next
      BY <2>1
    <3> HIDE DEF x
    <3>3. TopInv(base, x)'
      BY <1>1, <1>3, <1>6, <3>1, <3>2, TopMoves
    <3> QED BY <3>3 DEF x
  <2> HIDE DEF next
  <2>4. NewestAccepted(next)'
    BY <1>2, <1>3, <2>1, Sizes DEF NewestAccepted
  <2>5. NumbersOfRuns(base, stop)'
    BY <1>1, <1>3 DEF RunInv, NumbersOfRuns, NumberOf
  <2>6. base \in 0 .. sent'
    BY <1>3
  <2> QED BY <2>2, <2>3, <2>4, <2>5, <2>6 DEF RunsInv, RunInv
<1>9. ASSUME NEW k \in net, k.seq = m.seq PROVE k.packet = m.packet
  <2>1. ~(k.packet < m.packet)
    BY <1>2, <1>9, NumbersDiffer
  <2>2. ~(m.packet < k.packet)
    BY <1>2, <1>9, NumbersDiffer
  <2> QED BY <1>2, <2>1, <2>2
<1>10. \A k \in net' : k.seq \in SeenBy(cs') => k.packet \in got'
  <2> SUFFICES ASSUME NEW k \in net', k.seq \in SeenBy(cs') PROVE k.packet \in got'
    OBVIOUS
  <2>1. k \in net
    BY <1>3
  <2>2. k.seq = m.seq \/ (cs.inited /\ k.seq \in SeenBy(cs))
    BY <1>4, <1>6
  <2> QED BY <1>3, <1>9, <2>1, <2>2 DEF SeenInv
<1>11. ASSUME restarts = 0
       PROVE  twice' = {} /\ \A k \in net' : k.packet \in got' => k.seq \in SeenBy(cs')
  <2>1. base = 0
    BY <1>1, <1>11 DEF RunInv, NumbersOfRuns
  <2>2. \A k \in net : k.packet \in got => k.seq \in SeenBy(cs)
    BY <1>11 DEF SeenInv
  <2>3. m.packet \notin got
    BY <1>4, <1>5, <2>2, DropsExactlySeen
  <2>4. twice' = {}
    BY <1>3, <1>11, <2>3 DEF SeenInv
  <2>5. ASSUME NEW k \in net', k.packet \in got' PROVE k.seq \in SeenBy(cs')
    <3>1. k \in net
      BY <1>3
    <3>2. CASE k.packet = m.packet
      <4>1. k.seq = m.seq
        BY <1>2, <3>1, <3>2
      <4> QED BY <1>4, <1>6, <4>1
    <3>3. CASE k.packet \in got /\ InWindow(m.seq, cs.maxSeq)
      BY <1>6, <2>2, <3>1, <3>3
    <3>4. CASE k.packet \in got /\ ~InWindow(m.seq, cs.maxSeq)
      <4>1. \E t \in got : TopIs(base, newest, t)
        BY <1>1, <2>1, <3>4 DEF RunInv, TopInv, TopIsOld
      <4>2. PICK t \in got : TopIs(base, newest, t)
        BY <4>1
      <4>3. t = newest
        BY <2>1, <4>2 DEF TopIs
      <4>4. /\ m.packet \in Int /\ base < m.packet /\ sent - m.packet < Lag
            /\ newest \in Int /\ newest <= sent
            /\ m.seq = (m.packet - base - 1) % SeqMod
        BY <1>2, <2>1 DEF NumberOf
      <4>5. ~(m.packet <= t)
        BY <3>4, <4>2, <4>4, OlderIsInside
      <4>6. k.packet <= newest /\ k.packet \in 1 .. sent /\ sent - k.packet < Lag
        BY <1>2, <3>1, <3>4
      <4> DEFINE a == m.packet - base - 1
                 b == k.packet - base - 1
      <4>7. a \in Int /\ b \in Int /\ 0 <= a - b /\ a - b < Window /\ a - b < SeqMod
        BY <1>2, <4>3, <4>4, <4>5, <4>6, Sizes
      <4>8. k.seq = b % SeqMod /\ m.seq = a % SeqMod
        BY <1>2, <2>1, <3>1, <4>4, <4>6 DEF NumberOf
      <4> HIDE DEF a, b
      <4>9. ((a % SeqMod) - (b % SeqMod)) % SeqMod = a - b
        BY <4>7, BehindBy
      <4>10. InWindow(k.seq, m.seq)
        BY <4>7, <4>8, <4>9 DEF InWindow
      <4> QED BY <1>6, <2>2, <3>1, <3>4, <4>10
    <3> QED BY <1>3, <2>5, <3>2, <3>3, <3>4
  <2> QED BY <2>4, <2>5
<1>12. SeenInv'
  <2>1. SoundState(cs)'
    BY <1>7 DEF SoundState
  <2>2. (\A k \in net : cs.inited /\ k.seq \in SeenBy(cs) => k.packet \in got)'
    BY <1>10 DEF SeenBy, InWindow
  <2>3. got' # {} /\ missed' = {}
    BY <1>3 DEF SeenInv
  <2>4. (restarts = 0 => /\ twice = {}
                         /\ \A k \in net : k.packet \in got => k.seq \in SeenBy(cs))'
    BY <1>3, <1>11 DEF SeenBy, InWindow
  <2> QED BY <1>6, <2>1, <2>2, <2>3, <2>4 DEF SeenInv
<1> QED BY <1>8, <1>12

(* A copy that is dropped was seen, and might as well have been lost.      *)
LEMMA ArriveKeeps ==
  ASSUME ChannelBounds, ChannelInv, NEW m \in net, Arrive(m)
  PROVE  RunsInv' /\ SeenInv'
<1>1. CASE IsDup(cs, m.seq)
  <2>1. cs \in ClientState /\ m.seq \in SeqNum /\ SoundState(cs) /\ AlignedWindow
    BY DEF ChannelInv, TypeOK, SeenInv, ChannelBounds
  <2>2. cs.inited /\ m.seq \in SeenBy(cs)
    BY <1>1, <2>1, DropsExactlySeen
  <2>3. m.packet \in got
    BY <2>2 DEF ChannelInv, SeenInv
  <2>4. cs' = cs
    BY <1>1, <2>1, DropKeepsState DEF Arrive
  <2>5. Lose(m)
    BY <1>1, <2>3, <2>4 DEF Arrive, Lose
  <2> QED BY <2>5, LoseKeeps
<1>2. CASE ~IsDup(cs, m.seq)
  BY <1>2, AcceptKeeps
<1> QED BY <1>1, <1>2

LEMMA ChannelInvariant == ASSUME ChannelBounds PROVE Spec => []ChannelInv
<1>1. Init => ChannelInv
  BY ChannelInit
<1>2. ChannelInv /\ TypeOK' /\ [Next]_vars => ChannelInv'
  <2> SUFFICES ASSUME ChannelInv, TypeOK', [Next]_vars PROVE ChannelInv'
    OBVIOUS
  <2>1. CASE Send
    BY <2>1, SendKeeps DEF ChannelInv
  <2>2. CASE SenderRestart
    BY <2>2, RestartKeeps DEF ChannelInv
  <2>3. ASSUME NEW m \in net, Lose(m) PROVE ChannelInv'
    BY <2>3, LoseKeeps DEF ChannelInv
  <2>4. ASSUME NEW m \in net, Arrive(m) PROVE ChannelInv'
    BY <2>4, ArriveKeeps DEF ChannelInv
  <2>5. CASE UNCHANGED vars
    BY <2>5 DEF vars, ChannelInv, RunsInv, RunInv, NumbersOfRuns, NumberOf, NewestAccepted,
                TopInv, TopIs, TopIsOld, SeenInv, SoundState, SeenBy, InWindow
  <2> QED BY <2>1, <2>2, <2>3, <2>4, <2>5 DEF Next
<1> QED BY <1>1, <1>2, ChannelTypeCorrect, PTL DEF Spec

------------------------------------------------------------------------------
(* What the deduplicator promises.                                         *)

(* As long as the sender does not restart, no packet is accepted twice,    *)
(* whatever the paths lose, delay or reorder and however often the counter *)
(* wraps (IsDuplicate: true for a duplicate).                              *)
THEOREM NoPacketAcceptedTwice == ASSUME ChannelBounds PROVE Spec => []NoPacketTwice
<1>1. ChannelInv => NoPacketTwice
  BY DEF ChannelInv, SeenInv, NoPacketTwice
<1> QED BY <1>1, ChannelInvariant, PTL

(* No packet is dropped of which no copy was accepted, across every wrap   *)
(* of the counter and every restart of the sender the deduplicator can     *)
(* notice (IsDuplicate: false for a new packet).                           *)
THEOREM FreshPacketsPass == ASSUME ChannelBounds PROVE Spec => []NoFreshPacketDropped
<1>1. ChannelInv => NoFreshPacketDropped
  BY DEF ChannelInv, SeenInv, NoFreshPacketDropped
<1> QED BY <1>1, ChannelInvariant, PTL

==============================================================================
