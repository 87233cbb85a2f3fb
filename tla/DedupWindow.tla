----------------------------- MODULE DedupWindow -----------------------------
(***************************************************************************)
(* The arithmetic of internal/protocol/dedup.go: one sender's window of    *)
(* sequence numbers, kept as the highest number accepted and a ring of     *)
(* Window bits indexed by number modulo Window.  Every operator is a pure  *)
(* function; Dedup turns them into a state machine and DedupChannel puts   *)
(* them behind a lossy multipath network.                                  *)
(***************************************************************************)
EXTENDS Integers

CONSTANTS SeqMod,   \* how many sequence numbers there are (2^32 in the code)
          Window    \* windowSize

ASSUME DedupAssumption == /\ SeqMod \in Nat \ {0}
                          /\ Window \in Nat \ {0}

Half   == SeqMod \div 2
SeqNum == 0 .. SeqMod - 1

(* Fault: the ring index is not reduced.                                   *)
SlotUnreduced(seq) == seq

Slot(seq) == seq % Window

ClientState == [maxSeq : SeqNum, bitmap : SUBSET (0 .. Window - 1), inited : BOOLEAN]

(* The state of a sender nothing was heard from.  An entry that is absent  *)
(* from the map and one that was just created behave alike.                *)
FreshState == [maxSeq |-> 0, bitmap |-> {}, inited |-> FALSE]

(* How far seq is ahead of maxSeq, taking the wrap of uint32 into account. *)
SerialDiff(seq, maxSeq) ==
  LET diff == seq - maxSeq
  IN  IF diff > Half THEN diff - SeqMod
      ELSE IF diff < -Half THEN diff + SeqMod
      ELSE diff

IsAhead(cs, seq) == SerialDiff(seq, cs.maxSeq) > 0

(* Fault: off by one at the edge of the window.                            *)
IsBeyondWindow(cs, seq) == -SerialDiff(seq, cs.maxSeq) > Window

(* Fault: a sender's restart is not recognised.                            *)
IsNeverFarBehind(cs, seq) == FALSE

IsFarBehind(cs, seq) == -SerialDiff(seq, cs.maxSeq) >= Window

(* The bits a slide by shift clears: those of every number skipped.        *)
Cleared(cs, shift) ==
  IF shift >= Window THEN 0 .. Window - 1
  ELSE {Slot((cs.maxSeq + i) % SeqMod) : i \in 1 .. shift}

StartedAt(seq) == [maxSeq |-> seq, bitmap |-> {Slot(seq)}, inited |-> TRUE]

(* Fault: the new number's bit is set before the slide clears it.          *)
SlidToSetFirst(cs, seq) ==
  [cs EXCEPT !.maxSeq = seq,
             !.bitmap = (@ \cup {Slot(seq)}) \ Cleared(cs, SerialDiff(seq, cs.maxSeq))]

SlidTo(cs, seq) ==
  [cs EXCEPT !.maxSeq = seq,
             !.bitmap = (@ \ Cleared(cs, SerialDiff(seq, cs.maxSeq))) \cup {Slot(seq)}]

(* Fault: only an exact repeat of the highest number counts as duplicate.  *)
IsDupOfTop(cs, seq) == cs.inited /\ seq = cs.maxSeq

(* What IsDuplicate returns ...                                            *)
IsDup(cs, seq) ==
  /\ cs.inited
  /\ \/ seq = cs.maxSeq
     \/ /\ ~IsAhead(cs, seq)
        /\ ~IsFarBehind(cs, seq)
        /\ Slot(seq) \in cs.bitmap

(* ... and the state it leaves behind.                                     *)
Judged(cs, seq) ==
  IF ~cs.inited THEN StartedAt(seq)
  ELSE IF IsAhead(cs, seq) THEN SlidTo(cs, seq)
  ELSE IF IsFarBehind(cs, seq) THEN StartedAt(seq)
  ELSE IF IsDup(cs, seq) THEN cs
  ELSE [cs EXCEPT !.bitmap = @ \cup {Slot(seq)}]

------------------------------------------------------------------------------
(* The ring read as a set: the numbers seen are those of the current       *)
(* window whose bit is set.                                                *)

(* The window divides the circle and is at most half of it, as 4096 does   *)
(* 2^32; what the proofs about the exact window assume.                    *)
AlignedWindow == Window <= Half /\ SeqMod % Window = 0

InWindow(seq, top) == (top - seq) % SeqMod < Window

SeenBy(cs) == {s \in SeqNum : InWindow(s, cs.maxSeq) /\ Slot(s) \in cs.bitmap}

==============================================================================
