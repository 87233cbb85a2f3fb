--------------------------- MODULE DedupWindowProofs ---------------------------
(***************************************************************************)
(* Lemmas about DedupWindow, for every circle of sequence numbers and every*)
(* window that divides it: the arithmetic of the circle, and what          *)
(* IsDuplicate makes of a ring of bits, read as the set of the numbers     *)
(* accepted in the window.                                                 *)
(***************************************************************************)
EXTENDS DedupWindow, TLAPS

------------------------------------------------------------------------------
(* Arithmetic.                                                             *)

(* Division with remainder, for any positive divisor.                      *)
LEMMA DivMod ==
  ASSUME NEW n \in Nat \ {0}, NEW a \in Int
  PROVE  /\ a % n \in 0 .. n - 1
         /\ a \div n \in Int
         /\ a = n * (a \div n) + (a % n)
  OBVIOUS

(* A multiple of n by a positive factor is at least n.                     *)
LEMMA MultipleAtLeast ==
  ASSUME NEW n \in Nat \ {0}, NEW q \in Int, q >= 1
  PROVE  n * q >= n
  OBVIOUS

(* The remainder is the only number below n with its residue.              *)
LEMMA RemainderUnique ==
  ASSUME NEW n \in Nat \ {0}, NEW q \in Int, NEW r \in 0 .. n - 1
  PROVE  (n * q + r) % n = r
  OBVIOUS

(* Adding a multiple of n does not change the residue.                     *)
LEMMA AddMultiple ==
  ASSUME NEW n \in Nat \ {0}, NEW k \in Int, NEW a \in Int
  PROVE  (a + n * k) % n = a % n
<1> DEFINE q == a \div n
           r == a % n
<1>1. q \in Int /\ r \in 0 .. n - 1 /\ a = n * q + r
  BY DivMod
<1> HIDE DEF q, r
<1>2. a + n * k = n * (q + k) + r
  BY <1>1
<1>3. (n * (q + k) + r) % n = r
  BY <1>1, RemainderUnique
<1> QED BY <1>2, <1>3 DEF r

(* Numbers less than n apart have different residues.                      *)
LEMMA CloseResidues ==
  ASSUME NEW n \in Nat \ {0}, NEW a \in Int, NEW b \in Int, a < b, b - a < n
  PROVE  a % n # b % n
<1> DEFINE x == a \div n
           y == b \div n
           r == a % n
<1> SUFFICES ASSUME b % n = r PROVE FALSE
  OBVIOUS
<1>1. x \in Int /\ y \in Int /\ r \in Int /\ a = n * x + r /\ b = n * y + r
  BY DivMod
<1> HIDE DEF x, y, r
<1>2. b - a = n * (y - x)
  BY <1>1
<1>3. CASE y - x >= 1
  <2>1. n * (y - x) >= n
    BY <1>1, <1>3, MultipleAtLeast
  <2> QED BY <1>2, <2>1
<1>4. CASE x - y >= 0
  <2>1. n * (x - y) >= 0
    BY <1>1, <1>4
  <2>2. n * (y - x) = -(n * (x - y))
    BY <1>1
  <2> QED BY <1>1, <1>2, <2>1, <2>2
<1> QED BY <1>1, <1>3, <1>4

------------------------------------------------------------------------------
(* The circle of sequence numbers.                                         *)

LEMMA HalfRange == Half \in Nat /\ 2 * Half <= SeqMod /\ SeqMod <= 2 * Half + 1
  BY DedupAssumption DEF Half

(* How far s lies behind t on the circle.                                  *)
LEMMA BehindOnCircle ==
  ASSUME NEW s \in SeqNum, NEW t \in SeqNum
  PROVE  (t - s) % SeqMod = IF t >= s THEN t - s ELSE t - s + SeqMod
<1> USE DedupAssumption DEF SeqNum
<1>1. CASE t >= s
  <2>1. t - s \in 0 .. SeqMod - 1
    BY <1>1
  <2>2. (SeqMod * 0 + (t - s)) % SeqMod = t - s
    BY <2>1, RemainderUnique
  <2> QED BY <1>1, <2>2
<1>2. CASE t < s
  <2>1. t - s + SeqMod \in 0 .. SeqMod - 1
    BY <1>2
  <2>2. (SeqMod * (-1) + (t - s + SeqMod)) % SeqMod = t - s + SeqMod
    BY <2>1, RemainderUnique
  <2>3. SeqMod * (-1) + (t - s + SeqMod) = t - s
    BY <2>1
  <2> QED BY <1>2, <2>2, <2>3
<1> QED BY <1>1, <1>2

LEMMA BehindRange ==
  ASSUME NEW s \in SeqNum, NEW t \in SeqNum
  PROVE  (t - s) % SeqMod \in 0 .. SeqMod - 1
<1>1. t - s \in Int
  BY DedupAssumption DEF SeqNum
<1> QED BY <1>1, DivMod, DedupAssumption

(* The number i steps after a on the circle.                               *)
LEMMA StepOnCircle ==
  ASSUME NEW a \in SeqNum, NEW i \in SeqNum
  PROVE  /\ (a + i) % SeqMod \in SeqNum
         /\ (a + i) % SeqMod = IF a + i < SeqMod THEN a + i ELSE a + i - SeqMod
<1> USE DedupAssumption DEF SeqNum
<1>1. CASE a + i < SeqMod
  <2>1. (SeqMod * 0 + (a + i)) % SeqMod = a + i
    BY <1>1, RemainderUnique, a + i \in 0 .. SeqMod - 1
  <2> QED BY <1>1, <2>1
<1>2. CASE a + i >= SeqMod
  <2>1. a + i - SeqMod \in 0 .. SeqMod - 1
    BY <1>2
  <2>2. (SeqMod * 1 + (a + i - SeqMod)) % SeqMod = a + i - SeqMod
    BY <2>1, RemainderUnique
  <2>3. SeqMod * 1 + (a + i - SeqMod) = a + i
    BY <2>1
  <2> QED BY <1>2, <2>1, <2>2, <2>3
<1> QED BY <1>1, <1>2

LEMMA SlotRange == ASSUME NEW s \in Int PROVE Slot(s) \in 0 .. Window - 1
  BY DivMod, DedupAssumption DEF Slot

(* On an aligned circle a number keeps its slot when it wraps.             *)
LEMMA SlotWraps ==
  ASSUME AlignedWindow, NEW a \in Int
  PROVE  /\ Slot(a + SeqMod) = Slot(a)
         /\ Slot(a % SeqMod) = Slot(a)
<1> USE DedupAssumption
<1> DEFINE k == SeqMod \div Window
           q == a \div SeqMod
           r == a % SeqMod
<1>1. k \in Int /\ SeqMod = Window * k
  BY DivMod DEF AlignedWindow
<1>2. q \in Int /\ r \in Int /\ a = SeqMod * q + r
  BY DivMod
<1> HIDE DEF k, q, r
<1>3. Slot(a + SeqMod) = Slot(a)
  BY <1>1, AddMultiple DEF Slot
<1>4. a = r + Window * (k * q)
  BY <1>1, <1>2
<1>5. k * q \in Int
  BY <1>1, <1>2
<1>6. Slot(a) = Slot(r)
  <2> DEFINE h == k * q
  <2>1. h \in Int /\ a = r + Window * h
    BY <1>4, <1>5
  <2> HIDE DEF h
  <2>2. (r + Window * h) % Window = r % Window
    BY <1>2, <2>1, AddMultiple
  <2> QED BY <2>1, <2>2 DEF Slot
<1> QED BY <1>3, <1>6 DEF r

(* Two numbers of one window that share a slot are the same number.        *)
LEMMA OneNumberPerSlot ==
  ASSUME AlignedWindow, NEW top \in SeqNum, NEW s \in SeqNum, NEW t \in SeqNum,
         InWindow(s, top), InWindow(t, top), Slot(s) = Slot(t)
  PROVE  s = t
<1> USE DedupAssumption DEF SeqNum
<1> DEFINE p == (top - s) % SeqMod
           q == (top - t) % SeqMod
<1>1. p \in 0 .. Window - 1 /\ (s = top - p \/ s = top - p + SeqMod)
  BY BehindOnCircle DEF InWindow
<1>2. q \in 0 .. Window - 1 /\ (t = top - q \/ t = top - q + SeqMod)
  BY BehindOnCircle DEF InWindow
<1> HIDE DEF p, q
<1> DEFINE u == top - p
           v == top - q
<1>3. u \in Int /\ v \in Int /\ (s = u \/ s = u + SeqMod) /\ (t = v \/ t = v + SeqMod)
  BY <1>1, <1>2
<1>4. u - v < Window /\ v - u < Window
  BY <1>1, <1>2
<1>5. (u = v) => (s = t)
  BY <1>3
<1> HIDE DEF u, v
<1>6. Slot(s) = Slot(u)
  BY <1>3, SlotWraps
<1>7. Slot(t) = Slot(v)
  BY <1>3, SlotWraps
<1>8. u % Window = v % Window
  BY <1>6, <1>7 DEF Slot
<1>9. u = v
  <2>1. ~(u < v)
    BY <1>3, <1>4, <1>8, CloseResidues
  <2>2. ~(v < u)
    BY <1>3, <1>4, <1>8, CloseResidues
  <2> QED BY <1>3, <2>1, <2>2
<1> QED BY <1>5, <1>9

(* The signed difference of the code, read on the circle: a number ahead   *)
(* is outside the window, any other lies minus the difference behind.      *)
LEMMA SerialDiffOnCircle ==
  ASSUME AlignedWindow, NEW s \in SeqNum, NEW t \in SeqNum
  PROVE  /\ SerialDiff(s, t) \in -Half .. Half
         /\ SerialDiff(s, t) > 0 => /\ (t - s) % SeqMod = SeqMod - SerialDiff(s, t)
                                   /\ ~InWindow(s, t)
         /\ SerialDiff(s, t) <= 0 => (t - s) % SeqMod = -SerialDiff(s, t)
<1> DEFINE b == (t - s) % SeqMod
<1>1. b = IF t >= s THEN t - s ELSE t - s + SeqMod
  BY BehindOnCircle
<1> HIDE DEF b
<1>2. /\ SerialDiff(s, t) \in -Half .. Half
      /\ SerialDiff(s, t) > 0 => b = SeqMod - SerialDiff(s, t)
      /\ SerialDiff(s, t) <= 0 => b = -SerialDiff(s, t)
  BY <1>1, HalfRange, DedupAssumption DEF SerialDiff, SeqNum
<1>3. SerialDiff(s, t) > 0 => ~(b < Window)
  BY <1>2, HalfRange, DedupAssumption DEF AlignedWindow
<1> QED BY <1>2, <1>3 DEF b, InWindow

(* A number behind a second one, itself behind a third.                    *)
LEMMA BehindAdds ==
  ASSUME NEW r \in SeqNum, NEW s \in SeqNum, NEW t \in SeqNum
  PROVE  LET b == (t - s) % SeqMod
             c == (s - r) % SeqMod
         IN  (t - r) % SeqMod = IF b + c < SeqMod THEN b + c ELSE b + c - SeqMod
<1> DEFINE a == (t - r) % SeqMod
           b == (t - s) % SeqMod
           c == (s - r) % SeqMod
<1>1. /\ a = IF t >= r THEN t - r ELSE t - r + SeqMod
      /\ b = IF t >= s THEN t - s ELSE t - s + SeqMod
      /\ c = IF s >= r THEN s - r ELSE s - r + SeqMod
  BY BehindOnCircle
<1> HIDE DEF a, b, c
<1>2. a = IF b + c < SeqMod THEN b + c ELSE b + c - SeqMod
  BY <1>1, DedupAssumption DEF SeqNum
<1> QED BY <1>2 DEF a, b, c

------------------------------------------------------------------------------
(* The ring of bits as a set.                                              *)

(* What WindowInv says of one state.                                       *)
SoundState(cs) == IF cs.inited THEN Slot(cs.maxSeq) \in cs.bitmap ELSE cs = FreshState

LEMMA TopInWindow == ASSUME NEW s \in SeqNum PROVE InWindow(s, s)
<1>1. (s - s) % SeqMod = s - s
  BY BehindOnCircle, s >= s DEF SeqNum
<1> QED BY <1>1, DedupAssumption DEF InWindow, SeqNum

(* A state just started has seen its first number only.                    *)
LEMMA StartedExact ==
  ASSUME AlignedWindow, NEW seq \in SeqNum
  PROVE  SeenBy(StartedAt(seq)) = {seq}
<1>1. \A s \in SeqNum : InWindow(s, seq) /\ Slot(s) = Slot(seq) => s = seq
  BY OneNumberPerSlot, TopInWindow
<1> QED BY <1>1, TopInWindow DEF SeenBy, StartedAt

(* IsDuplicate drops exactly the numbers seen.                             *)
LEMMA DropsExactlySeen ==
  ASSUME AlignedWindow, NEW cs \in ClientState, NEW seq \in SeqNum, SoundState(cs)
  PROVE  IsDup(cs, seq) <=> cs.inited /\ seq \in SeenBy(cs)
<1>1. CASE ~cs.inited
  BY <1>1 DEF IsDup
<1>2. CASE cs.inited
  <2> DEFINE d == SerialDiff(seq, cs.maxSeq)
  <2>0. cs.maxSeq \in SeqNum /\ Window \in Nat /\ Half \in Nat
    BY HalfRange, DedupAssumption DEF ClientState
  <2>2. CASE seq = cs.maxSeq
    BY <1>2, <2>0, <2>2, TopInWindow DEF IsDup, SeenBy, SoundState
  <2>3. CASE seq # cs.maxSeq
    <3>1. d \in Int
      BY <2>0, SerialDiffOnCircle
    <3>2. CASE d > 0
      BY <1>2, <2>0, <2>3, <3>2, SerialDiffOnCircle DEF IsDup, IsAhead, SeenBy
    <3>3. CASE d <= 0
      <4>1. InWindow(seq, cs.maxSeq) <=> -d < Window
        BY <2>0, <3>3, SerialDiffOnCircle DEF InWindow
      <4> QED BY <1>2, <2>0, <2>3, <3>1, <3>3, <4>1 DEF IsDup, IsAhead, IsFarBehind, SeenBy
    <3> QED BY <3>1, <3>2, <3>3
  <2> QED BY <2>2, <2>3
<1> QED BY <1>1, <1>2

(* A slide keeps what was seen and is still in the window, and nothing     *)
(* else: the bits it clears are those of the numbers it skipped.           *)
LEMMA SlideExact ==
  ASSUME AlignedWindow, NEW cs \in ClientState, NEW seq \in SeqNum, IsAhead(cs, seq)
  PROVE  SeenBy(SlidTo(cs, seq)) = {s \in SeenBy(cs) : InWindow(s, seq)} \cup {seq}
<1> DEFINE top == cs.maxSeq
           d == SerialDiff(seq, top)
           ring == (cs.bitmap \ Cleared(cs, d)) \cup {Slot(seq)}
<1>0. top \in SeqNum /\ cs.bitmap \in SUBSET (0 .. Window - 1)
  BY DEF ClientState
<1>1. /\ SlidTo(cs, seq).maxSeq = seq
      /\ SlidTo(cs, seq).bitmap = ring
  BY DEF SlidTo, ClientState
<1>2. d \in 1 .. Half /\ (top - seq) % SeqMod = SeqMod - d
  BY <1>0, SerialDiffOnCircle, HalfRange DEF IsAhead
<1>3. (seq - top) % SeqMod = d
  <2>1. (top - seq) % SeqMod = IF top >= seq THEN top - seq ELSE top - seq + SeqMod
    BY <1>0, BehindOnCircle
  <2>2. (seq - top) % SeqMod = IF seq >= top THEN seq - top ELSE seq - top + SeqMod
    BY <1>0, BehindOnCircle
  <2>3. top \in Int /\ seq \in Int /\ SeqMod \in Nat /\ Half \in Nat /\ 2 * Half <= SeqMod
    BY <1>0, HalfRange, DedupAssumption DEF SeqNum
  <2> HIDE DEF top, d
  <2> QED BY <1>2, <2>1, <2>2, <2>3
(* A number of the new window but its top was in the old one or was skipped. *)
<1>4. ASSUME NEW s \in SeqNum, InWindow(s, seq), s # seq
      PROVE  Slot(s) # Slot(seq)
  BY <1>4, OneNumberPerSlot, TopInWindow
<1>a. /\ Window \in Nat \ {0} /\ Half \in Nat /\ SeqMod \in Nat \ {0}
      /\ Window <= Half /\ 2 * Half <= SeqMod
  BY HalfRange, DedupAssumption DEF AlignedWindow
<1>5. ASSUME NEW s \in SeqNum, InWindow(s, seq), InWindow(s, top)
      PROVE  Slot(s) \notin Cleared(cs, d)
  <2> DEFINE e == (seq - s) % SeqMod
             c == (top - s) % SeqMod
  <2>1. /\ e \in 0 .. Window - 1 /\ c \in 0 .. Window - 1
        /\ e = IF d + c < SeqMod THEN d + c ELSE d + c - SeqMod
    BY <1>0, <1>3, <1>5, <1>a, BehindAdds, BehindRange DEF InWindow
  <2> HIDE DEF e, c
  <2>2. e = d + c /\ d < Window
    BY <1>2, <1>a, <2>1
  <2>3. ASSUME NEW i \in 1 .. d
        PROVE  Slot((top + i) % SeqMod) # Slot(s)
    <3> DEFINE t == (top + i) % SeqMod
    <3>0. i \in SeqNum
      BY <1>2, <1>a DEF SeqNum
    <3>1. i \in SeqNum /\ t \in SeqNum
      BY <1>0, <3>0, StepOnCircle
    <3>2. (seq - t) % SeqMod = d - i
      <4>1. t = IF top + i < SeqMod THEN top + i ELSE top + i - SeqMod
        BY <1>0, <3>1, StepOnCircle
      <4>2. (seq - t) % SeqMod = IF seq >= t THEN seq - t ELSE seq - t + SeqMod
        BY <3>1, BehindOnCircle
      <4>3. d = IF seq >= top THEN seq - top ELSE seq - top + SeqMod
        BY <1>0, <1>3, BehindOnCircle
      <4> HIDE DEF t, d, top
      <4> QED BY <1>0, <1>2, <1>a, <4>1, <4>2, <4>3 DEF SeqNum
    <3>3. InWindow(t, seq)
      BY <1>2, <1>a, <2>2, <3>2 DEF InWindow
    <3>4. t # s
      BY <1>2, <2>1, <2>2, <3>2 DEF e
    <3> QED BY <1>5, <3>1, <3>3, <3>4, OneNumberPerSlot
  <2> QED BY <1>2, <1>a, <2>2, <2>3 DEF Cleared
<1>6. ASSUME NEW s \in SeqNum, InWindow(s, seq), ~InWindow(s, top), s # seq
      PROVE  Slot(s) \in Cleared(cs, d)
  <2>1. CASE d >= Window
    BY <1>6, <2>1, SlotRange, <1>a DEF Cleared, SeqNum
  <2>2. CASE d < Window
    <3> DEFINE e == (seq - s) % SeqMod
               i == d - e
    <3>1. e = IF seq >= s THEN seq - s ELSE seq - s + SeqMod
      BY BehindOnCircle
    <3>2. d = IF seq >= top THEN seq - top ELSE seq - top + SeqMod
      BY <1>0, <1>3, BehindOnCircle
    <3>3. ~((top - s) % SeqMod < Window) /\ e < Window
      BY <1>6 DEF InWindow
    <3>4. (top - s) % SeqMod = IF top >= s THEN top - s ELSE top - s + SeqMod
      BY <1>0, BehindOnCircle
    <3>5. i \in 1 .. d /\ i \in SeqNum
      <4> HIDE DEF e, d, top
      <4> QED BY <1>0, <1>2, <1>6, <1>a, <2>2, <3>1, <3>2, <3>3, <3>4 DEF SeqNum
    <3>6. (top + i) % SeqMod = IF top + i < SeqMod THEN top + i ELSE top + i - SeqMod
      BY <1>0, <3>5, StepOnCircle
    <3>7. s = (top + i) % SeqMod
      <4> HIDE DEF e, d, top
      <4> QED BY <1>0, <1>2, <1>6, <1>a, <3>1, <3>2, <3>5, <3>6 DEF SeqNum
    <3> QED BY <1>2, <1>a, <2>2, <3>5, <3>7 DEF Cleared
  <2> QED BY <1>2, <1>a, <2>1, <2>2
<1>7. ASSUME NEW s \in SeqNum
      PROVE  s \in SeenBy(SlidTo(cs, seq)) <=>
               s \in {x \in SeenBy(cs) : InWindow(x, seq)} \cup {seq}
  <2>1. s \in SeenBy(SlidTo(cs, seq)) <=> InWindow(s, seq) /\ Slot(s) \in ring
    BY <1>1 DEF SeenBy
  <2>2. s \in {x \in SeenBy(cs) : InWindow(x, seq)} <=>
          InWindow(s, seq) /\ InWindow(s, top) /\ Slot(s) \in cs.bitmap
    BY DEF SeenBy
  <2>3. CASE s = seq
    BY <2>1, <2>3, TopInWindow
  <2>4. CASE s # seq
    BY <1>4, <1>5, <1>6, <2>1, <2>2, <2>4
  <2> QED BY <2>3, <2>4
<1>8. SeenBy(SlidTo(cs, seq)) \subseteq SeqNum /\ SeenBy(cs) \subseteq SeqNum
  BY DEF SeenBy
<1> QED BY <1>7, <1>8

(* A number too far behind shares no window with what was seen.            *)
LEMMA FarBehindForgets ==
  ASSUME AlignedWindow, NEW cs \in ClientState, NEW seq \in SeqNum,
         ~IsAhead(cs, seq), IsFarBehind(cs, seq)
  PROVE  /\ ~InWindow(seq, cs.maxSeq)
         /\ \A s \in SeenBy(cs) : ~InWindow(s, seq)
<1> DEFINE top == cs.maxSeq
           b == (top - seq) % SeqMod
<1>0. /\ top \in SeqNum
      /\ Window \in Nat /\ Half \in Nat /\ SeqMod \in Nat
      /\ Window <= Half /\ 2 * Half <= SeqMod
  BY HalfRange, DedupAssumption DEF ClientState, AlignedWindow
<1>1. b \in Window .. Half
  BY <1>0, SerialDiffOnCircle DEF IsAhead, IsFarBehind
<1>2. ASSUME NEW s \in SeenBy(cs), InWindow(s, seq)
      PROVE  FALSE
  <2>1. s \in SeqNum /\ (top - s) % SeqMod < Window
    BY <1>2 DEF SeenBy, InWindow
  <2>2. (seq - s) % SeqMod < Window
    BY <1>2 DEF InWindow
  <2>3. (seq - s) % SeqMod \in 0 .. SeqMod - 1
    BY <2>1, BehindRange
  <2>4. (top - s) % SeqMod = IF b + ((seq - s) % SeqMod) < SeqMod
                             THEN b + ((seq - s) % SeqMod)
                             ELSE b + ((seq - s) % SeqMod) - SeqMod
    BY <1>0, <2>1, BehindAdds
  <2> HIDE DEF b, top
  <2> QED BY <1>0, <1>1, <2>1, <2>2, <2>3, <2>4
<1>3. ~InWindow(seq, top)
  BY <1>0, <1>1 DEF InWindow
<1> QED BY <1>2, <1>3

(* A number that is dropped leaves the state as it was.                    *)
LEMMA DropKeepsState ==
  ASSUME NEW cs \in ClientState, NEW seq \in SeqNum, IsDup(cs, seq)
  PROVE  Judged(cs, seq) = cs
<1>1. CASE seq = cs.maxSeq
  <2>1. SerialDiff(seq, cs.maxSeq) = 0
    BY <1>1, HalfRange DEF SerialDiff, SeqNum
  <2> QED BY <2>1, DedupAssumption DEF IsDup, Judged, IsAhead, IsFarBehind
<1>2. CASE seq # cs.maxSeq
  BY <1>2 DEF IsDup, Judged
<1> QED BY <1>1, <1>2

(* Accepting a number adds it to the numbers seen; one outside the window  *)
(* moves the window to it, ahead or behind, and leaves of what was seen    *)
(* what the new window has in common with the old one.                     *)
LEMMA AcceptedExact ==
  ASSUME AlignedWindow, NEW cs \in ClientState, NEW seq \in SeqNum, SoundState(cs),
         ~IsDup(cs, seq)
  PROVE  /\ Judged(cs, seq).inited
         /\ ~cs.inited => Judged(cs, seq).maxSeq = seq /\ SeenBy(Judged(cs, seq)) = {seq}
         /\ cs.inited /\ InWindow(seq, cs.maxSeq) =>
              /\ Judged(cs, seq).maxSeq = cs.maxSeq
              /\ SeenBy(Judged(cs, seq)) = SeenBy(cs) \cup {seq}
         /\ cs.inited /\ ~InWindow(seq, cs.maxSeq) =>
              /\ Judged(cs, seq).maxSeq = seq
              /\ SeenBy(Judged(cs, seq)) = {s \in SeenBy(cs) : InWindow(s, seq)} \cup {seq}
<1>0. cs.maxSeq \in SeqNum
  BY DEF ClientState
<1>s. StartedAt(seq).inited /\ StartedAt(seq).maxSeq = seq /\ SeenBy(StartedAt(seq)) = {seq}
  BY StartedExact DEF StartedAt
<1>1. CASE ~cs.inited
  BY <1>1, <1>s DEF Judged
<1>2. CASE cs.inited /\ IsAhead(cs, seq)
  <2>1. Judged(cs, seq) = SlidTo(cs, seq)
    BY <1>2 DEF Judged
  <2>2. ~InWindow(seq, cs.maxSeq)
    BY <1>0, <1>2, SerialDiffOnCircle DEF IsAhead
  <2>3. SlidTo(cs, seq).inited /\ SlidTo(cs, seq).maxSeq = seq
    BY <1>2 DEF SlidTo, ClientState
  <2> QED BY <1>2, <2>1, <2>2, <2>3, SlideExact
<1>3. CASE cs.inited /\ ~IsAhead(cs, seq) /\ IsFarBehind(cs, seq)
  <2>1. Judged(cs, seq) = StartedAt(seq)
    BY <1>3 DEF Judged
  <2>2. ~InWindow(seq, cs.maxSeq) /\ {s \in SeenBy(cs) : InWindow(s, seq)} = {}
    BY <1>3, FarBehindForgets
  <2> QED BY <1>3, <1>s, <2>1, <2>2
<1>4. CASE cs.inited /\ ~IsAhead(cs, seq) /\ ~IsFarBehind(cs, seq)
  <2> DEFINE cs2 == [cs EXCEPT !.bitmap = @ \cup {Slot(seq)}]
  <2>1. Judged(cs, seq) = cs2
    BY <1>4 DEF Judged
  <2>2. cs2.inited /\ cs2.maxSeq = cs.maxSeq /\ cs2.bitmap = cs.bitmap \cup {Slot(seq)}
    BY <1>4 DEF ClientState
  <2>3. InWindow(seq, cs.maxSeq)
    <3>1. /\ SerialDiff(seq, cs.maxSeq) \in Int
          /\ SerialDiff(seq, cs.maxSeq) <= 0
          /\ -SerialDiff(seq, cs.maxSeq) < Window
      BY <1>0, <1>4, SerialDiffOnCircle, HalfRange, DedupAssumption DEF IsAhead, IsFarBehind
    <3> QED BY <1>0, <3>1, SerialDiffOnCircle DEF InWindow
  <2>4. \A s \in SeqNum : InWindow(s, cs.maxSeq) /\ Slot(s) = Slot(seq) => s = seq
    BY <1>0, <2>3, OneNumberPerSlot
  <2> HIDE DEF cs2
  <2>5. SeenBy(cs2) = SeenBy(cs) \cup {seq}
    BY <2>2, <2>3, <2>4 DEF SeenBy
  <2> QED BY <1>4, <2>1, <2>2, <2>3, <2>5
<1> QED BY <1>1, <1>2, <1>3, <1>4

------------------------------------------------------------------------------
(* Well-formed states.                                                     *)

LEMMA JudgedSound ==
  ASSUME NEW cs \in ClientState, NEW seq \in SeqNum, SoundState(cs)
  PROVE  Judged(cs, seq) \in ClientState /\ SoundState(Judged(cs, seq))
<1>1. Slot(seq) \in 0 .. Window - 1 /\ 0 \in SeqNum
  BY SlotRange, DedupAssumption DEF SeqNum
<1>2. StartedAt(seq) \in ClientState /\ SoundState(StartedAt(seq))
  BY <1>1 DEF StartedAt, ClientState, SoundState
<1>3. ASSUME cs.inited
      PROVE  SlidTo(cs, seq) \in ClientState /\ SoundState(SlidTo(cs, seq))
  BY <1>1, <1>3 DEF SlidTo, ClientState, SoundState
<1>4. ASSUME cs.inited
      PROVE  /\ [cs EXCEPT !.bitmap = @ \cup {Slot(seq)}] \in ClientState
             /\ SoundState([cs EXCEPT !.bitmap = @ \cup {Slot(seq)}])
  BY <1>1, <1>4 DEF ClientState, SoundState
<1>5. \/ Judged(cs, seq) = StartedAt(seq)
      \/ cs.inited /\ Judged(cs, seq) = SlidTo(cs, seq)
      \/ Judged(cs, seq) = cs
      \/ cs.inited /\ Judged(cs, seq) = [cs EXCEPT !.bitmap = @ \cup {Slot(seq)}]
  BY DEF Judged
<1> QED BY <1>2, <1>3, <1>4, <1>5

LEMMA FreshSound == FreshState \in ClientState /\ SoundState(FreshState)
  BY DedupAssumption DEF FreshState, ClientState, SoundState, SeqNum

==============================================================================
