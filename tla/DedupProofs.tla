------------------------------ MODULE DedupProofs ------------------------------
(***************************************************************************)
(* Proofs about Dedup for every circle of sequence numbers and every       *)
(* window: type correctness, the invariant of the window, and, when the    *)
(* window divides the circle, that the ring of bits implements the exact   *)
(* set of DedupSpec.  DedupWindowProofs has the lemmas.                    *)
(***************************************************************************)
EXTENDS Dedup, DedupWindowProofs

------------------------------------------------------------------------------
(* The exact window.                                                       *)

(* IsDuplicate drops exactly the numbers of the exact window.              *)
LEMMA DropsExactWindow ==
  ASSUME AlignedWindow, NEW cs \in ClientState, NEW seq \in SeqNum, SoundState(cs)
  PROVE  IsDup(cs, seq) <=> seq \in WindowOf(cs).seen
  BY DropsExactlySeen DEF WindowOf

(* Accepting a number moves the exact window as DedupSpec says.            *)
LEMMA JudgedExact ==
  ASSUME AlignedWindow, NEW cs \in ClientState, NEW seq \in SeqNum, SoundState(cs),
         ~IsDup(cs, seq)
  PROVE  WindowOf(Judged(cs, seq)) = Exact!Accepted(WindowOf(cs), seq)
<1> DEFINE w == WindowOf(cs)
<1>1. CASE ~cs.inited
  <2>1. w = [top |-> 0, seen |-> {}]
    BY <1>1 DEF WindowOf
  <2>2. Exact!Accepted(w, seq) = [top |-> seq, seen |-> {seq}]
    BY <2>1 DEF Exact!Accepted
  <2>3. /\ Judged(cs, seq).inited
        /\ Judged(cs, seq).maxSeq = seq
        /\ SeenBy(Judged(cs, seq)) = {seq}
    BY <1>1, AcceptedExact
  <2> HIDE DEF w
  <2>4. WindowOf(Judged(cs, seq)) = [top |-> seq, seen |-> {seq}]
    BY <2>3 DEF WindowOf
  <2> QED BY <2>2, <2>4 DEF w
<1>2. CASE cs.inited
  <2>0. cs.maxSeq \in SeqNum
    BY DEF ClientState
  <2>1. w = [top |-> cs.maxSeq, seen |-> SeenBy(cs)]
    BY <1>2 DEF WindowOf
  <2>2. cs.maxSeq \in SeenBy(cs)
    BY <1>2, <2>0, TopInWindow DEF SeenBy, SoundState
  <2>3. Exact!Accepted(w, seq) =
          IF InWindow(seq, cs.maxSeq)
          THEN [top |-> cs.maxSeq, seen |-> SeenBy(cs) \cup {seq}]
          ELSE [top |-> seq, seen |-> {s \in SeenBy(cs) : InWindow(s, seq)} \cup {seq}]
    <3>1. w.seen # {} /\ w.seen = SeenBy(cs) /\ w.top = cs.maxSeq
      BY <2>1, <2>2
    <3>2. \A x : [w EXCEPT !.seen = x] = [top |-> cs.maxSeq, seen |-> x]
      BY <2>1
    <3> HIDE DEF w
    <3> QED BY <3>1, <3>2 DEF Exact!Accepted, Exact!Behind, InWindow
  <2> QED BY <1>2, <2>3, AcceptedExact DEF WindowOf
<1> QED BY <1>1, <1>2

------------------------------------------------------------------------------
(* The invariants.                                                         *)

(* Every state of a sender, in the map or held by a call that a Reset      *)
(* overtook, is well formed and has the bit of its highest number set.     *)
THEOREM InvCorrect == Spec => [](TypeOK /\ WindowInv)
<1> DEFINE Inv == TypeOK /\ WindowInv
<1>0. WindowInv <=> (\A c \in Client : SoundState(clients[c])) /\ SoundState(call.held)
  BY DEF WindowInv, SoundState
<1>0p. WindowInv' <=> (\A c \in Client : SoundState(clients'[c])) /\ SoundState(call'.held)
  BY DEF WindowInv, SoundState
<1>1. Init => Inv
  <2> SUFFICES ASSUME Init PROVE Inv
    OBVIOUS
  <2>1. PICK c \in Client : call = [pc |-> "idle", client |-> c, seq |-> 0,
                                    detached |-> FALSE, held |-> FreshState, dup |-> FALSE]
    BY DEF Init
  <2>2. call \in Call /\ SoundState(call.held)
    BY <2>1, FreshSound, DedupAssumption DEF Call, SeqNum
  <2> QED BY <1>0, <2>2, FreshSound DEF Init, TypeOK
<1>2. Inv /\ [Next]_vars => Inv'
  <2> SUFFICES ASSUME Inv, [Next]_vars PROVE Inv'
    OBVIOUS
  <2> USE DEF TypeOK
  <2>0. /\ \A c \in Client : clients[c] \in ClientState /\ SoundState(clients[c])
        /\ call.held \in ClientState /\ SoundState(call.held)
        /\ call.client \in Client /\ call.seq \in SeqNum
    BY <1>0 DEF Call
  <2>1. ASSUME NEW c \in Client, NEW seq \in SeqNum, Lookup(c, seq) PROVE Inv'
    <3>1. call' \in Call /\ call'.held = call.held
      BY <2>1 DEF Lookup, Call
    <3> QED BY <1>0p, <2>0, <2>1, <3>1 DEF Lookup
  <2>2. CASE Check
    <3> DEFINE cs == IF call.detached THEN call.held ELSE clients[call.client]
    <3>1. Judged(cs, call.seq) \in ClientState /\ SoundState(Judged(cs, call.seq))
      BY <2>0, JudgedSound
    <3>2. call' \in Call /\ call'.held = FreshState
      <4>1. IsDup(cs, call.seq) \in BOOLEAN
        BY <2>0 DEF IsDup, ClientState
      <4> HIDE DEF cs
      <4>2. call' = [call EXCEPT !.pc = "idle", !.detached = FALSE, !.held = FreshState,
                                 !.dup = IsDup(cs, call.seq)]
        BY <2>2 DEF Check, cs
      <4> QED BY <4>1, <4>2, FreshSound DEF Call
    <3>3. clients' = IF call.detached THEN clients
                     ELSE [clients EXCEPT ![call.client] = Judged(cs, call.seq)]
      BY <2>2 DEF Check
    <3> HIDE DEF cs
    <3> QED BY <1>0p, <2>0, <3>1, <3>2, <3>3, FreshSound
  <2>3. ASSUME NEW c \in Client, Reset(c) PROVE Inv'
    <3>1. call' \in Call /\ SoundState(call'.held)
      BY <2>0, <2>3 DEF Reset, Call
    <3> QED BY <1>0p, <2>0, <2>3, <3>1, FreshSound DEF Reset
  <2>4. CASE UNCHANGED vars
    BY <1>0, <1>0p, <2>4 DEF vars
  <2> QED BY <2>1, <2>2, <2>3, <2>4 DEF Next
<1> QED BY <1>1, <1>2, PTL DEF Spec

(* The types of the map and of the call, also of a call that a Reset       *)
(* overtook (IsDuplicate, Reset).                                          *)
THEOREM DedupTypeCorrect == Spec => []TypeOK
  BY InvCorrect, PTL

------------------------------------------------------------------------------
(* The refinement.                                                         *)

(* When the window divides the circle and is at most half of it, the ring  *)
(* of bits implements the exact set of the numbers accepted in the window: *)
(* for every size, across the wrap, and with Reset coming in between       *)
(* IsDuplicate's two locks.                                                *)
THEOREM DedupImplementsExactWindow ==
  ASSUME AlignedWindow
  PROVE  Spec => ImplementsExactWindow
<1> DEFINE win == [c \in Client |-> WindowOf(clients[c])]
           abs == [call EXCEPT !.held = WindowOf(call.held)]
<1>0. WindowOf(FreshState) = Exact!Unheard
  BY DEF WindowOf, FreshState, Exact!Unheard
<1>1. Init => Exact!Init
  <2> SUFFICES ASSUME Init PROVE Exact!Init
    OBVIOUS
  <2>1. PICK c \in Client : call = [pc |-> "idle", client |-> c, seq |-> 0,
                                    detached |-> FALSE, held |-> FreshState, dup |-> FALSE]
    BY DEF Init
  <2>2. abs = [pc |-> "idle", client |-> c, seq |-> 0,
               detached |-> FALSE, held |-> Exact!Unheard, dup |-> FALSE]
    <3>1. WindowOf(call.held) = Exact!Unheard
      BY <1>0, <2>1
    <3>2. call \in Call
      BY <2>1, FreshSound, DedupAssumption DEF Call, SeqNum
    <3>3. abs = [call EXCEPT !.held = Exact!Unheard]
      BY <3>1
    <3>4. /\ call.pc = "idle" /\ call.client = c /\ call.seq = 0
          /\ call.detached = FALSE /\ call.dup = FALSE
      BY <2>1
    <3> HIDE DEF abs
    <3> QED BY <3>2, <3>3, <3>4 DEF Call
  <2>3. win = [x \in Client |-> Exact!Unheard]
    BY <1>0 DEF Init
  <2> QED BY <2>2, <2>3 DEF Exact!Init
<1>2. TypeOK /\ WindowInv /\ [Next]_vars => [Exact!Next]_(Exact!vars)
  <2> SUFFICES ASSUME TypeOK, WindowInv, [Next]_vars PROVE [Exact!Next]_(Exact!vars)
    OBVIOUS
  <2>0. /\ \A c \in Client : clients[c] \in ClientState /\ SoundState(clients[c])
        /\ call.held \in ClientState /\ SoundState(call.held)
        /\ call.client \in Client /\ call.seq \in SeqNum
        /\ call \in Call
    BY DEF TypeOK, WindowInv, SoundState, Call
  <2>1. ASSUME NEW c \in Client, NEW seq \in SeqNum, Lookup(c, seq)
        PROVE  Exact!Begin(c, seq)
    BY <2>0, <2>1 DEF Lookup, Exact!Begin, Call
  <2>2. ASSUME Check PROVE Exact!Judge
    <3> DEFINE cs == IF call.detached THEN call.held ELSE clients[call.client]
               w  == IF abs.detached THEN abs.held ELSE win[abs.client]
    <3>1. /\ abs.pc = call.pc /\ abs.client = call.client /\ abs.seq = call.seq
          /\ abs.detached = call.detached /\ abs.held = WindowOf(call.held)
      BY <2>0 DEF Call
    <3>2. w = WindowOf(cs)
      BY <2>0, <3>1
    <3>3. cs \in ClientState /\ SoundState(cs)
      BY <2>0
    <3>4. /\ call.pc = "judging"
          /\ call' = [call EXCEPT !.pc = "idle", !.detached = FALSE, !.held = FreshState,
                                  !.dup = IsDup(cs, call.seq)]
          /\ clients' = IF call.detached THEN clients
                        ELSE [clients EXCEPT ![call.client] = Judged(cs, call.seq)]
      BY <2>2 DEF Check
    <3>5. IsDup(cs, call.seq) <=> call.seq \in w.seen
      BY <2>0, <3>2, <3>3, DropsExactWindow
    <3>6. IsDup(cs, call.seq) \in BOOLEAN /\ (call.seq \in w.seen) \in BOOLEAN
      BY <3>3 DEF IsDup, ClientState
    <3>7. WindowOf(Judged(cs, call.seq)) =
            IF call.seq \in w.seen THEN w ELSE Exact!Accepted(w, call.seq)
      BY <2>0, <3>2, <3>3, <3>5, JudgedExact, DropKeepsState
    <3> HIDE DEF cs, w
    <3>8. abs' = [abs EXCEPT !.pc = "idle", !.detached = FALSE, !.held = Exact!Unheard,
                             !.dup = abs.seq \in w.seen]
      <4>1. call'.held = FreshState
        BY <2>0, <3>4 DEF Call
      <4>2. IsDup(cs, call.seq) = (call.seq \in w.seen)
        BY <3>5, <3>6
      <4> QED BY <1>0, <2>0, <3>1, <3>4, <4>1, <4>2 DEF Call
    <3>9. win' = IF abs.detached \/ abs.seq \in w.seen THEN win
                 ELSE [win EXCEPT ![abs.client] = Exact!Accepted(w, abs.seq)]
      <4>1. CASE call.detached
        BY <3>1, <3>4, <4>1
      <4>2. CASE ~call.detached
        <5>1. w = win[call.client]
          BY <3>1, <4>2 DEF w
        <5>2. clients' = [clients EXCEPT ![call.client] = Judged(cs, call.seq)]
          BY <3>4, <4>2
        <5>3. win' = [win EXCEPT ![call.client] =
                        IF call.seq \in w.seen THEN w ELSE Exact!Accepted(w, call.seq)]
          BY <2>0, <3>7, <5>2 DEF TypeOK
        <5> QED BY <2>0, <3>1, <4>2, <5>1, <5>3
      <4> QED BY <4>1, <4>2
    <3> QED BY <3>1, <3>4, <3>8, <3>9 DEF Exact!Judge, w
  <2>3. ASSUME NEW c \in Client, Reset(c)
        PROVE  Exact!Forget(c)
    BY <1>0, <2>0, <2>3 DEF Reset, Exact!Forget, Call, TypeOK
  <2>4. CASE UNCHANGED vars
    BY <2>4 DEF vars, Exact!vars
  <2>5. SeqNum = Exact!SeqNum
    BY DEF SeqNum, Exact!SeqNum
  <2> QED BY <2>1, <2>2, <2>3, <2>4, <2>5 DEF Next, Exact!Next
<1> QED BY <1>1, <1>2, InvCorrect, PTL DEF Spec, ImplementsExactWindow, Exact!Spec

==============================================================================
