------------------------------ MODULE DedupSpec ------------------------------
(***************************************************************************)
(* What a deduplicator promises, without the ring of bits: it remembers,   *)
(* for each sender, the exact set of numbers it accepted among the last    *)
(* Window ones, drops a number exactly when it is in that set, and accepts *)
(* everything else.  A number outside the window, ahead or behind, moves   *)
(* the window to it.  Dedup implements this specification.                 *)
(***************************************************************************)
EXTENDS Integers

CONSTANTS Client, SeqMod, Window

VARIABLES win,    \* sender -> the window: its top and the numbers seen in it
          call    \* the call of IsDuplicate in progress, or the last one made

vars == <<win, call>>

SeqNum == 0 .. SeqMod - 1

Unheard == [top |-> 0, seen |-> {}]

(* How far seq lies behind top on the circle of sequence numbers.          *)
Behind(seq, top) == (top - seq) % SeqMod

Accepted(w, seq) ==
  IF w.seen # {} /\ Behind(seq, w.top) < Window
    THEN [w EXCEPT !.seen = @ \cup {seq}]
    ELSE [top  |-> seq,
          seen |-> {s \in w.seen : Behind(s, seq) < Window} \cup {seq}]

Init ==
  /\ win = [c \in Client |-> Unheard]
  /\ \E c \in Client :
       call = [pc |-> "idle", client |-> c, seq |-> 0, detached |-> FALSE,
               held |-> Unheard, dup |-> FALSE]

Begin(c, seq) ==
  /\ call.pc = "idle"
  /\ call' = [call EXCEPT !.pc = "judging", !.client = c, !.seq = seq]
  /\ UNCHANGED win

(* A call that a Reset overtook answers from the window it had looked up.  *)
Judge ==
  /\ call.pc = "judging"
  /\ LET w == IF call.detached THEN call.held ELSE win[call.client]
     IN  /\ call' = [call EXCEPT !.pc = "idle", !.detached = FALSE, !.held = Unheard,
                                 !.dup = call.seq \in w.seen]
         /\ win' = IF call.detached \/ call.seq \in w.seen THEN win
                   ELSE [win EXCEPT ![call.client] = Accepted(w, call.seq)]

Forget(c) ==
  /\ win' = [win EXCEPT ![c] = Unheard]
  /\ call' = IF call.pc = "judging" /\ call.client = c /\ ~call.detached
             THEN [call EXCEPT !.detached = TRUE, !.held = win[c]]
             ELSE call

Next == \/ \E c \in Client, seq \in SeqNum : Begin(c, seq)
        \/ Judge
        \/ \E c \in Client : Forget(c)

Spec == Init /\ [][Next]_vars

==============================================================================
