-------------------------------- MODULE Dedup --------------------------------
(***************************************************************************)
(* The Deduplicator of internal/protocol/dedup.go as a state machine.      *)
(* IsDuplicate is called by one goroutine at a time (the server's receive  *)
(* loop, the client's receive loop) but takes two locks one after the      *)
(* other: d.mu to find the sender's state, then cs.mu to judge the number. *)
(* Reset, called by the server's cleanup goroutine and its HTTP handlers,  *)
(* can come between the two; the call then judges with, and updates, a     *)
(* state that is no longer in the map.                                     *)
(***************************************************************************)
EXTENDS DedupWindow

CONSTANT Client

ASSUME ClientAssumption == Client # {}

VARIABLES clients,  \* sender -> its state; FreshState when it has no entry
          call      \* the call of IsDuplicate in progress, or the last one made

vars == <<clients, call>>

Call == [pc : {"idle", "judging"}, client : Client, seq : SeqNum,
         detached : BOOLEAN, held : ClientState, dup : BOOLEAN]

TypeOK == /\ clients \in [Client -> ClientState]
          /\ call \in Call

Init ==
  /\ clients = [c \in Client |-> FreshState]
  /\ \E c \in Client :
       call = [pc |-> "idle", client |-> c, seq |-> 0, detached |-> FALSE,
               held |-> FreshState, dup |-> FALSE]

(* IsDuplicate(c, seq), up to the release of d.mu.                         *)
Lookup(c, seq) ==
  /\ call.pc = "idle"
  /\ call' = [call EXCEPT !.pc = "judging", !.client = c, !.seq = seq]
  /\ UNCHANGED clients

(* IsDuplicate from cs.mu.Lock to its return.                              *)
Check ==
  /\ call.pc = "judging"
  /\ LET cs == IF call.detached THEN call.held ELSE clients[call.client]
     IN  /\ call' = [call EXCEPT !.pc = "idle", !.detached = FALSE, !.held = FreshState,
                                 !.dup = IsDup(cs, call.seq)]
         /\ clients' = IF call.detached THEN clients
                       ELSE [clients EXCEPT ![call.client] = Judged(cs, call.seq)]

(* Reset(c): the entry leaves the map; a call that found it keeps it.      *)
Reset(c) ==
  /\ clients' = [clients EXCEPT ![c] = FreshState]
  /\ call' = IF call.pc = "judging" /\ call.client = c /\ ~call.detached
             THEN [call EXCEPT !.detached = TRUE, !.held = clients[c]]
             ELSE call

Next == \/ \E c \in Client, seq \in SeqNum : Lookup(c, seq)
        \/ Check
        \/ \E c \in Client : Reset(c)

Spec == Init /\ [][Next]_vars

------------------------------------------------------------------------------
(* The refinement: the exact window of a state, and of one nothing was     *)
(* heard in.                                                               *)

WindowOf(cs) == IF cs.inited THEN [top |-> cs.maxSeq, seen |-> SeenBy(cs)]
                ELSE [top |-> 0, seen |-> {}]

Exact == INSTANCE DedupSpec WITH
           win  <- [c \in Client |-> WindowOf(clients[c])],
           call <- [call EXCEPT !.held = WindowOf(call.held)]

(* The ring of bits, with its slides, its clears and its restarts, behaves *)
(* like the exact set of the numbers accepted in the window: no number is  *)
(* dropped that was not accepted in it, and none is accepted twice, also   *)
(* across the wrap of uint32 and under a concurrent Reset                  *)
(* (IsDuplicate, Reset).                                                   *)
ImplementsExactWindow == Exact!Spec

(* The bit of the highest number is always set, so the shortcut for an     *)
(* exact repeat of maxSeq agrees with the bitmap; and a state nothing was  *)
(* heard in has no bit that a later number could trip over.                *)
WindowInv ==
  \A cs \in {clients[c] : c \in Client} \cup {call.held} :
    IF cs.inited THEN Slot(cs.maxSeq) \in cs.bitmap ELSE cs = FreshState

==============================================================================
