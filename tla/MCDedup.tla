------------------------------- MODULE MCDedup -------------------------------
(* Dedup on small circles of sequence numbers.                             *)
EXTENDS Dedup

==============================================================================
