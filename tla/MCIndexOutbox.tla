----------------------------- MODULE MCIndexOutbox -----------------------------
(* Instances of IndexOutbox for TLC. *)
EXTENDS IndexOutbox, TLC

CONSTANTS w1, w2, s1, s2
=============================================================================
