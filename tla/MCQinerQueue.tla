----------------------------- MODULE MCQinerQueue -----------------------------
(* Two threads that find up to two solutions each, a packet sent in two parts. *)
EXTENDS QinerQueue

CONSTANTS t1, t2
=============================================================================
