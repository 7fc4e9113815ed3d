----------------------------- MODULE MCTransfer -----------------------------
(***************************************************************************)
(* Two contents of each length from nothing to two chunks and a half, with *)
(* all bytes different.                                                    *)
(***************************************************************************)
EXTENDS Transfer

ByteMC  == 1..5 \cup 11..15
FilesMC == {[i \in 1..n |-> i + base] : n \in 0..5, base \in {0, 10}}
=============================================================================
