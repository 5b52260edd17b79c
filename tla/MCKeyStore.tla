----------------------------- MODULE MCKeyStore -----------------------------
(***************************************************************************)
(* Small instances of KeyStore for TLC: all keys share their last four     *)
(* digits, so previews can collide.                                        *)
(***************************************************************************)
EXTENDS KeyStore, TLC

SameDigits == [k \in Keys |-> "a1b2"]

Symmetry == Permutations(Keys) \cup Permutations(Names)
=============================================================================
