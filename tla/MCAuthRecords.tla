----------------------------- MODULE MCAuthRecords -----------------------------
(* Keys are interchangeable.                                               *)
EXTENDS AuthRecords, TLC

KeySymmetry == Permutations(Keys)
=============================================================================
