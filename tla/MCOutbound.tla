----------------------------- MODULE MCOutbound -----------------------------
(* Values of Outbound's constants for TLC. *)
EXTENDS Outbound, TLC

\* Calls are interchangeable.
CallSymmetry == Permutations(Calls)
=============================================================================
