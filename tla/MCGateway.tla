----------------------------- MODULE MCGateway ------------------------------
(* Instances of Gateway for TLC. *)
EXTENDS Gateway, TLC

Symmetry == Permutations(Requests) \cup Permutations(Tokens)

\* A timeout beyond i64::MAX, after the cast: every expiry lies far in the past.
Wrapped == -4
=============================================================================
