----------------------------- MODULE MCRegistry -----------------------------
(* Instances of Registry for TLC.                                          *)
EXTENDS Registry, TLC

\* The members of these sets are interchangeable.
Symmetry == Permutations(Relays) \cup Permutations(Keys) \cup Permutations(Machines)
              \cup Permutations(Keepalives) \cup Permutations(Preflights)
=============================================================================
