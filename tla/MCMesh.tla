------------------------------- MODULE MCMesh -------------------------------
(* Instances of Mesh for TLC.                                              *)
EXTENDS Mesh, TLC

\* Peers, objects, handlers and endpoints are interchangeable.
Symmetry == Permutations(Peers) \cup Permutations(Objects)
              \cup Permutations(Handlers) \cup Permutations(Endpoints)

\* The tunnel of an object that nobody refers to is never looked at.
View == <<table, [o \in Objects |-> IF Unused(o) THEN None ELSE tunnel[o]],
          endpoints, routes, panicked, pull, handle, syncer>>
=============================================================================
