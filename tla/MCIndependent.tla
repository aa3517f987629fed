----------------------------- MODULE MCIndependent -----------------------------
(* Components that share no state with each other: the portal's handlers of       *)
(* networks, its generated queries, and the codec of relay packets. They run one  *)
(* at a time: part says which, and the others stay as they start.                 *)
EXTENDS Membership, QuerySets, Codec, TLC

VARIABLE part

allVars == <<part, vars, queryVars, codecVars>>

IndependentInit ==
  /\ part \in {"networks", "queries", "codec"}
  /\ Init /\ QueryInit /\ CodecInit
  /\ part # "queries" => table = "User" /\ column = "name"

IndependentNext ==
  /\ UNCHANGED part
  /\ \/ part = "networks" /\ Next /\ UNCHANGED <<queryVars, codecVars>>
     \/ part = "queries" /\ QueryNext /\ UNCHANGED <<vars, codecVars>>
     \/ part = "codec" /\ CodecNext /\ UNCHANGED <<vars, queryVars>>

IndependentSpec == IndependentInit /\ [][IndependentNext]_allVars

\* Sets with interchangeable members.
Symmetry == Permutations(Users) \cup Permutations(Handlers) \cup Permutations(Invitations)
================================================================================
