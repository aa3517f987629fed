--------------------------- MODULE MCRelayManager ---------------------------
(* Instances of RelayManager: which relay servers the peer graphs contain. *)
EXTENDS RelayManager, TLC

\* Every peer graph has one relay server or more.
AnyList == SUBSET Servers \ {{}}

\* What is left in a Client object that nobody refers to makes no difference.
View ==
  <<table, env, local, events, expired, ticking,
    [c \in Clients |-> IF Unused(c) THEN None
                       ELSE <<srv[c], life[c], ctx[c], c \in hook, c \in closed>>]>>

\* Up to the cancellation of the context.
Running == ~ctxDone

Symmetry == Permutations(Servers) \cup Permutations(Clients)
=============================================================================
