-------------------------- MODULE MCClientRegistry --------------------------
(* Two apps: the earlier deployment declares the first, the later one both. *)
EXTENDS ClientRegistry, TLC

CONSTANTS a, b, c1, c2, k1, k2, q1, q2

Earlier == a :> [client |-> c1, contract |-> k1]

Later == Earlier @@ (b :> [client |-> c2, contract |-> k1])

Deployments == {Earlier, Later}

Processes == Permutations(Request) \cup Permutations(Replica)
=============================================================================
