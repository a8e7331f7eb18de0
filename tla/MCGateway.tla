----------------------------- MODULE MCGateway -----------------------------
(* Small instances of Gateway for TLC. *)
EXTENDS Gateway, TLC

\* Transactions, provider sessions, browsers and deliveries are only compared.
Symmetry == Permutations(Txn) \cup Permutations(Sid) \cup Permutations(Browser)
            \cup Permutations(Delivery)
=============================================================================
