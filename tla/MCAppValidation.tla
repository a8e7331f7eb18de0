-------------------------- MODULE MCAppValidation --------------------------
(* Small instances of AppValidation for TLC, and its liveness. *)
EXTENDS AppValidation, TLC

\* Identities, workers and operators are only compared for equality.
Symmetry == Permutations(Identity) \cup Permutations(Worker) \cup Permutations(Operator)

\* Two apps of one origin: neither is the other's witness.
OneOrigin == {<<1, 2>>, <<2, 1>>}

\* Workers poll, and their browser runs end; leases run out; the server reaps
\* every five seconds; a database transaction ends.
Fairness ==
  /\ \A w \in Worker : WF_vars(Claim(w)) /\ WF_vars(Work(w))
  /\ WF_vars(ExpireAbandonedAppValidation)
  /\ WF_vars(\E r \in running : LeaseExpires(r))

LiveSpec == Spec /\ Fairness

\* The queue drains: every requested check is claimed and settled, whatever
\* workers die and whichever apps are busy when they ask.
QueueDrains == queued \cup running # {} ~> queued \cup running = {}
=============================================================================
