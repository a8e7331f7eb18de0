--------------------------- MODULE MCGlobalLogout ---------------------------
(* Small instances of GlobalLogout for TLC, and its liveness. *)
EXTENDS GlobalLogout, TLC

\* Identifiers are only compared for equality.  Not used for liveness.
Symmetry == Permutations(User) \cup Permutations(Browser) \cup Permutations(Sid)
            \cup Permutations(Grant) \cup Permutations(Handler)

\* A bound for the run with two provider sessions: one of them gets past its
\* login, the other stays with a browser that has yet to follow the redirect.
OneConfirmed == Cardinality({h \in Sid : hydra[h] # "new"}) <= 1

\* The same system while PostgreSQL and Hydra answer and no process dies.
Healthy == INSTANCE GlobalLogout WITH Faulty <- FALSE

\* A running handler takes its next step; time passes; and the recovery loop,
\* which ticks every five seconds beside the requests, is not starved by them.
Fairness ==
  /\ \A p \in Handler :
       /\ WF_vars(Healthy!Recover(p) /\ ~At(p, "idle"))
       /\ WF_vars(Healthy!SignIn(p) /\ ~At(p, "idle"))
       /\ WF_vars(Healthy!SignOut(p) /\ ~At(p, "idle"))
       /\ WF_vars(Healthy!Administer(p) /\ ~At(p, "idle"))
       /\ \A g \in Grant : SF_vars(ClaimAbandoned(p, g))
  /\ \A g \in Grant : WF_vars(ExpireGrant(g)) /\ WF_vars(CleanupDue(g))
                      /\ WF_vars(ExpireLease(g))

\* Outages end: from some point on no call fails and no process dies.
LiveSpec == Spec /\ Fairness /\ <>[][Healthy!Next]_vars

\* Every logout that had provider sessions to end is completed, although the
\* browser may abandon it at any point and earlier attempts may fail
\* (RecoverAbandonedLogout).
LogoutCompletes == \A g \in Grant : Pending(g) ~> phase[g] = "completed"
=============================================================================
