------------------------- MODULE GlobalLogoutProofs -------------------------
(***************************************************************************)
(* Proofs about GlobalLogout for any number of accounts, sessions, grants  *)
(* and handlers, with failures allowed anywhere.                           *)
(*                                                                         *)
(* The argument for EndedMeansSignedOut: a browser session that is revoked *)
(* stays revoked (RevokedStays), so no new provider session is correlated  *)
(* with it and its provider sessions, once safe, stay safe (Settled);      *)
(* whatever an application can hold under a sid Hydra will announce        *)
(* (Tracked), so deleting the sid makes it safe (DeletedIsSafe); and a     *)
(* handler that ends browser sessions knows every provider session of      *)
(* theirs that is not safe yet (Progress), because it listed them, or the  *)
(* grant's snapshot did, after the browser sessions were revoked.          *)
(***************************************************************************)
EXTENDS GlobalLogout, TLAPS

(* The parts of the inductive invariant. *)

\* An identifier of a browser session is unused exactly while it has no owner.
OwnersMatch == \A b \in Browser : state[b] = "none" <=> owner[b] = None

\* The browser sessions a handler is ending are revoked already.
EndingAreRevoked == \A p \in Handler : \A b \in req[p].ends : state[b] = "revoked"

\* So are those reported as ended and those in the snapshot of a grant.
EndedAreRevoked ==
  /\ \A b \in ended : state[b] = "revoked"
  /\ \A g \in Grant : \A b \in snapshot[g] : state[b] = "revoked"

\* The grant a handler works on exists.
GrantsHeld == \A p \in Handler, g \in Grant : req[p].g = g => phase[g] # "none"

\* The sessions whose sids are about to be listed include those being ended.
ListsCover == \A p \in Handler :
  req[p].step = "list" /\ req[p].u # None => req[p].ends \subseteq SessionsOf(req[p].u)

\* Whatever an application holds or may come to hold under a sid, Hydra will
\* announce the sid's end to it, or has.
Tracked == issued \cup approved \cup rp \subseteq consent \cup notice \cup tomb \cup swept

\* A sid the application was told to log out has no session there.
TombsHold == tomb \cap rp = {}

\* A sid is correlated with a browser session that exists.
Correlated == \A h \in Sid : corr[h] # None => state[corr[h]] # "none"

\* Tokens belong to login sessions Hydra has confirmed.
Confirmed == \A h \in issued \cup approved \cup rp : hydra[h] # "new"

\* No application session of h is left, or Hydra swept h with its subject.
Safe(h) == Fenced(h) \/ h \in swept

\* The browser sessions a handler will report as ended when its list is empty.
Target(p) == CASE req[p].step = "revoke" -> req[p].ends
               [] req[p].step = "final" -> snapshot[req[p].g]
               [] OTHER -> {}

\* A handler has dealt with every provider session but those left on its list.
ProgressOf(p) == \A h \in Sid : corr[h] \in Target(p) => h \in req[p].todo \/ Safe(h)
Progress == \A p \in Handler : ProgressOf(p)

IInv == /\ TypeOK /\ OwnersMatch /\ EndingAreRevoked /\ EndedAreRevoked
        /\ GrantsHeld /\ ListsCover /\ Tracked /\ TombsHold
        /\ SnapshotComplete /\ Progress /\ EndedMeansSignedOut

AInv == /\ TypeOK /\ OwnersMatch /\ Correlated /\ Confirmed
        /\ DisabledMeansNoSession /\ TokenMatchesAccount

(* What no step does. *)

\* A revoked browser session stays revoked.
RevokedStays == \A b \in Browser : state[b] = "revoked" => state'[b] = "revoked"

\* A browser session never changes hands.
OwnerKept == \A b \in Browser : state[b] # "none" => owner'[b] = owner[b]

\* No sid comes to a revoked browser session, and one that is safe stays safe.
Settled == \A h \in Sid : corr'[h] \in Browser /\ state'[corr'[h]] = "revoked" =>
             corr'[h] = corr[h] /\ (Safe(h) => Safe(h)')

USE NoneIsNoIdentifier

-----------------------------------------------------------------------------
(* Type correctness. *)

\* What the type invariant says of one handler's request.
LEMMA RequestParts ==
  ASSUME TypeOK, NEW p \in Handler
  PROVE  /\ req[p] \in Request /\ Operands(req[p])
         /\ req[p].b \in Browser \cup {None} /\ req[p].h \in Sid \cup {None}
         /\ req[p].g \in Grant \cup {None} /\ req[p].u \in User \cup {None}
         /\ req[p].next \in User \cup {None}
         /\ req[p].todo \subseteq Sid /\ req[p].ends \subseteq Browser
BY DEF TypeOK, Request

\* The type invariant is inductive.
LEMMA TypeStep == TypeOK /\ [Next]_vars => TypeOK'
<1> SUFFICES ASSUME TypeOK, [Next]_vars PROVE TypeOK'
  OBVIOUS
<1> USE DEF TypeOK, store, grants, contents, provider, history
<1>1. ASSUME NEW p \in Handler, NEW u \in User, NEW prev \in Browser \cup {None},
             StartSession(p, u, prev)
      PROVE  TypeOK'
  <2>1. req'[p] \in Request /\ Operands(req'[p])
    BY <1>1, RequestParts
       DEF StartSession, Goto, Revoke, Create, Ending, Work, Request, Step, Operands, At
  <2>2. req' \in [Handler -> Request] /\ \A q \in Handler : Operands(req'[q])
    BY <1>1, <2>1 DEF StartSession, Goto, Revoke
  <2> QED
    BY <1>1, <2>2 DEF StartSession, Goto, Revoke, SessionState, GrantState
<1>2. ASSUME NEW p \in Handler, CreateSession(p)
      PROVE  TypeOK'
  <2>1. req'[p] \in Request /\ Operands(req'[p])
    BY <1>2, RequestParts
       DEF CreateSession, Goto, Finish, Idle, Work, Request, Step, Operands, At
  <2>2. req' \in [Handler -> Request] /\ \A q \in Handler : Operands(req'[q])
    BY <1>2, <2>1 DEF CreateSession, Goto, Finish
  <2> QED
    BY <1>2, <2>2, RequestParts
       DEF CreateSession, Goto, Finish, At, Operands, SessionState, GrantState
<1>3. ASSUME NEW p \in Handler, NEW b \in Browser, NEW h \in Sid, HydraLogin(p, b, h)
      PROVE  TypeOK'
  <2>1. req'[p] \in Request /\ Operands(req'[p])
    BY <1>3, RequestParts DEF HydraLogin, AcceptLogin, Goto, Provider, Work, Request, Step, Operands, At
  <2>2. req' \in [Handler -> Request] /\ \A q \in Handler : Operands(req'[q])
    BY <1>3, <2>1 DEF HydraLogin, AcceptLogin, Goto
  <2> QED
    BY <1>3, <2>2 DEF HydraLogin, AcceptLogin, Goto, SessionState, GrantState
<1>4. ASSUME NEW p \in Handler, RecordHydraLoginSession(p)
      PROVE  TypeOK'
  <2>1. req'[p] \in Request /\ Operands(req'[p])
    BY <1>4, RequestParts
       DEF RecordHydraLoginSession, Goto, Finish, Provider, Idle, Work, Request, Step,
           Operands, At
  <2>2. req' \in [Handler -> Request] /\ \A q \in Handler : Operands(req'[q])
    BY <1>4, <2>1 DEF RecordHydraLoginSession, Goto, Finish
  <2> QED
    BY <1>4, <2>2, RequestParts
       DEF RecordHydraLoginSession, Goto, Finish, At, Operands, SessionState, GrantState
<1>5. ASSUME NEW p \in Handler, DropLoginSession(p)
      PROVE  TypeOK'
  <2>1. req'[p] \in Request /\ Operands(req'[p])
    BY <1>5, RequestParts
       DEF DropLoginSession, Goto, Finish, DeleteLoginSession, Idle, Work, Request, Step,
           Operands, At
  <2>2. req' \in [Handler -> Request] /\ \A q \in Handler : Operands(req'[q])
    BY <1>5, <2>1 DEF DropLoginSession, Goto, Finish, DeleteLoginSession
  <2> QED
    BY <1>5, <2>2
       DEF DropLoginSession, Goto, Finish, DeleteLoginSession, SessionState, GrantState
<1>6. ASSUME NEW p \in Handler, NEW b \in Browser, NEW h \in Sid, HydraConsent(p, b, h)
      PROVE  TypeOK'
  <2>1. req'[p] \in Request /\ Operands(req'[p])
    BY <1>6, RequestParts
       DEF HydraConsent, Goto, Provider, Work, Request, Step, Operands, At
  <2>2. req' \in [Handler -> Request] /\ \A q \in Handler : Operands(req'[q])
    BY <1>6, <2>1 DEF HydraConsent, Goto
  <2> QED
    BY <1>6, <2>2 DEF HydraConsent, Goto, SessionState, GrantState
<1>7. ASSUME NEW p \in Handler, RevalidateSession(p)
      PROVE  TypeOK'
  <2>1. req'[p] \in Request /\ Operands(req'[p])
    BY <1>7, RequestParts
       DEF RevalidateSession, Goto, Finish, Provider, Idle, Work, Request, Step, Operands,
           At
  <2>2. req' \in [Handler -> Request] /\ \A q \in Handler : Operands(req'[q])
    BY <1>7, <2>1 DEF RevalidateSession, Goto, Finish
  <2> QED
    BY <1>7, <2>2, RequestParts
       DEF RevalidateSession, Goto, Finish, At, Operands, SessionState, GrantState
<1>7a. ASSUME NEW p \in Handler, ConfirmConsent(p)
      PROVE  TypeOK'
  <2>1. req'[p] \in Request /\ Operands(req'[p])
    BY <1>7a, RequestParts DEF ConfirmConsent, Goto, Finish, Idle, Work, Request, Step, Operands, At
  <2>2. req' \in [Handler -> Request] /\ \A q \in Handler : Operands(req'[q])
    BY <1>7a, <2>1 DEF ConfirmConsent, Goto, Finish
  <2> QED
    BY <1>7a, <2>2, RequestParts
       DEF ConfirmConsent, Goto, Finish, At, Operands, SessionState, GrantState
<1>8. ASSUME NEW p \in Handler, NEW b \in Browser, NEW g \in Grant, Logout(p, b, g)
      PROVE  TypeOK'
  <2>1. req'[p] \in Request /\ Operands(req'[p])
    BY <1>8, RequestParts
       DEF Logout, Goto, Revoke, OpenGrant, SidsOf, Unrevoked, SessionsOf, OnGrant, Work,
           Request, Step, Operands, At
  <2>2. req' \in [Handler -> Request] /\ \A q \in Handler : Operands(req'[q])
    BY <1>8, <2>1 DEF Logout, Goto, Revoke, OpenGrant, SidsOf, Unrevoked, SessionsOf
  <2> QED
    BY <1>8, <2>2
       DEF Logout, Goto, Revoke, OpenGrant, SidsOf, Unrevoked, SessionsOf, SessionState,
           GrantState
<1>9. ASSUME NEW p \in Handler, NEW h \in Sid, NEW g \in Grant, ProviderLogout(p, h, g)
      PROVE  TypeOK'
  <2>1. req'[p] \in Request /\ Operands(req'[p])
    BY <1>9, RequestParts
       DEF ProviderLogout, Goto, Revoke, OpenGrant, SidsOf, Unrevoked, SessionsOf, OnGrant,
           Work, Request, Step, Operands, At
  <2>2. req' \in [Handler -> Request] /\ \A q \in Handler : Operands(req'[q])
    BY <1>9, <2>1 DEF ProviderLogout, Goto, Revoke, OpenGrant, SidsOf, Unrevoked, SessionsOf
  <2> QED
    BY <1>9, <2>2
       DEF ProviderLogout, Goto, Revoke, OpenGrant, SidsOf, Unrevoked, SessionsOf,
           SessionState, GrantState
<1>10. ASSUME NEW p \in Handler, ConsumeCreated(p)
      PROVE  TypeOK'
  <2>1. req'[p] \in Request /\ Operands(req'[p])
    BY <1>10, RequestParts
       DEF ConsumeCreated, Goto, Finish, Consume, Public, OnGrant, Idle, Work, Request,
           Step, Operands, At
  <2>2. req' \in [Handler -> Request] /\ \A q \in Handler : Operands(req'[q])
    BY <1>10, <2>1 DEF ConsumeCreated, Goto, Finish, Consume, Public
  <2> QED
    BY <1>10, <2>2
       DEF ConsumeCreated, Goto, Finish, Consume, Public, SessionState, GrantState
<1>11. ASSUME NEW p \in Handler, NEW g \in Grant, NEW h \in Sid \cup {None}, HydraLogout(p, g, h)
      PROVE  TypeOK'
  <2>1. req'[p] \in Request /\ Operands(req'[p])
    BY <1>11, RequestParts
       DEF HydraLogout, RejectLogout, Goto, Consume, Public, Consumable, OnGrant, Work, Request, Step,
           Operands, At
  <2>2. req' \in [Handler -> Request] /\ \A q \in Handler : Operands(req'[q])
    BY <1>11, <2>1 DEF HydraLogout, RejectLogout, Goto, Consume, Public, Consumable
  <2> QED
    BY <1>11, <2>2
       DEF HydraLogout, RejectLogout, Goto, Consume, Public, Consumable, SessionState, GrantState
<1>12. ASSUME NEW p \in Handler, AcceptLogout(p)
      PROVE  TypeOK'
  <2>1. req'[p] \in Request /\ Operands(req'[p])
    BY <1>12, RequestParts
       DEF AcceptLogout, Goto, Finish, DeleteLoginSession, OnGrant, Idle, Work, Request,
           Step, Operands, At
  <2>2. req' \in [Handler -> Request] /\ \A q \in Handler : Operands(req'[q])
    BY <1>12, <2>1 DEF AcceptLogout, Goto, Finish, DeleteLoginSession
  <2> QED
    BY <1>12, <2>2
       DEF AcceptLogout, Goto, Finish, DeleteLoginSession, SessionState, GrantState
<1>13. ASSUME NEW p \in Handler, NEW g \in Grant, ClaimConsumed(p, g)
      PROVE  TypeOK'
  <2>1. req'[p] \in Request /\ Operands(req'[p])
    BY <1>13, RequestParts
       DEF ClaimConsumed, Goto, Lease, OnGrant, Work, Request, Step, Operands, At
  <2>2. req' \in [Handler -> Request] /\ \A q \in Handler : Operands(req'[q])
    BY <1>13, <2>1 DEF ClaimConsumed, Goto, Lease
  <2> QED
    BY <1>13, <2>2 DEF ClaimConsumed, Goto, Lease, SessionState, GrantState
<1>14. ASSUME NEW p \in Handler, NEW g \in Grant, ClaimAbandoned(p, g)
      PROVE  TypeOK'
  <2>1. req'[p] \in Request /\ Operands(req'[p])
    BY <1>14, RequestParts
       DEF ClaimAbandoned, Goto, Lease, OnGrant, Work, Request, Step, Operands, At
  <2>2. req' \in [Handler -> Request] /\ \A q \in Handler : Operands(req'[q])
    BY <1>14, <2>1 DEF ClaimAbandoned, Goto, Lease
  <2> QED
    BY <1>14, <2>2 DEF ClaimAbandoned, Goto, Lease, SessionState, GrantState
<1>15. ASSUME NEW p \in Handler, RevokeSessions(p)
      PROVE  TypeOK'
  <2>1. req'[p] \in Request /\ Operands(req'[p])
    BY <1>15, RequestParts
       DEF RevokeSessions, Goto, Revoke, OnGrant, Work, Request, Step, Operands, At
  <2>2. req' \in [Handler -> Request] /\ \A q \in Handler : Operands(req'[q])
    BY <1>15, <2>1 DEF RevokeSessions, Goto, Revoke
  <2> QED
    BY <1>15, <2>2 DEF RevokeSessions, Goto, Revoke, SessionState, GrantState
<1>16. ASSUME NEW p \in Handler, NEW h \in Sid, RevokeProviderSession(p, h)
      PROVE  TypeOK'
  <2>1. req'[p] \in Request /\ Operands(req'[p])
    BY <1>16, RequestParts
       DEF RevokeProviderSession, Goto, Continue, DeleteLoginSession, OnGrant, Create,
           Idle, Work, Request, Step, Operands, At
  <2>2. req' \in [Handler -> Request] /\ \A q \in Handler : Operands(req'[q])
    BY <1>16, <2>1 DEF RevokeProviderSession, Goto, Continue, DeleteLoginSession
  <2> QED
    BY <1>16, <2>2
       DEF RevokeProviderSession, Goto, Continue, DeleteLoginSession, SessionState,
           GrantState
<1>17. ASSUME NEW p \in Handler, CompleteGrant(p)
      PROVE  TypeOK'
  <2>1. req'[p] \in Request /\ Operands(req'[p])
    BY <1>17, RequestParts
       DEF CompleteGrant, Goto, Finish, OnGrant, Idle, Work, Request, Step, Operands, At
  <2>2. req' \in [Handler -> Request] /\ \A q \in Handler : Operands(req'[q])
    BY <1>17, <2>1 DEF CompleteGrant, Goto, Finish
  <2> QED
    BY <1>17, <2>2, RequestParts
       DEF CompleteGrant, Goto, Finish, At, Operands, SessionState, GrantState
<1>18. ASSUME NEW p \in Handler, ScheduleRecovery(p)
      PROVE  TypeOK'
  <2>1. req'[p] \in Request /\ Operands(req'[p])
    BY <1>18, RequestParts
       DEF ScheduleRecovery, Goto, Finish, Idle, Work, Request, Step, Operands, At
  <2>2. req' \in [Handler -> Request] /\ \A q \in Handler : Operands(req'[q])
    BY <1>18, <2>1 DEF ScheduleRecovery, Goto, Finish
  <2> QED
    BY <1>18, <2>2 DEF ScheduleRecovery, Goto, Finish, SessionState, GrantState
<1>19. ASSUME NEW p \in Handler, NEW b \in Browser, RevokeSession(p, b)
      PROVE  TypeOK'
  <2>1. req'[p] \in Request /\ Operands(req'[p])
    BY <1>19, RequestParts
       DEF RevokeSession, Goto, Revoke, Ending, Work, Request, Step, Operands, At
  <2>2. req' \in [Handler -> Request] /\ \A q \in Handler : Operands(req'[q])
    BY <1>19, <2>1 DEF RevokeSession, Goto, Revoke
  <2> QED
    BY <1>19, <2>2 DEF RevokeSession, Goto, Revoke, SessionState, GrantState
<1>20. ASSUME NEW p \in Handler, NEW u \in User, RevokeUserSessions(p, u)
      PROVE  TypeOK'
  <2>1. req'[p] \in Request /\ Operands(req'[p])
    BY <1>20, RequestParts
       DEF RevokeUserSessions, Goto, Revoke, SessionsOf, Ending, Work, Request, Step,
           Operands, At
  <2>2. req' \in [Handler -> Request] /\ \A q \in Handler : Operands(req'[q])
    BY <1>20, <2>1 DEF RevokeUserSessions, Goto, Revoke, SessionsOf
  <2> QED
    BY <1>20, <2>2
       DEF RevokeUserSessions, Goto, Revoke, SessionsOf, SessionState, GrantState
<1>21. ASSUME NEW p \in Handler, NEW u \in User, DisableUser(p, u)
      PROVE  TypeOK'
  <2>1. req'[p] \in Request /\ Operands(req'[p])
    BY <1>21, RequestParts
       DEF DisableUser, Goto, Revoke, SessionsOf, SidsOf, Ending, Work, Request, Step,
           Operands, At
  <2>2. req' \in [Handler -> Request] /\ \A q \in Handler : Operands(req'[q])
    BY <1>21, <2>1 DEF DisableUser, Goto, Revoke, SessionsOf, SidsOf
  <2> QED
    BY <1>21, <2>2
       DEF DisableUser, Goto, Revoke, SessionsOf, SidsOf, SessionState, GrantState
<1>22. ASSUME NEW p \in Handler, ListProviderSessions(p)
      PROVE  TypeOK'
  <2> DEFINE all == SidsOf(IF req[p].u = None THEN req[p].ends ELSE SessionsOf(req[p].u))
  <2>1. all \subseteq Sid
    BY DEF SidsOf
  <2>2. Ending("revoke", req[p].u, req[p].next, all, req[p].ends) \in Request
    BY <2>1, RequestParts DEF Ending, Work, Request, Step
  <2>3. req'[p] \in Request /\ Operands(req'[p])
    <3>1. CASE Goto(p, Ending("revoke", req[p].u, req[p].next, all, req[p].ends))
      BY <2>2, <3>1 DEF Goto, Ending, Work, Operands
    <3>2. CASE Continue(p)
      BY <3>2, RequestParts DEF Continue, Goto, Create, Idle, Work, Request, Step, Operands
    <3> QED
      BY <1>22, <3>1, <3>2 DEF ListProviderSessions
  <2>4. req' \in [Handler -> Request] /\ \A q \in Handler : Operands(req'[q])
    BY <1>22, <2>3 DEF ListProviderSessions, Goto, Continue
  <2> QED
    BY <1>22, <2>4 DEF ListProviderSessions
<1>23. ASSUME NEW p \in Handler, FinishRevocation(p)
      PROVE  TypeOK'
  <2>1. req'[p] \in Request /\ Operands(req'[p])
    BY <1>23, RequestParts
       DEF FinishRevocation, Goto, Continue, DeleteSubjectSessions, DeleteSubjectLogins, Create, Idle, Work,
           Request, Step, Operands, At
  <2>2. req' \in [Handler -> Request] /\ \A q \in Handler : Operands(req'[q])
    BY <1>23, <2>1 DEF FinishRevocation, Goto, Continue, DeleteSubjectSessions, DeleteSubjectLogins
  <2> QED
    BY <1>23, <2>2, RequestParts
       DEF FinishRevocation, Goto, Continue, DeleteSubjectSessions, DeleteSubjectLogins, At, Operands,
           SessionState, GrantState
<1>24. ASSUME NEW p \in Handler, Crash(p)
      PROVE  TypeOK'
  <2>1. req'[p] \in Request /\ Operands(req'[p])
    BY <1>24, RequestParts DEF Crash, Goto, Finish, Idle, Work, Request, Step, Operands, At
  <2>2. req' \in [Handler -> Request] /\ \A q \in Handler : Operands(req'[q])
    BY <1>24, <2>1 DEF Crash, Goto, Finish
  <2> QED
    BY <1>24, <2>2 DEF Crash, Goto, Finish, SessionState, GrantState
<1>25. ASSUME NEW b \in Browser, AgeSession(b)
      PROVE  TypeOK'
  BY <1>25 DEF AgeSession, SessionState, GrantState
<1>26. ASSUME NEW u \in User, EnableUser(u)
      PROVE  TypeOK'
  BY <1>26 DEF EnableUser, SessionState, GrantState
<1>27. ASSUME NEW h \in Sid, ConfirmLogin(h)
      PROVE  TypeOK'
  BY <1>27 DEF ConfirmLogin, SessionState, GrantState
<1>28. ASSUME NEW h \in Sid, HydraTokenHook(h)
      PROVE  TypeOK'
  BY <1>28 DEF HydraTokenHook, TokenAllowed, SessionState, GrantState
<1>29. ASSUME NEW h \in Sid, EstablishSession(h)
      PROVE  TypeOK'
  BY <1>29 DEF EstablishSession, SessionState, GrantState
<1>30. ASSUME NEW h \in Sid, DeliverLogout(h)
      PROVE  TypeOK'
  BY <1>30 DEF DeliverLogout, SessionState, GrantState
<1>31. ASSUME NEW g \in Grant, ExpireGrant(g)
      PROVE  TypeOK'
  BY <1>31 DEF ExpireGrant, SessionState, GrantState
<1>32. ASSUME NEW g \in Grant, CleanupDue(g)
      PROVE  TypeOK'
  BY <1>32 DEF CleanupDue, SessionState, GrantState
<1>33. ASSUME NEW g \in Grant, ExpireLease(g)
      PROVE  TypeOK'
  BY <1>33 DEF ExpireLease, SessionState, GrantState
<1>34. ASSUME NEW g \in Grant, DeleteCompleted(g)
      PROVE  TypeOK'
  BY <1>34 DEF DeleteCompleted, SessionState, GrantState
<1>35. CASE UNCHANGED vars
  BY <1>35 DEF vars
<1> QED
  BY <1>1, <1>2, <1>3, <1>4, <1>5, <1>6, <1>7, <1>7a, <1>8, <1>9, <1>10, <1>11, <1>12, <1>13, <1>14, <1>15, <1>16, <1>17,
     <1>18, <1>19, <1>20, <1>21, <1>22, <1>23, <1>24, <1>25, <1>26, <1>27, <1>28, <1>29, <1>30, <1>31, <1>32, <1>33, <1>34, <1>35
     DEF Next, SignIn, SignOut, Recover, Administer, Environment

-----------------------------------------------------------------------------
(* The inductive step. *)

\* Every step keeps Hydra and the applications in step: a token, an approval or
\* an application session appears only under a sid that Hydra will announce.
LEMMA ProviderStep == TypeOK /\ Tracked /\ TombsHold /\ [Next]_vars => Tracked' /\ TombsHold'
<1> SUFFICES ASSUME TypeOK, Tracked, TombsHold, [Next]_vars PROVE Tracked' /\ TombsHold'
  OBVIOUS
<1> USE DEF Tracked, TombsHold
<1>1. UNCHANGED <<consent, issued, approved, rp, notice, tomb, swept>> => Tracked' /\ TombsHold'
  OBVIOUS
<1>2. ASSUME NEW p \in Handler, DropLoginSession(p)
      PROVE  Tracked' /\ TombsHold'
  BY <1>2 DEF DropLoginSession, DeleteLoginSession, provider, history
<1>3. ASSUME NEW p \in Handler, ConfirmConsent(p)
      PROVE  Tracked' /\ TombsHold'
  BY <1>3 DEF ConfirmConsent, provider, history
<1>4. ASSUME NEW p \in Handler, AcceptLogout(p)
      PROVE  Tracked' /\ TombsHold'
  BY <1>4 DEF AcceptLogout, DeleteLoginSession, provider, history
<1>5. ASSUME NEW p \in Handler, NEW h \in Sid, RevokeProviderSession(p, h)
      PROVE  Tracked' /\ TombsHold'
  BY <1>5 DEF RevokeProviderSession, DeleteLoginSession, provider, history
<1>6. ASSUME NEW p \in Handler, FinishRevocation(p)
      PROVE  Tracked' /\ TombsHold'
  BY <1>6 DEF FinishRevocation, DeleteSubjectSessions, DeleteSubjectLogins, provider, history
<1>7. ASSUME NEW h \in Sid, ConfirmLogin(h)
      PROVE  Tracked' /\ TombsHold'
  BY <1>7 DEF ConfirmLogin, provider, history
<1>8. ASSUME NEW h \in Sid, HydraTokenHook(h)
      PROVE  Tracked' /\ TombsHold'
  BY <1>8 DEF HydraTokenHook, TokenAllowed, provider, history
<1>9. ASSUME NEW h \in Sid, EstablishSession(h)
      PROVE  Tracked' /\ TombsHold'
  BY <1>9 DEF EstablishSession, provider, history
<1>10. ASSUME NEW h \in Sid, DeliverLogout(h)
      PROVE  Tracked' /\ TombsHold'
  BY <1>10 DEF DeliverLogout, provider, history
<1>11. ASSUME NEW p \in Handler, SignIn(p)
      PROVE  Tracked' /\ TombsHold'
  BY <1>11, <1>1, <1>3, <1>2
     DEF SignIn, StartSession, CreateSession, HydraLogin, AcceptLogin, HydraConsent,
         RecordHydraLoginSession, RevalidateSession, provider, history
<1>12. ASSUME NEW p \in Handler, SignOut(p)
      PROVE  Tracked' /\ TombsHold'
  BY <1>12, <1>1, <1>4
     DEF SignOut, Logout, ProviderLogout, ConsumeCreated, HydraLogout, RejectLogout, ClaimConsumed,
         provider, history
<1>13. ASSUME NEW p \in Handler, Recover(p)
      PROVE  Tracked' /\ TombsHold'
  BY <1>13, <1>1, <1>5
     DEF Recover, ClaimAbandoned, RevokeSessions, CompleteGrant, ScheduleRecovery,
         provider, history
<1>14. ASSUME NEW p \in Handler, Administer(p)
      PROVE  Tracked' /\ TombsHold'
  BY <1>14, <1>1, <1>6
     DEF Administer, RevokeSession, RevokeUserSessions, DisableUser, ListProviderSessions,
         provider, history
<1>15. CASE Environment
  BY <1>15, <1>1, <1>7, <1>8, <1>9, <1>10
     DEF Environment, AgeSession, EnableUser, ExpireGrant, CleanupDue, ExpireLease,
         DeleteCompleted, provider, history
<1>16. ASSUME NEW p \in Handler, Crash(p)
      PROVE  Tracked' /\ TombsHold'
  BY <1>16, <1>1
     DEF Crash, provider, history
<1>17. CASE UNCHANGED vars
  BY <1>17, <1>1 DEF vars, provider, history
<1> QED
  BY <1>11, <1>12, <1>13, <1>14, <1>15, <1>16, <1>17 DEF Next

\* Sessions are created once, with their owner, and revoked for good.
LEMMA SessionStep ==
  TypeOK /\ OwnersMatch /\ [Next]_vars => OwnersMatch' /\ RevokedStays /\ OwnerKept
<1> SUFFICES ASSUME TypeOK, OwnersMatch, [Next]_vars PROVE OwnersMatch' /\ RevokedStays /\ OwnerKept
  OBVIOUS
<1> USE DEF TypeOK, OwnersMatch, RevokedStays, OwnerKept
<1>1. UNCHANGED <<owner, state>> => OwnersMatch' /\ RevokedStays /\ OwnerKept
  OBVIOUS
<1>2. ASSUME NEW p \in Handler, NEW u \in User, NEW prev \in Browser \cup {None},
             StartSession(p, u, prev)
      PROVE  OwnersMatch' /\ RevokedStays /\ OwnerKept
  BY <1>2 DEF StartSession, Revoke, SessionState, Current
<1>3. ASSUME NEW p \in Handler, CreateSession(p)
      PROVE  OwnersMatch' /\ RevokedStays /\ OwnerKept
  BY <1>3, RequestParts DEF CreateSession, SessionState, At, Operands, Finish
<1>4. ASSUME NEW p \in Handler, NEW b \in Browser, NEW g \in Grant, Logout(p, b, g)
      PROVE  OwnersMatch' /\ RevokedStays /\ OwnerKept
  BY <1>4 DEF Logout, Revoke, OpenGrant, SessionState, Current
<1>5. ASSUME NEW p \in Handler, NEW h \in Sid, NEW g \in Grant, ProviderLogout(p, h, g)
      PROVE  OwnersMatch' /\ RevokedStays /\ OwnerKept
  BY <1>5 DEF ProviderLogout, Revoke, OpenGrant, SessionState
<1>6. ASSUME NEW p \in Handler, RevokeSessions(p)
      PROVE  OwnersMatch' /\ RevokedStays /\ OwnerKept
  BY <1>6 DEF RevokeSessions, Revoke, SessionState
<1>7. ASSUME NEW p \in Handler, NEW b \in Browser, RevokeSession(p, b)
      PROVE  OwnersMatch' /\ RevokedStays /\ OwnerKept
  BY <1>7 DEF RevokeSession, Revoke, SessionState
<1>8. ASSUME NEW p \in Handler, NEW u \in User, RevokeUserSessions(p, u)
      PROVE  OwnersMatch' /\ RevokedStays /\ OwnerKept
  BY <1>8 DEF RevokeUserSessions, Revoke, SessionState
<1>9. ASSUME NEW p \in Handler, NEW u \in User, DisableUser(p, u)
      PROVE  OwnersMatch' /\ RevokedStays /\ OwnerKept
  BY <1>9 DEF DisableUser, Revoke, SessionState
<1>10. ASSUME NEW b \in Browser, AgeSession(b)
      PROVE  OwnersMatch' /\ RevokedStays /\ OwnerKept
  BY <1>10 DEF AgeSession, SessionState
<1>11. ASSUME NEW p \in Handler, SignIn(p)
      PROVE  OwnersMatch' /\ RevokedStays /\ OwnerKept
  BY <1>11, <1>1, <1>2, <1>3
     DEF SignIn, HydraLogin, AcceptLogin, HydraConsent, RecordHydraLoginSession, RevalidateSession,
         ConfirmConsent, DropLoginSession, store
<1>12. ASSUME NEW p \in Handler, SignOut(p)
      PROVE  OwnersMatch' /\ RevokedStays /\ OwnerKept
  BY <1>12, <1>1, <1>4, <1>5
     DEF SignOut, ConsumeCreated, HydraLogout, RejectLogout, AcceptLogout, ClaimConsumed, store
<1>13. ASSUME NEW p \in Handler, Recover(p)
      PROVE  OwnersMatch' /\ RevokedStays /\ OwnerKept
  BY <1>13, <1>1, <1>6
     DEF Recover, ClaimAbandoned, CompleteGrant, ScheduleRecovery, RevokeProviderSession,
         store
<1>14. ASSUME NEW p \in Handler, Administer(p)
      PROVE  OwnersMatch' /\ RevokedStays /\ OwnerKept
  BY <1>14, <1>1, <1>7, <1>8, <1>9
     DEF Administer, ListProviderSessions, FinishRevocation, store
<1>15. CASE Environment
  BY <1>15, <1>1, <1>10
     DEF Environment, EnableUser, ConfirmLogin, HydraTokenHook, EstablishSession,
         DeliverLogout, ExpireGrant, CleanupDue, ExpireLease, DeleteCompleted, store
<1>16. ASSUME NEW p \in Handler, Crash(p)
      PROVE  OwnersMatch' /\ RevokedStays /\ OwnerKept
  BY <1>16, <1>1
     DEF Crash, store
<1>17. CASE UNCHANGED vars
  BY <1>17, <1>1 DEF vars, store
<1> QED
  BY <1>11, <1>12, <1>13, <1>14, <1>15, <1>16, <1>17 DEF Next

\* An operation reports or records as ended only what it has revoked.
LEMMA EndedStep ==
  ASSUME TypeOK, EndedAreRevoked, EndingAreRevoked, RevokedStays, [Next]_vars
  PROVE  EndedAreRevoked'
<1> USE DEF TypeOK, EndedAreRevoked, RevokedStays
<1>1. UNCHANGED <<ended, snapshot>> => EndedAreRevoked'
  OBVIOUS
<1>2. ASSUME NEW p \in Handler, NEW b \in Browser, NEW g \in Grant, Logout(p, b, g)
      PROVE  EndedAreRevoked'
  <2>1. \A c \in Unrevoked(owner[b]) : state'[c] = "revoked"
    BY <1>2 DEF Logout, OpenGrant, Revoke, Unrevoked, SessionsOf
  <2>2. Unrevoked(owner[b]) \subseteq Browser
    BY DEF Unrevoked, SessionsOf
  <2> QED
    BY <1>2, <2>1, <2>2 DEF Logout, OpenGrant, contents, grants
<1>3. ASSUME NEW p \in Handler, NEW h \in Sid, NEW g \in Grant, ProviderLogout(p, h, g)
      PROVE  EndedAreRevoked'
  <2>1. \A c \in snapshot'[g] : state'[c] = "revoked"
    BY <1>3 DEF ProviderLogout, OpenGrant, Revoke, Unrevoked, SessionsOf
  <2> QED
    BY <1>3, <2>1 DEF ProviderLogout, OpenGrant, history
<1>4. ASSUME NEW p \in Handler, CompleteGrant(p)
      PROVE  EndedAreRevoked'
  BY <1>4, RequestParts DEF CompleteGrant, At, Operands, contents, grants
<1>5. ASSUME NEW p \in Handler, FinishRevocation(p)
      PROVE  EndedAreRevoked'
  <2>1. \A b \in ended' : b \in ended \cup req[p].ends
    BY <1>5 DEF FinishRevocation, history
  <2> QED
    BY <1>5, <2>1, RequestParts DEF FinishRevocation, EndingAreRevoked, grants, contents
<1>6. ASSUME NEW g \in Grant, DeleteCompleted(g)
      PROVE  EndedAreRevoked'
  BY <1>6 DEF DeleteCompleted, history
<1>7. ASSUME NEW p \in Handler, SignIn(p)
      PROVE  EndedAreRevoked'
  BY <1>7, <1>1
     DEF SignIn, StartSession, CreateSession, HydraLogin, AcceptLogin, HydraConsent,
         RecordHydraLoginSession, RevalidateSession, ConfirmConsent, DropLoginSession, history, grants,
         contents
<1>8. ASSUME NEW p \in Handler, SignOut(p)
      PROVE  EndedAreRevoked'
  BY <1>8, <1>1, <1>2, <1>3
     DEF SignOut, ConsumeCreated, HydraLogout, RejectLogout, AcceptLogout, ClaimConsumed, Consume, Lease,
         history, grants, contents
<1>9. ASSUME NEW p \in Handler, Recover(p)
      PROVE  EndedAreRevoked'
  BY <1>9, <1>1, <1>4
     DEF Recover, ClaimAbandoned, RevokeSessions, ScheduleRecovery, RevokeProviderSession,
         Lease, history, grants, contents
<1>10. ASSUME NEW p \in Handler, Administer(p)
      PROVE  EndedAreRevoked'
  BY <1>10, <1>1, <1>5
     DEF Administer, RevokeSession, RevokeUserSessions, DisableUser, ListProviderSessions,
         history, grants, contents
<1>11. CASE Environment
  BY <1>11, <1>1, <1>6
     DEF Environment, AgeSession, EnableUser, ConfirmLogin, HydraTokenHook,
         EstablishSession, DeliverLogout, ExpireGrant, CleanupDue, ExpireLease, history,
         grants, contents
<1>12. ASSUME NEW p \in Handler, Crash(p)
      PROVE  EndedAreRevoked'
  BY <1>12, <1>1
     DEF Crash, history, grants, contents
<1>13. CASE UNCHANGED vars
  BY <1>13, <1>1 DEF vars, history, grants, contents
<1> QED
  BY <1>7, <1>8, <1>9, <1>10, <1>11, <1>12, <1>13 DEF Next

\* What handlers carry from step to step stays true while others move.
LEMMA HandlerStep ==
  ASSUME TypeOK, OwnersMatch, EndingAreRevoked, GrantsHeld, ListsCover, RevokedStays, OwnerKept,
         [Next]_vars
  PROVE  EndingAreRevoked' /\ GrantsHeld' /\ ListsCover'
<1> USE
   DEF TypeOK, OwnersMatch, EndingAreRevoked, GrantsHeld, ListsCover, RevokedStays,
       OwnerKept
<1>0. ASSUME NEW q \in Handler
      PROVE  /\ \A b \in req[q].ends : state'[b] = "revoked"
             /\ req[q].step = "list" /\ req[q].u # None =>
                  req[q].ends \subseteq {b \in Browser : owner'[b] = req[q].u}
  BY <1>0, RequestParts DEF SessionsOf
<1>1. UNCHANGED <<req, phase>> => EndingAreRevoked' /\ GrantsHeld' /\ ListsCover'
  BY <1>0 DEF SessionsOf
<1>2. ASSUME NEW p \in Handler, NEW u \in User, NEW prev \in Browser \cup {None},
             StartSession(p, u, prev)
      PROVE  EndingAreRevoked' /\ GrantsHeld' /\ ListsCover'
  <2>1. CASE Goto(p, Create(u)) /\ UNCHANGED grants
    BY <2>1, <1>0 DEF Goto, Create, Work, SessionsOf, grants
  <2>2. CASE /\ prev # None /\ Revoke({prev})
             /\ Goto(p, Ending("list", None, u, {}, {prev})) /\ Current(prev)
             /\ UNCHANGED grants
    BY <2>2, <1>0 DEF Goto, Ending, Work, Revoke, Current, SessionsOf, grants
  <2> QED
    BY <1>2, <2>1, <2>2 DEF StartSession
<1>3. ASSUME NEW p \in Handler, CreateSession(p)
      PROVE  EndingAreRevoked' /\ GrantsHeld' /\ ListsCover'
  BY <1>3, RequestParts
     DEF CreateSession, Goto, Finish, Idle, Work, At, Operands, Pending, Consumable, store,
         grants, contents, SessionsOf, Unrevoked
<1>4. ASSUME NEW p \in Handler, NEW b \in Browser, NEW h \in Sid, HydraLogin(p, b, h)
      PROVE  EndingAreRevoked' /\ GrantsHeld' /\ ListsCover'
  BY <1>4, RequestParts
     DEF HydraLogin, AcceptLogin, Goto, Provider, Work, At, Operands, Pending, Consumable, store,
         grants, contents, SessionsOf, Unrevoked
<1>5. ASSUME NEW p \in Handler, RecordHydraLoginSession(p)
      PROVE  EndingAreRevoked' /\ GrantsHeld' /\ ListsCover'
  <2>1. UNCHANGED phase /\ \A q \in Handler \ {p} : req'[q] = req[q]
    BY <1>5 DEF RecordHydraLoginSession, Goto, Finish, grants
  <2>2. req'[p].ends = {} /\ req'[p].g = None /\ req'[p].step # "list"
    BY <1>5 DEF RecordHydraLoginSession, Goto, Finish, Provider, Idle, Work
  <2> QED
    BY <1>0, <2>1, <2>2, NoneIsNoIdentifier DEF SessionsOf
<1>6. ASSUME NEW p \in Handler, DropLoginSession(p)
      PROVE  EndingAreRevoked' /\ GrantsHeld' /\ ListsCover'
  BY <1>6, RequestParts
     DEF DropLoginSession, Goto, Finish, DeleteLoginSession, Idle, Work, At, Operands,
         Pending, Consumable, store, grants, contents, SessionsOf, Unrevoked
<1>7. ASSUME NEW p \in Handler, NEW b \in Browser, NEW h \in Sid, HydraConsent(p, b, h)
      PROVE  EndingAreRevoked' /\ GrantsHeld' /\ ListsCover'
  BY <1>7, RequestParts
     DEF HydraConsent, Goto, Provider, Work, At, Operands, Pending, Consumable, store,
         grants, contents, SessionsOf, Unrevoked
<1>8. ASSUME NEW p \in Handler, RevalidateSession(p)
      PROVE  EndingAreRevoked' /\ GrantsHeld' /\ ListsCover'
  BY <1>8, RequestParts
     DEF RevalidateSession, Goto, Finish, Provider, Idle, Work, At, Operands, Pending,
         Consumable, store, grants, contents, SessionsOf, Unrevoked
<1>8a. ASSUME NEW p \in Handler, ConfirmConsent(p)
      PROVE  EndingAreRevoked' /\ GrantsHeld' /\ ListsCover'
  BY <1>8a, RequestParts
     DEF ConfirmConsent, Goto, Finish, Idle, Work, At, Operands, Pending, Consumable, store,
         grants, contents, SessionsOf, Unrevoked
<1>9. ASSUME NEW p \in Handler, NEW b \in Browser, NEW g \in Grant, Logout(p, b, g)
      PROVE  EndingAreRevoked' /\ GrantsHeld' /\ ListsCover'
  <2>1. CASE UNCHANGED <<req, phase>>
    BY <1>1, <2>1
  <2>2. CASE /\ OpenGrant(g, owner[b], Unrevoked(owner[b]), SidsOf({b}), SidsOf(Unrevoked(owner[b])))
             /\ UNCHANGED req
    BY <2>2, <1>0 DEF OpenGrant, SessionsOf
  <2>3. CASE /\ OpenGrant(g, owner[b], Unrevoked(owner[b]), SidsOf({b}), SidsOf(Unrevoked(owner[b])))
             /\ Goto(p, OnGrant("final", g, None, SidsOf(Unrevoked(owner[b]))))
    BY <2>3, <1>0 DEF OpenGrant, Goto, OnGrant, Work, SessionsOf
  <2> QED
    BY <1>9, <2>1, <2>2, <2>3 DEF Logout, grants
<1>10. ASSUME NEW p \in Handler, NEW h \in Sid, NEW g \in Grant, ProviderLogout(p, h, g)
      PROVE  EndingAreRevoked' /\ GrantsHeld' /\ ListsCover'
  BY <1>10, RequestParts
     DEF ProviderLogout, Goto, Revoke, OpenGrant, SidsOf, Unrevoked, SessionsOf, OnGrant,
         Work, At, Operands, Pending, Consumable, store, grants, contents
<1>11. ASSUME NEW p \in Handler, ConsumeCreated(p)
      PROVE  EndingAreRevoked' /\ GrantsHeld' /\ ListsCover'
  BY <1>11, RequestParts
     DEF ConsumeCreated, Goto, Finish, Consume, Public, OnGrant, Idle, Work, At, Operands,
         Pending, Consumable, store, grants, contents, SessionsOf, Unrevoked
<1>12. ASSUME NEW p \in Handler, NEW g \in Grant, NEW h \in Sid \cup {None}, HydraLogout(p, g, h)
      PROVE  EndingAreRevoked' /\ GrantsHeld' /\ ListsCover'
  <2>1. phase' = [phase EXCEPT ![g] = "consumed"] /\ \A q \in Handler \ {p} : req'[q] = req[q]
    BY <1>12 DEF HydraLogout, RejectLogout, Goto, Consume
  <2>2. req'[p].ends = {} /\ req'[p].g = g /\ req'[p].step # "list"
    BY <1>12 DEF HydraLogout, RejectLogout, Goto, Public, OnGrant, Work
  <2> QED
    BY <1>0, <2>1, <2>2 DEF SessionsOf
<1>13. ASSUME NEW p \in Handler, AcceptLogout(p)
      PROVE  EndingAreRevoked' /\ GrantsHeld' /\ ListsCover'
  BY <1>13, RequestParts
     DEF AcceptLogout, Goto, Finish, DeleteLoginSession, OnGrant, Idle, Work, At, Operands,
         Pending, Consumable, store, grants, contents, SessionsOf, Unrevoked
<1>14. ASSUME NEW p \in Handler, NEW g \in Grant, ClaimConsumed(p, g)
      PROVE  EndingAreRevoked' /\ GrantsHeld' /\ ListsCover'
  BY <1>14, RequestParts
     DEF ClaimConsumed, Goto, Lease, OnGrant, Work, At, Operands, Pending, Consumable,
         store, grants, contents, SessionsOf, Unrevoked
<1>15. ASSUME NEW p \in Handler, NEW g \in Grant, ClaimAbandoned(p, g)
      PROVE  EndingAreRevoked' /\ GrantsHeld' /\ ListsCover'
  BY <1>15, RequestParts
     DEF ClaimAbandoned, Abandoned, Goto, Lease, OnGrant, Work, At, Operands, Pending,
         Consumable, store, grants, contents, SessionsOf, Unrevoked
<1>16. ASSUME NEW p \in Handler, RevokeSessions(p)
      PROVE  EndingAreRevoked' /\ GrantsHeld' /\ ListsCover'
  BY <1>16, RequestParts
     DEF RevokeSessions, Goto, Revoke, OnGrant, Work, At, Operands, Pending, Consumable,
         store, grants, contents, SessionsOf, Unrevoked
<1>17. ASSUME NEW p \in Handler, NEW h \in Sid, RevokeProviderSession(p, h)
      PROVE  EndingAreRevoked' /\ GrantsHeld' /\ ListsCover'
  <2>1. req'[p].g = req[p].g \/ req'[p].g = None
    BY <1>17 DEF RevokeProviderSession, Goto, Continue, OnGrant, Create, Idle, Work
  <2>2. req'[p].ends = req[p].ends \/ req'[p].ends = {}
    BY <1>17 DEF RevokeProviderSession, Goto, Continue, OnGrant, Create, Idle, Work
  <2>3. req'[p].step # "list"
    BY <1>17 DEF RevokeProviderSession, Goto, Continue, OnGrant, Create, Idle, Work
  <2>4. \A q \in Handler \ {p} : req'[q] = req[q]
    BY <1>17 DEF RevokeProviderSession, Goto, Continue
  <2> QED
    BY <1>17, <2>1, <2>2, <2>3, <2>4 DEF RevokeProviderSession, store, grants, SessionsOf
<1>18. ASSUME NEW p \in Handler, CompleteGrant(p)
      PROVE  EndingAreRevoked' /\ GrantsHeld' /\ ListsCover'
  BY <1>18, RequestParts
     DEF CompleteGrant, Goto, Finish, OnGrant, Idle, Work, At, Operands, Pending,
         Consumable, store, grants, contents, SessionsOf, Unrevoked
<1>19. ASSUME NEW p \in Handler, ScheduleRecovery(p)
      PROVE  EndingAreRevoked' /\ GrantsHeld' /\ ListsCover'
  BY <1>19, RequestParts
     DEF ScheduleRecovery, Goto, Finish, Idle, Work, At, Operands, Pending, Consumable,
         store, grants, contents, SessionsOf, Unrevoked
<1>20. ASSUME NEW p \in Handler, NEW b \in Browser, RevokeSession(p, b)
      PROVE  EndingAreRevoked' /\ GrantsHeld' /\ ListsCover'
  BY <1>20, RequestParts
     DEF RevokeSession, Goto, Revoke, Ending, Work, At, Operands, Pending, Consumable,
         store, grants, contents, SessionsOf, Unrevoked
<1>21. ASSUME NEW p \in Handler, NEW u \in User, RevokeUserSessions(p, u)
      PROVE  EndingAreRevoked' /\ GrantsHeld' /\ ListsCover'
  BY <1>21, RequestParts
     DEF RevokeUserSessions, Goto, Revoke, SessionsOf, Ending, Work, At, Operands, Pending,
         Consumable, store, grants, contents, Unrevoked
<1>22. ASSUME NEW p \in Handler, NEW u \in User, DisableUser(p, u)
      PROVE  EndingAreRevoked' /\ GrantsHeld' /\ ListsCover'
  BY <1>22, RequestParts
     DEF DisableUser, Goto, Revoke, SessionsOf, SidsOf, Ending, Work, At, Operands,
         Pending, Consumable, store, grants, contents, Unrevoked
<1>23. ASSUME NEW p \in Handler, ListProviderSessions(p)
      PROVE  EndingAreRevoked' /\ GrantsHeld' /\ ListsCover'
  BY <1>23, RequestParts
     DEF ListProviderSessions, Goto, Continue, SidsOf, SessionsOf, Ending, Create, Idle,
         Work, At, Operands, Pending, Consumable, store, grants, contents, Unrevoked
<1>24. ASSUME NEW p \in Handler, FinishRevocation(p)
      PROVE  EndingAreRevoked' /\ GrantsHeld' /\ ListsCover'
  BY <1>24, RequestParts
     DEF FinishRevocation, Goto, Continue, DeleteSubjectSessions, DeleteSubjectLogins, Create, Idle, Work, At,
         Operands, Pending, Consumable, store, grants, contents, SessionsOf, Unrevoked
<1>25. ASSUME NEW p \in Handler, Crash(p)
      PROVE  EndingAreRevoked' /\ GrantsHeld' /\ ListsCover'
  BY <1>25, RequestParts
     DEF Crash, Goto, Finish, Idle, Work, At, Operands, Pending, Consumable, store, grants,
         contents, SessionsOf, Unrevoked
<1>26. ASSUME NEW g \in Grant, DeleteCompleted(g)
      PROVE  EndingAreRevoked' /\ GrantsHeld' /\ ListsCover'
  BY <1>26 DEF DeleteCompleted, store, SessionsOf
<1>27. ASSUME NEW p \in Handler, SignIn(p)
      PROVE  EndingAreRevoked' /\ GrantsHeld' /\ ListsCover'
  BY <1>27, <1>2, <1>3, <1>4, <1>7, <1>5, <1>8, <1>8a, <1>6
     DEF SignIn, grants
<1>28. ASSUME NEW p \in Handler, SignOut(p)
      PROVE  EndingAreRevoked' /\ GrantsHeld' /\ ListsCover'
  BY <1>28, <1>9, <1>10, <1>11, <1>12, <1>13, <1>14
     DEF SignOut, grants
<1>29. ASSUME NEW p \in Handler, Recover(p)
      PROVE  EndingAreRevoked' /\ GrantsHeld' /\ ListsCover'
  BY <1>29, <1>15, <1>16, <1>18, <1>19, <1>17
     DEF Recover, grants
<1>30. ASSUME NEW p \in Handler, Administer(p)
      PROVE  EndingAreRevoked' /\ GrantsHeld' /\ ListsCover'
  BY <1>30, <1>20, <1>21, <1>22, <1>23, <1>24
     DEF Administer, grants
<1>31. CASE Environment
  BY <1>31, <1>1, <1>26
     DEF Environment, AgeSession, EnableUser, ConfirmLogin, HydraTokenHook,
         EstablishSession, DeliverLogout, ExpireGrant, CleanupDue, ExpireLease, grants
<1>32. CASE UNCHANGED vars
  BY <1>32, <1>1 DEF vars, grants
<1> QED
  BY <1>27, <1>28, <1>29, <1>30, <1>31, <1>32, <1>25 DEF Next

\* Deleting a login session announces its end wherever it could matter.
LEMMA DeletedIsSafe ==
  ASSUME Tracked, TombsHold, NEW h \in Sid, DeleteLoginSession(h), UNCHANGED swept
  PROVE  Safe(h)'
BY DEF Tracked, TombsHold, DeleteLoginSession, Safe, Fenced

\* RecordHydraLoginSession correlates only with an active session, and
\* hydraTokenHook approves nothing for a revoked one.
LEMMA SettledStep ==
  ASSUME TypeOK, TombsHold, [Next]_vars
  PROVE  Settled
<1> USE DEF TypeOK, TombsHold, Settled, Safe, Fenced
<1>1. UNCHANGED <<corr, approved, rp, notice, tomb, swept>> => Settled
  OBVIOUS
<1>2. ASSUME NEW p \in Handler, RecordHydraLoginSession(p)
      PROVE  Settled
  BY <1>2, RequestParts
     DEF RecordHydraLoginSession, store, provider, history, Recordable, Current, At,
         Operands
<1>3. ASSUME NEW p \in Handler, DropLoginSession(p)
      PROVE  Settled
  BY <1>3 DEF DropLoginSession, DeleteLoginSession, store, provider, history
<1>4. ASSUME NEW p \in Handler, ConfirmConsent(p)
      PROVE  Settled
  BY <1>4 DEF ConfirmConsent, store, provider, history
<1>5. ASSUME NEW p \in Handler, AcceptLogout(p)
      PROVE  Settled
  BY <1>5 DEF AcceptLogout, DeleteLoginSession, store, provider, history
<1>6. ASSUME NEW p \in Handler, NEW h \in Sid, RevokeProviderSession(p, h)
      PROVE  Settled
  BY <1>6 DEF RevokeProviderSession, DeleteLoginSession, store, provider, history
<1>7. ASSUME NEW p \in Handler, FinishRevocation(p)
      PROVE  Settled
  BY <1>7 DEF FinishRevocation, DeleteSubjectSessions, DeleteSubjectLogins, store, provider, history
<1>8. ASSUME NEW h \in Sid, ConfirmLogin(h)
      PROVE  Settled
  BY <1>8 DEF ConfirmLogin, store, provider, history
<1>9. ASSUME NEW h \in Sid, HydraTokenHook(h)
      PROVE  Settled
  BY <1>9 DEF HydraTokenHook, TokenAllowed, store, provider, history
<1>10. ASSUME NEW h \in Sid, EstablishSession(h)
      PROVE  Settled
  BY <1>10 DEF EstablishSession, store, provider, history
<1>11. ASSUME NEW h \in Sid, DeliverLogout(h)
      PROVE  Settled
  BY <1>11 DEF DeliverLogout, store, provider, history
<1>12. ASSUME NEW p \in Handler, SignIn(p)
      PROVE  Settled
  BY <1>12, <1>1, <1>2, <1>4, <1>3
     DEF SignIn, StartSession, CreateSession, HydraLogin, AcceptLogin, HydraConsent,
         RevalidateSession, store, provider, history
<1>13. ASSUME NEW p \in Handler, SignOut(p)
      PROVE  Settled
  BY <1>13, <1>1, <1>5
     DEF SignOut, Logout, ProviderLogout, ConsumeCreated, HydraLogout, RejectLogout, ClaimConsumed,
         store, provider, history
<1>14. ASSUME NEW p \in Handler, Recover(p)
      PROVE  Settled
  BY <1>14, <1>1, <1>6
     DEF Recover, ClaimAbandoned, RevokeSessions, CompleteGrant, ScheduleRecovery, store,
         provider, history
<1>15. ASSUME NEW p \in Handler, Administer(p)
      PROVE  Settled
  BY <1>15, <1>1, <1>7
     DEF Administer, RevokeSession, RevokeUserSessions, DisableUser, ListProviderSessions,
         store, provider, history
<1>16. CASE Environment
  BY <1>16, <1>1, <1>8, <1>9, <1>10, <1>11
     DEF Environment, AgeSession, EnableUser, ExpireGrant, CleanupDue, ExpireLease,
         DeleteCompleted, store, provider, history
<1>17. ASSUME NEW p \in Handler, Crash(p)
      PROVE  Settled
  BY <1>17, <1>1
     DEF Crash, store, provider, history
<1>18. CASE UNCHANGED vars
  BY <1>18, <1>1 DEF vars, store, provider, history
<1> QED
  BY <1>12, <1>13, <1>14, <1>15, <1>16, <1>17, <1>18 DEF Next

\* The snapshot of a grant stays complete.
LEMMA SnapshotStep ==
  ASSUME TypeOK, TypeOK', SnapshotComplete, EndedAreRevoked', Settled, [Next]_vars
  PROVE  SnapshotComplete'
<1> USE DEF TypeOK, SnapshotComplete
<1>0. ASSUME NEW g \in Grant, NEW h \in Sid, corr'[h] \in snapshot'[g]
      PROVE  corr'[h] = corr[h]
  BY <1>0 DEF EndedAreRevoked, Settled
<1>1. UNCHANGED <<snapshot, sids>> => SnapshotComplete'
  BY <1>0
<1>2. ASSUME NEW p \in Handler, NEW b \in Browser, NEW g \in Grant, Logout(p, b, g)
      PROVE  SnapshotComplete'
  <2>1. CASE UNCHANGED <<snapshot, sids>>
    BY <1>1, <2>1
  <2>2. CASE OpenGrant(g, owner[b], Unrevoked(owner[b]), SidsOf({b}), SidsOf(Unrevoked(owner[b])))
    BY <1>2, <2>2, <1>0 DEF Logout, OpenGrant, SidsOf
  <2> QED
    BY <1>2, <2>1, <2>2 DEF Logout, grants, contents
<1>3. ASSUME NEW p \in Handler, NEW h \in Sid, NEW g \in Grant, ProviderLogout(p, h, g)
      PROVE  SnapshotComplete'
  <2> DEFINE browsers == Unrevoked(subject[h])
  <2>1. CASE OpenGrant(g, subject[h], {}, {h}, {h})
    BY <1>3, <2>1, <1>0 DEF ProviderLogout, OpenGrant
  <2>2. CASE OpenGrant(g, subject[h], browsers, SidsOf({corr[h]}), SidsOf(browsers))
    BY <1>3, <2>2, <1>0 DEF ProviderLogout, OpenGrant, SidsOf
  <2> QED
    BY <1>3, <2>1, <2>2 DEF ProviderLogout
<1>4. ASSUME NEW g \in Grant, DeleteCompleted(g)
      PROVE  SnapshotComplete'
  BY <1>4, <1>0 DEF DeleteCompleted
<1>5. ASSUME NEW p \in Handler, SignIn(p)
      PROVE  SnapshotComplete'
  BY <1>5, <1>1
     DEF SignIn, StartSession, CreateSession, HydraLogin, AcceptLogin, HydraConsent,
         RecordHydraLoginSession, RevalidateSession, ConfirmConsent, DropLoginSession, grants, contents
<1>6. ASSUME NEW p \in Handler, SignOut(p)
      PROVE  SnapshotComplete'
  BY <1>6, <1>1, <1>2, <1>3
     DEF SignOut, ConsumeCreated, HydraLogout, RejectLogout, AcceptLogout, ClaimConsumed, Consume, Lease,
         grants, contents
<1>7. ASSUME NEW p \in Handler, Recover(p)
      PROVE  SnapshotComplete'
  BY <1>7, <1>1
     DEF Recover, ClaimAbandoned, RevokeSessions, CompleteGrant, ScheduleRecovery,
         RevokeProviderSession, Lease, grants, contents
<1>8. ASSUME NEW p \in Handler, Administer(p)
      PROVE  SnapshotComplete'
  BY <1>8, <1>1
     DEF Administer, RevokeSession, RevokeUserSessions, DisableUser, ListProviderSessions,
         FinishRevocation, grants, contents
<1>9. CASE Environment
  BY <1>9, <1>1, <1>4
     DEF Environment, AgeSession, EnableUser, ConfirmLogin, HydraTokenHook,
         EstablishSession, DeliverLogout, ExpireGrant, CleanupDue, ExpireLease, grants,
         contents
<1>10. ASSUME NEW p \in Handler, Crash(p)
      PROVE  SnapshotComplete'
  BY <1>10, <1>1
     DEF Crash, grants, contents
<1>11. CASE UNCHANGED vars
  BY <1>11, <1>1 DEF vars, grants, contents
<1> QED
  BY <1>5, <1>6, <1>7, <1>8, <1>9, <1>10, <1>11 DEF Next

\* What was reported as ended stays signed out, and what is being reported is.
LEMMA SignedOutStep ==
  ASSUME TypeOK, TypeOK', EndedMeansSignedOut, Progress, EndedAreRevoked', Settled, [Next]_vars
  PROVE  EndedMeansSignedOut'
<1> USE DEF TypeOK
<1> SUFFICES \A h \in Sid : corr'[h] \in ended' => Safe(h)'
  BY DEF EndedMeansSignedOut, Safe
<1>0. ASSUME NEW h \in Sid, corr'[h] \in ended'
      PROVE  corr'[h] = corr[h] /\ (corr[h] \in ended => Safe(h)') /\ (Safe(h) => Safe(h)')
  BY <1>0 DEF EndedAreRevoked, Settled, EndedMeansSignedOut, Safe
<1>1. UNCHANGED ended => \A h \in Sid : corr'[h] \in ended' => Safe(h)'
  BY <1>0
<1>2. ASSUME NEW p \in Handler, NEW b \in Browser, NEW g \in Grant, Logout(p, b, g)
      PROVE  \A h \in Sid : corr'[h] \in ended' => Safe(h)'
  <2>1. CASE UNCHANGED ended
    BY <1>1, <2>1
  <2>2. CASE SidsOf(Unrevoked(owner[b])) = {} /\ ended' = ended \cup Unrevoked(owner[b])
    BY <1>2, <2>2, <1>0 DEF Logout, SidsOf
  <2> QED
    BY <1>2, <2>1, <2>2 DEF Logout
<1>3. ASSUME NEW p \in Handler, CompleteGrant(p)
      PROVE  \A h \in Sid : corr'[h] \in ended' => Safe(h)'
  <2>1. req[p].g \in Grant /\ req[p].step = "final" /\ req[p].todo = {}
    BY <1>3, RequestParts DEF CompleteGrant, AllRevoked, At, Operands
  <2>2. \A k \in Sid : corr[k] \in snapshot[req[p].g] => Safe(k)
    BY <2>1 DEF Progress, ProgressOf, Target
  <2> QED
    BY <1>3, <1>0, <2>2 DEF CompleteGrant
<1>4. ASSUME NEW p \in Handler, FinishRevocation(p)
      PROVE  \A h \in Sid : corr'[h] \in ended' => Safe(h)'
  <2>1. req[p].step = "revoke" /\ req[p].todo = {}
    BY <1>4 DEF FinishRevocation, AllRevoked, At
  <2>2. \A k \in Sid : corr[k] \in req[p].ends => Safe(k)
    BY <2>1 DEF Progress, ProgressOf, Target
  <2>3. ended' \subseteq ended \cup req[p].ends
    BY <1>4 DEF FinishRevocation, history
  <2> QED
    BY <1>0, <2>2, <2>3
<1>5. ASSUME NEW p \in Handler, SignIn(p)
      PROVE  \A h \in Sid : corr'[h] \in ended' => Safe(h)'
  BY <1>5, <1>1
     DEF SignIn, StartSession, CreateSession, HydraLogin, AcceptLogin, HydraConsent,
         RecordHydraLoginSession, RevalidateSession, ConfirmConsent, DropLoginSession, history
<1>6. ASSUME NEW p \in Handler, SignOut(p)
      PROVE  \A h \in Sid : corr'[h] \in ended' => Safe(h)'
  BY <1>6, <1>1, <1>2
     DEF SignOut, ProviderLogout, ConsumeCreated, HydraLogout, RejectLogout, AcceptLogout, ClaimConsumed,
         history
<1>7. ASSUME NEW p \in Handler, Recover(p)
      PROVE  \A h \in Sid : corr'[h] \in ended' => Safe(h)'
  BY <1>7, <1>1, <1>3
     DEF Recover, ClaimAbandoned, RevokeSessions, ScheduleRecovery, RevokeProviderSession,
         history
<1>8. ASSUME NEW p \in Handler, Administer(p)
      PROVE  \A h \in Sid : corr'[h] \in ended' => Safe(h)'
  BY <1>8, <1>1, <1>4
     DEF Administer, RevokeSession, RevokeUserSessions, DisableUser, ListProviderSessions,
         history
<1>9. CASE Environment
  BY <1>9, <1>1
     DEF Environment, AgeSession, EnableUser, ConfirmLogin, HydraTokenHook,
         EstablishSession, DeliverLogout, ExpireGrant, CleanupDue, ExpireLease,
         DeleteCompleted, history
<1>10. ASSUME NEW p \in Handler, Crash(p)
      PROVE  \A h \in Sid : corr'[h] \in ended' => Safe(h)'
  BY <1>10, <1>1
     DEF Crash, history
<1>11. CASE UNCHANGED vars
  BY <1>11, <1>1 DEF vars, history
<1> QED
  BY <1>5, <1>6, <1>7, <1>8, <1>9, <1>10, <1>11 DEF Next

\* A handler's list covers what is not safe yet.
LEMMA ProgressStep ==
  ASSUME TypeOK, TypeOK', Progress, EndedAreRevoked', EndingAreRevoked', Settled, GrantsHeld,
         ListsCover, SnapshotComplete, Tracked, TombsHold, [Next]_vars
  PROVE  Progress'
<1> USE DEF TypeOK
<1> SUFFICES \A q \in Handler : ProgressOf(q)'
  BY DEF Progress
<1>0. ASSUME NEW q \in Handler, NEW h \in Sid, corr'[h] \in Target(q)'
      PROVE  corr'[h] = corr[h] /\ (Safe(h) => Safe(h)')
  <2>1. Target(q)' \subseteq Browser /\ \A b \in Target(q)' : state'[b] = "revoked"
    <3>1. Operands(req'[q]) /\ req'[q] \in Request
      OBVIOUS
    <3> QED
      BY <3>1 DEF Target, Operands, Request, EndedAreRevoked, EndingAreRevoked
  <2> QED
    BY <1>0, <2>1 DEF Settled
<1>1. ASSUME NEW q \in Handler, Target(q)' = Target(q), req'[q].todo = req[q].todo
      PROVE  ProgressOf(q)'
  BY <1>0, <1>1 DEF Progress, ProgressOf
<1>2. ASSUME NEW p \in Handler, UNCHANGED snapshot, \A q \in Handler \ {p} : req'[q] = req[q],
             req'[p].step \notin {"revoke", "final"}
      PROVE  \A q \in Handler : ProgressOf(q)'
  BY <1>1, <1>2 DEF Target, ProgressOf
<1>3. ASSUME NEW p \in Handler, UNCHANGED snapshot, \A q \in Handler \ {p} : req'[q] = req[q],
             \A h \in Sid : corr[h] \in Target(p)' => h \in req'[p].todo
      PROVE  \A q \in Handler : ProgressOf(q)'
  BY <1>0, <1>1, <1>3 DEF Target, ProgressOf
<1>4. UNCHANGED <<req, snapshot>> => \A q \in Handler : ProgressOf(q)'
  BY <1>1 DEF Target
<1>5. ASSUME NEW p \in Handler, NEW u \in User, NEW prev \in Browser \cup {None},
             StartSession(p, u, prev)
      PROVE  \A q \in Handler : ProgressOf(q)'
  BY <1>5, <1>2 DEF StartSession, Goto, Create, Ending, Work, grants, contents
<1>6. ASSUME NEW p \in Handler, CreateSession(p)
      PROVE  \A q \in Handler : ProgressOf(q)'
  BY <1>6, <1>2 DEF CreateSession, Goto, Finish, Idle, Work, grants, contents
<1>7. ASSUME NEW p \in Handler, NEW b \in Browser, NEW h \in Sid, HydraLogin(p, b, h)
      PROVE  \A q \in Handler : ProgressOf(q)'
  BY <1>7, <1>2 DEF HydraLogin, AcceptLogin, Goto, Provider, Work, grants, contents
<1>8. ASSUME NEW p \in Handler, RecordHydraLoginSession(p)
      PROVE  \A q \in Handler : ProgressOf(q)'
  BY <1>8, <1>2
     DEF RecordHydraLoginSession, Goto, Finish, Provider, Idle, Work, grants, contents
<1>9. ASSUME NEW p \in Handler, DropLoginSession(p)
      PROVE  \A q \in Handler : ProgressOf(q)'
  BY <1>9, <1>2 DEF DropLoginSession, Goto, Finish, Idle, Work, grants, contents
<1>10. ASSUME NEW p \in Handler, NEW b \in Browser, NEW h \in Sid, HydraConsent(p, b, h)
      PROVE  \A q \in Handler : ProgressOf(q)'
  BY <1>10, <1>2 DEF HydraConsent, Goto, Provider, Work, grants, contents
<1>11. ASSUME NEW p \in Handler, RevalidateSession(p)
      PROVE  \A q \in Handler : ProgressOf(q)'
  BY <1>11, <1>2 DEF RevalidateSession, Goto, Finish, Provider, Idle, Work, grants, contents
<1>11a. ASSUME NEW p \in Handler, ConfirmConsent(p)
      PROVE  \A q \in Handler : ProgressOf(q)'
  BY <1>11a, <1>2 DEF ConfirmConsent, Goto, Finish, Idle, Work, grants, contents
<1>12. ASSUME NEW p \in Handler, NEW b \in Browser, NEW g \in Grant, Logout(p, b, g)
      PROVE  \A q \in Handler : ProgressOf(q)'
  <2> DEFINE all == SidsOf(Unrevoked(owner[b]))
  <2>1. CASE UNCHANGED <<req, snapshot>>
    BY <1>1, <2>1 DEF Target
  <2>2. CASE /\ OpenGrant(g, owner[b], Unrevoked(owner[b]), SidsOf({b}), all)
             /\ UNCHANGED req
    BY <1>1, <2>2, RequestParts DEF OpenGrant, GrantsHeld, Target, Operands
  <2>3. CASE /\ OpenGrant(g, owner[b], Unrevoked(owner[b]), SidsOf({b}), all)
             /\ Goto(p, OnGrant("final", g, None, all))
    <3>1. req'[p].step = "final" /\ req'[p].g = g /\ req'[p].todo = all
      BY <2>3 DEF Goto, OnGrant, Work
    <3>2. ProgressOf(p)'
      BY <1>12, <1>0, <2>3, <3>1 DEF Logout, OpenGrant, Target, SidsOf, ProgressOf
    <3>3. ASSUME NEW q \in Handler, q # p
          PROVE  ProgressOf(q)'
      BY <1>1, <2>3, <3>3, RequestParts DEF OpenGrant, GrantsHeld, Goto, Target, Operands
    <3> QED
      BY <3>2, <3>3
  <2> QED
    BY <1>12, <2>1, <2>2, <2>3 DEF Logout, grants, contents
<1>13. ASSUME NEW p \in Handler, NEW h \in Sid, NEW g \in Grant, ProviderLogout(p, h, g)
      PROVE  \A q \in Handler : ProgressOf(q)'
  <2>1. req'[p].step = "consume" /\ \A q \in Handler \ {p} : req'[q] = req[q]
    BY <1>13 DEF ProviderLogout, Goto, OnGrant, Work
  <2>2. phase[g] = "none" /\ \A k \in Grant \ {g} : snapshot'[k] = snapshot[k]
    BY <1>13 DEF ProviderLogout, OpenGrant
  <2>3. ASSUME NEW q \in Handler, q # p
        PROVE  ProgressOf(q)'
    BY <1>1, <2>1, <2>2, <2>3, RequestParts DEF GrantsHeld, Target, Operands
  <2>4. ProgressOf(p)'
    BY <2>1 DEF ProgressOf, Target
  <2> QED
    BY <2>3, <2>4
<1>14. ASSUME NEW p \in Handler, ConsumeCreated(p)
      PROVE  \A q \in Handler : ProgressOf(q)'
  BY <1>14, <1>2
     DEF ConsumeCreated, Goto, Finish, Consume, Public, OnGrant, Idle, Work, grants,
         contents
<1>15. ASSUME NEW p \in Handler, NEW g \in Grant, NEW h \in Sid \cup {None}, HydraLogout(p, g, h)
      PROVE  \A q \in Handler : ProgressOf(q)'
  BY <1>15, <1>2 DEF HydraLogout, RejectLogout, Goto, Consume, Public, OnGrant, Work, grants, contents
<1>16. ASSUME NEW p \in Handler, AcceptLogout(p)
      PROVE  \A q \in Handler : ProgressOf(q)'
  BY <1>16, <1>2 DEF AcceptLogout, Goto, Finish, OnGrant, Idle, Work, grants, contents
<1>17. ASSUME NEW p \in Handler, NEW g \in Grant, ClaimConsumed(p, g)
      PROVE  \A q \in Handler : ProgressOf(q)'
  <2>1. req'[p].step = "final" /\ req'[p].g = g /\ req'[p].todo = sids[g]
    BY <1>17 DEF ClaimConsumed, Goto, OnGrant, Work
  <2>2. \A h \in Sid : corr[h] \in Target(p)' => h \in req'[p].todo
    BY <1>17, <2>1 DEF Target, SnapshotComplete, ClaimConsumed, Lease, contents
  <2> QED
    BY <1>17, <1>3, <2>2 DEF ClaimConsumed, Goto, Lease, contents
<1>18. ASSUME NEW p \in Handler, NEW g \in Grant, ClaimAbandoned(p, g)
      PROVE  \A q \in Handler : ProgressOf(q)'
  BY <1>18, <1>2 DEF ClaimAbandoned, Goto, Lease, OnGrant, Work, grants, contents
<1>19. ASSUME NEW p \in Handler, RevokeSessions(p)
      PROVE  \A q \in Handler : ProgressOf(q)'
  <2>1. CASE Goto(p, OnGrant("fail", req[p].g, None, {}))
    BY <1>19, <1>2, <2>1 DEF RevokeSessions, Goto, OnGrant, Work, grants, contents
  <2>2. CASE Goto(p, OnGrant("final", req[p].g, None, sids[req[p].g]))
    <3>1. req'[p].step = "final" /\ req'[p].g = req[p].g /\ req'[p].todo = sids[req[p].g]
      BY <2>2 DEF Goto, OnGrant, Work
    <3>2. req[p].g \in Grant /\ UNCHANGED <<snapshot, corr>>
      BY <1>19, RequestParts DEF RevokeSessions, At, Operands, grants, contents
    <3>3. \A h \in Sid : corr[h] \in Target(p)' => h \in req'[p].todo
      BY <3>1, <3>2 DEF Target, SnapshotComplete
    <3> QED
      BY <1>3, <2>2, <3>2, <3>3 DEF Goto
  <2> QED
    BY <1>19, <2>1, <2>2 DEF RevokeSessions
<1>20. ASSUME NEW p \in Handler, NEW h \in Sid, RevokeProviderSession(p, h)
      PROVE  \A q \in Handler : ProgressOf(q)'
  <2>1. CASE DeleteLoginSession(h) /\ Goto(p, Work(req[p].step, req[p].b, req[p].h, req[p].g,
                 req[p].u, req[p].next, req[p].todo \ {h}, req[p].ends))
    <3>1. Safe(h)'
      BY <1>20, <2>1, DeletedIsSafe DEF RevokeProviderSession, history
    <3>2. /\ req'[p].step = req[p].step /\ req'[p].g = req[p].g /\ req'[p].ends = req[p].ends
          /\ req'[p].todo = req[p].todo \ {h} /\ \A q \in Handler \ {p} : req'[q] = req[q]
      BY <2>1 DEF Goto, Work
    <3>3. UNCHANGED snapshot
      BY <1>20 DEF RevokeProviderSession, grants, contents
    <3>4. Target(p)' = Target(p)
      BY <3>2, <3>3 DEF Target
    <3>5. ProgressOf(p)'
      BY <1>0, <3>1, <3>2, <3>4 DEF Progress, ProgressOf
    <3>6. ASSUME NEW q \in Handler, q # p
          PROVE  ProgressOf(q)'
      BY <1>1, <3>2, <3>3, <3>6 DEF Target
    <3> QED
      BY <3>5, <3>6
  <2>2. CASE Continue(p)
    BY <1>20, <1>2, <2>2
       DEF RevokeProviderSession, Continue, Goto, Create, Idle, Work, grants, contents
  <2>3. CASE Goto(p, OnGrant("fail", req[p].g, None, {}))
    BY <1>20, <1>2, <2>3 DEF RevokeProviderSession, Goto, OnGrant, Work, grants, contents
  <2> QED
    BY <1>20, <2>1, <2>2, <2>3 DEF RevokeProviderSession
<1>21. ASSUME NEW p \in Handler, CompleteGrant(p)
      PROVE  \A q \in Handler : ProgressOf(q)'
  BY <1>21, <1>2 DEF CompleteGrant, Goto, Finish, OnGrant, Idle, Work, grants, contents
<1>22. ASSUME NEW p \in Handler, ScheduleRecovery(p)
      PROVE  \A q \in Handler : ProgressOf(q)'
  BY <1>22, <1>2 DEF ScheduleRecovery, Goto, Finish, Idle, Work, grants, contents
<1>23. ASSUME NEW p \in Handler, NEW b \in Browser, RevokeSession(p, b)
      PROVE  \A q \in Handler : ProgressOf(q)'
  BY <1>23, <1>2 DEF RevokeSession, Goto, Ending, Work, grants, contents
<1>24. ASSUME NEW p \in Handler, NEW u \in User, RevokeUserSessions(p, u)
      PROVE  \A q \in Handler : ProgressOf(q)'
  BY <1>24, <1>2 DEF RevokeUserSessions, Goto, Ending, Work, grants, contents
<1>25. ASSUME NEW p \in Handler, NEW u \in User, DisableUser(p, u)
      PROVE  \A q \in Handler : ProgressOf(q)'
  <2>1. /\ req'[p].step = "revoke" /\ req'[p].ends = SessionsOf(u)
        /\ req'[p].todo = SidsOf(SessionsOf(u))
    BY <1>25 DEF DisableUser, Goto, Ending, Work
  <2>2. \A h \in Sid : corr[h] \in Target(p)' => h \in req'[p].todo
    BY <2>1 DEF Target, SidsOf
  <2> QED
    BY <1>25, <1>3, <2>2 DEF DisableUser, Goto, grants, contents
<1>26. ASSUME NEW p \in Handler, ListProviderSessions(p)
      PROVE  \A q \in Handler : ProgressOf(q)'
  <2>1. CASE Continue(p)
    BY <1>26, <1>2, <2>1
       DEF ListProviderSessions, Continue, Goto, Create, Idle, Work, grants, contents
  <2> DEFINE all == IF req[p].u = None THEN req[p].ends ELSE SessionsOf(req[p].u)
  <2>2. CASE Goto(p, Ending("revoke", req[p].u, req[p].next, SidsOf(all), req[p].ends))
    <3>1. req'[p].step = "revoke" /\ req'[p].ends = req[p].ends /\ req'[p].todo = SidsOf(all)
      BY <2>2 DEF Goto, Ending, Work
    <3>2. req[p].ends \subseteq all
      BY <1>26 DEF ListsCover, ListProviderSessions, At
    <3>3. \A h \in Sid : corr[h] \in Target(p)' => h \in req'[p].todo
      BY <3>1, <3>2 DEF Target, SidsOf
    <3> QED
      BY <1>26, <1>3, <2>2, <3>3 DEF ListProviderSessions, Goto, grants, contents
  <2> QED
    BY <1>26, <2>1, <2>2 DEF ListProviderSessions
<1>27. ASSUME NEW p \in Handler, FinishRevocation(p)
      PROVE  \A q \in Handler : ProgressOf(q)'
  BY <1>27, <1>2 DEF FinishRevocation, Goto, Continue, Create, Idle, Work, grants, contents
<1>28. ASSUME NEW p \in Handler, Crash(p)
      PROVE  \A q \in Handler : ProgressOf(q)'
  BY <1>28, <1>2 DEF Crash, Goto, Finish, Idle, Work, grants, contents
<1>29. ASSUME NEW g \in Grant, DeleteCompleted(g)
      PROVE  \A q \in Handler : ProgressOf(q)'
  BY <1>29, <1>1, RequestParts DEF DeleteCompleted, Target, Operands
<1>30. ASSUME NEW p \in Handler, SignIn(p)
      PROVE  \A q \in Handler : ProgressOf(q)'
  BY <1>30, <1>5, <1>6, <1>7, <1>10, <1>8, <1>11, <1>11a, <1>9
     DEF SignIn, grants, contents
<1>31. ASSUME NEW p \in Handler, SignOut(p)
      PROVE  \A q \in Handler : ProgressOf(q)'
  BY <1>31, <1>12, <1>13, <1>14, <1>15, <1>16, <1>17
     DEF SignOut, grants, contents
<1>32. ASSUME NEW p \in Handler, Recover(p)
      PROVE  \A q \in Handler : ProgressOf(q)'
  BY <1>32, <1>18, <1>19, <1>21, <1>22, <1>20
     DEF Recover, grants, contents
<1>33. ASSUME NEW p \in Handler, Administer(p)
      PROVE  \A q \in Handler : ProgressOf(q)'
  BY <1>33, <1>23, <1>24, <1>25, <1>26, <1>27
     DEF Administer, grants, contents
<1>34. CASE Environment
  BY <1>34, <1>4, <1>29
     DEF Environment, AgeSession, EnableUser, ConfirmLogin, HydraTokenHook,
         EstablishSession, DeliverLogout, ExpireGrant, CleanupDue, ExpireLease, grants,
         contents
<1>35. CASE UNCHANGED vars
  BY <1>35, <1>4 DEF vars, grants, contents
<1> QED
  BY <1>30, <1>31, <1>32, <1>33, <1>34, <1>35, <1>28 DEF Next

\* DisableUser ends every session of the account and CreateSession makes none.
LEMMA DisabledStep ==
  ASSUME TypeOK, OwnersMatch, DisabledMeansNoSession, [Next]_vars
  PROVE  DisabledMeansNoSession'
<1> USE DEF TypeOK, DisabledMeansNoSession
<1>1. UNCHANGED <<disabled, owner, state>> => DisabledMeansNoSession'
  OBVIOUS
<1>2. ASSUME NEW p \in Handler, NEW u \in User, NEW prev \in Browser \cup {None},
             StartSession(p, u, prev)
      PROVE  DisabledMeansNoSession'
  BY <1>2 DEF StartSession, Revoke
<1>3. ASSUME NEW p \in Handler, CreateSession(p)
      PROVE  DisabledMeansNoSession'
  BY <1>3, RequestParts DEF CreateSession, At, Operands, Enabled
<1>4. ASSUME NEW p \in Handler, NEW b \in Browser, NEW g \in Grant, Logout(p, b, g)
      PROVE  DisabledMeansNoSession'
  BY <1>4 DEF Logout, Revoke, OpenGrant
<1>5. ASSUME NEW p \in Handler, NEW h \in Sid, NEW g \in Grant, ProviderLogout(p, h, g)
      PROVE  DisabledMeansNoSession'
  BY <1>5 DEF ProviderLogout, Revoke, OpenGrant
<1>6. ASSUME NEW p \in Handler, RevokeSessions(p)
      PROVE  DisabledMeansNoSession'
  BY <1>6 DEF RevokeSessions, Revoke
<1>7. ASSUME NEW p \in Handler, NEW b \in Browser, RevokeSession(p, b)
      PROVE  DisabledMeansNoSession'
  BY <1>7 DEF RevokeSession, Revoke
<1>8. ASSUME NEW p \in Handler, NEW u \in User, RevokeUserSessions(p, u)
      PROVE  DisabledMeansNoSession'
  BY <1>8 DEF RevokeUserSessions, Revoke
<1>9. ASSUME NEW p \in Handler, NEW u \in User, DisableUser(p, u)
      PROVE  DisabledMeansNoSession'
  BY <1>9 DEF DisableUser, Revoke, SessionsOf, OwnersMatch
<1>10. ASSUME NEW b \in Browser, AgeSession(b)
      PROVE  DisabledMeansNoSession'
  BY <1>10 DEF AgeSession
<1>11. ASSUME NEW u \in User, EnableUser(u)
      PROVE  DisabledMeansNoSession'
  BY <1>11 DEF EnableUser
<1>12. ASSUME NEW p \in Handler, SignIn(p)
      PROVE  DisabledMeansNoSession'
  BY <1>12, <1>1, <1>2, <1>3
     DEF SignIn, HydraLogin, AcceptLogin, HydraConsent, RecordHydraLoginSession, RevalidateSession,
         ConfirmConsent, DropLoginSession, store
<1>13. ASSUME NEW p \in Handler, SignOut(p)
      PROVE  DisabledMeansNoSession'
  BY <1>13, <1>1, <1>4, <1>5
     DEF SignOut, ConsumeCreated, HydraLogout, RejectLogout, AcceptLogout, ClaimConsumed, store
<1>14. ASSUME NEW p \in Handler, Recover(p)
      PROVE  DisabledMeansNoSession'
  BY <1>14, <1>1, <1>6
     DEF Recover, ClaimAbandoned, CompleteGrant, ScheduleRecovery, RevokeProviderSession,
         store
<1>15. ASSUME NEW p \in Handler, Administer(p)
      PROVE  DisabledMeansNoSession'
  BY <1>15, <1>1, <1>7, <1>8, <1>9
     DEF Administer, ListProviderSessions, FinishRevocation, store
<1>16. CASE Environment
  BY <1>16, <1>1, <1>10, <1>11
     DEF Environment, ConfirmLogin, HydraTokenHook, EstablishSession, DeliverLogout,
         ExpireGrant, CleanupDue, ExpireLease, DeleteCompleted, store
<1>17. ASSUME NEW p \in Handler, Crash(p)
      PROVE  DisabledMeansNoSession'
  BY <1>17, <1>1
     DEF Crash, store
<1>18. CASE UNCHANGED vars
  BY <1>18, <1>1 DEF vars, store
<1> QED
  BY <1>12, <1>13, <1>14, <1>15, <1>16, <1>17, <1>18 DEF Next

\* The correlation of a sid moves only within one account, and Hydra's subject
\* of a sid is fixed once the login is confirmed.
LEMMA TokenStep ==
  ASSUME TypeOK, OwnersMatch, Correlated, Confirmed, TokenMatchesAccount, [Next]_vars
  PROVE  Correlated' /\ Confirmed' /\ TokenMatchesAccount'
<1> USE DEF TypeOK, OwnersMatch, Correlated, Confirmed, TokenMatchesAccount
<1>1. UNCHANGED <<owner, state, corr, hydra, subject, issued, approved, rp>> =>
        Correlated' /\ Confirmed' /\ TokenMatchesAccount'
  OBVIOUS
<1>2. ASSUME NEW p \in Handler, NEW u \in User, NEW prev \in Browser \cup {None},
             StartSession(p, u, prev)
      PROVE  Correlated' /\ Confirmed' /\ TokenMatchesAccount'
  BY <1>2 DEF StartSession, Revoke, store, provider, history
<1>3. ASSUME NEW p \in Handler, CreateSession(p)
      PROVE  Correlated' /\ Confirmed' /\ TokenMatchesAccount'
  BY <1>3, RequestParts DEF CreateSession, At, Operands, store, provider, history
<1>4. ASSUME NEW p \in Handler, NEW b \in Browser, NEW h \in Sid, HydraLogin(p, b, h)
      PROVE  Correlated' /\ Confirmed' /\ TokenMatchesAccount'
  BY <1>4 DEF HydraLogin, AcceptLogin, LoginFits, store, provider, history
<1>5. ASSUME NEW p \in Handler, RecordHydraLoginSession(p)
      PROVE  Correlated' /\ Confirmed' /\ TokenMatchesAccount'
  BY <1>5, RequestParts
     DEF RecordHydraLoginSession, Recordable, Current, At, Operands, store, provider,
         history
<1>6. ASSUME NEW p \in Handler, DropLoginSession(p)
      PROVE  Correlated' /\ Confirmed' /\ TokenMatchesAccount'
  BY <1>6 DEF DropLoginSession, DeleteLoginSession, store, provider, history
<1>7. ASSUME NEW p \in Handler, ConfirmConsent(p)
      PROVE  Correlated' /\ Confirmed' /\ TokenMatchesAccount'
  BY <1>7, RequestParts DEF ConfirmConsent, At, Operands, store, provider, history
<1>8. ASSUME NEW p \in Handler, NEW b \in Browser, NEW g \in Grant, Logout(p, b, g)
      PROVE  Correlated' /\ Confirmed' /\ TokenMatchesAccount'
  BY <1>8 DEF Logout, Revoke, OpenGrant, store, provider, history
<1>9. ASSUME NEW p \in Handler, NEW h \in Sid, NEW g \in Grant, ProviderLogout(p, h, g)
      PROVE  Correlated' /\ Confirmed' /\ TokenMatchesAccount'
  BY <1>9 DEF ProviderLogout, Revoke, OpenGrant, store, provider, history
<1>10. ASSUME NEW p \in Handler, AcceptLogout(p)
      PROVE  Correlated' /\ Confirmed' /\ TokenMatchesAccount'
  BY <1>10 DEF AcceptLogout, DeleteLoginSession, store, provider, history
<1>11. ASSUME NEW p \in Handler, RevokeSessions(p)
      PROVE  Correlated' /\ Confirmed' /\ TokenMatchesAccount'
  BY <1>11 DEF RevokeSessions, Revoke, store, provider, history
<1>12. ASSUME NEW p \in Handler, NEW h \in Sid, RevokeProviderSession(p, h)
      PROVE  Correlated' /\ Confirmed' /\ TokenMatchesAccount'
  BY <1>12 DEF RevokeProviderSession, DeleteLoginSession, store, provider, history
<1>13. ASSUME NEW p \in Handler, NEW b \in Browser, RevokeSession(p, b)
      PROVE  Correlated' /\ Confirmed' /\ TokenMatchesAccount'
  BY <1>13 DEF RevokeSession, Revoke, store, provider, history
<1>14. ASSUME NEW p \in Handler, NEW u \in User, RevokeUserSessions(p, u)
      PROVE  Correlated' /\ Confirmed' /\ TokenMatchesAccount'
  BY <1>14 DEF RevokeUserSessions, Revoke, store, provider, history
<1>15. ASSUME NEW p \in Handler, NEW u \in User, DisableUser(p, u)
      PROVE  Correlated' /\ Confirmed' /\ TokenMatchesAccount'
  BY <1>15 DEF DisableUser, Revoke, store, provider, history
<1>16. ASSUME NEW p \in Handler, FinishRevocation(p)
      PROVE  Correlated' /\ Confirmed' /\ TokenMatchesAccount'
  BY <1>16 DEF FinishRevocation, DeleteSubjectSessions, DeleteSubjectLogins, store, provider, history
<1>17. ASSUME NEW b \in Browser, AgeSession(b)
      PROVE  Correlated' /\ Confirmed' /\ TokenMatchesAccount'
  BY <1>17 DEF AgeSession, store, provider, history
<1>18. ASSUME NEW h \in Sid, ConfirmLogin(h)
      PROVE  Correlated' /\ Confirmed' /\ TokenMatchesAccount'
  BY <1>18 DEF ConfirmLogin, store, provider, history
<1>19. ASSUME NEW h \in Sid, HydraTokenHook(h)
      PROVE  Correlated' /\ Confirmed' /\ TokenMatchesAccount'
  BY <1>19 DEF HydraTokenHook, TokenAllowed, store, provider, history
<1>20. ASSUME NEW h \in Sid, EstablishSession(h)
      PROVE  Correlated' /\ Confirmed' /\ TokenMatchesAccount'
  BY <1>20 DEF EstablishSession, store, provider, history
<1>21. ASSUME NEW h \in Sid, DeliverLogout(h)
      PROVE  Correlated' /\ Confirmed' /\ TokenMatchesAccount'
  BY <1>21 DEF DeliverLogout, store, provider, history
<1>22. ASSUME NEW p \in Handler, SignIn(p)
      PROVE  Correlated' /\ Confirmed' /\ TokenMatchesAccount'
  BY <1>22, <1>1, <1>2, <1>3, <1>4, <1>5, <1>7, <1>6
     DEF SignIn, HydraConsent, RevalidateSession, store, provider, history
<1>23. ASSUME NEW p \in Handler, SignOut(p)
      PROVE  Correlated' /\ Confirmed' /\ TokenMatchesAccount'
  BY <1>23, <1>1, <1>8, <1>9, <1>10
     DEF SignOut, ConsumeCreated, HydraLogout, RejectLogout, ClaimConsumed, store, provider, history
<1>24. ASSUME NEW p \in Handler, Recover(p)
      PROVE  Correlated' /\ Confirmed' /\ TokenMatchesAccount'
  BY <1>24, <1>1, <1>11, <1>12
     DEF Recover, ClaimAbandoned, CompleteGrant, ScheduleRecovery, store, provider, history
<1>25. ASSUME NEW p \in Handler, Administer(p)
      PROVE  Correlated' /\ Confirmed' /\ TokenMatchesAccount'
  BY <1>25, <1>1, <1>13, <1>14, <1>15, <1>16
     DEF Administer, ListProviderSessions, store, provider, history
<1>26. CASE Environment
  BY <1>26, <1>1, <1>17, <1>18, <1>19, <1>20, <1>21
     DEF Environment, EnableUser, ExpireGrant, CleanupDue, ExpireLease, DeleteCompleted,
         store, provider, history
<1>27. ASSUME NEW p \in Handler, Crash(p)
      PROVE  Correlated' /\ Confirmed' /\ TokenMatchesAccount'
  BY <1>27, <1>1
     DEF Crash, store, provider, history
<1>28. CASE UNCHANGED vars
  BY <1>28, <1>1 DEF vars, store, provider, history
<1> QED
  BY <1>22, <1>23, <1>24, <1>25, <1>26, <1>27, <1>28 DEF Next

-----------------------------------------------------------------------------
(* The theorems. *)

\* TypeOK holds in every reachable state: the tables, Hydra and the handlers
\* only ever hold values of their types, and a handler has at hand what its
\* next step works on.
THEOREM TypeCorrect == Spec => []TypeOK
<1>1. Init => TypeOK
  BY DEF Init, TypeOK, SessionState, GrantState, Request, Step, Idle, Work, Operands
<1> QED
  BY <1>1, TypeStep, PTL DEF Spec

\* The conjunction that makes EndedMeansSignedOut inductive.
THEOREM Invariance == Spec => []IInv
<1>1. Init => IInv
  <2>1. Init => TypeOK
    BY DEF Init, TypeOK, SessionState, GrantState, Request, Step, Idle, Work, Operands
  <2>2. Init => OwnersMatch /\ EndingAreRevoked /\ EndedAreRevoked /\ Tracked /\ TombsHold
    BY
       DEF Init, OwnersMatch, EndingAreRevoked, EndedAreRevoked, Tracked, TombsHold, Idle,
           Work
  <2>3. Init => GrantsHeld /\ ListsCover /\ SnapshotComplete /\ EndedMeansSignedOut
    BY DEF Init, GrantsHeld, ListsCover, SnapshotComplete, EndedMeansSignedOut, Idle, Work
  <2>4. Init => Progress
    BY DEF Init, Progress, ProgressOf, Target, Idle, Work
  <2> QED
    BY <2>1, <2>2, <2>3, <2>4 DEF IInv
<1>2. IInv /\ [Next]_vars => IInv'
  <2> SUFFICES ASSUME IInv, [Next]_vars PROVE IInv'
    OBVIOUS
  <2>1. TypeOK'
    BY TypeStep DEF IInv
  <2>2. OwnersMatch' /\ RevokedStays /\ OwnerKept
    BY SessionStep DEF IInv
  <2>3. EndedAreRevoked'
    BY <2>2, EndedStep DEF IInv
  <2>4. EndingAreRevoked' /\ GrantsHeld' /\ ListsCover'
    BY <2>2, HandlerStep DEF IInv
  <2>5. Tracked' /\ TombsHold'
    BY ProviderStep DEF IInv
  <2>6. Settled
    BY SettledStep DEF IInv
  <2>7. SnapshotComplete'
    BY <2>1, <2>3, <2>6, SnapshotStep DEF IInv
  <2>8. Progress'
    BY <2>1, <2>3, <2>4, <2>6, ProgressStep DEF IInv
  <2>9. EndedMeansSignedOut'
    BY <2>1, <2>3, <2>6, SignedOutStep DEF IInv
  <2> QED
    BY <2>1, <2>2, <2>3, <2>4, <2>5, <2>7, <2>8, <2>9 DEF IInv
<1> QED
  BY <1>1, <1>2, PTL DEF Spec

\* SnapshotComplete holds in every reachable state: a logout grant names every
\* provider session of the browser sessions CreateLogoutCorrelationGrant ended.
THEOREM SnapshotsAreComplete == Spec => []SnapshotComplete
<1>1. IInv => SnapshotComplete
  BY DEF IInv
<1> QED
  BY <1>1, Invariance, PTL

\* EndedMeansSignedOut holds in every reachable state: what a logout, an
\* administrator's revocation or the disabling of an account reported as ended
\* has no application session left but those Hydra swept with their subject.
THEOREM LogoutIsGlobal == Spec => []EndedMeansSignedOut
<1>1. IInv => EndedMeansSignedOut
  BY DEF IInv
<1> QED
  BY <1>1, Invariance, PTL

\* DisabledMeansNoSession and TokenMatchesAccount, with what makes them inductive.
THEOREM AccountInvariance == Spec => []AInv
<1>1. Init => AInv
  <2>1. Init => TypeOK
    BY DEF Init, TypeOK, SessionState, GrantState, Request, Step, Idle, Work, Operands
  <2>2. Init => OwnersMatch /\ Correlated /\ Confirmed
    BY DEF Init, OwnersMatch, Correlated, Confirmed
  <2>3. Init => DisabledMeansNoSession /\ TokenMatchesAccount
    BY DEF Init, DisabledMeansNoSession, TokenMatchesAccount
  <2> QED
    BY <2>1, <2>2, <2>3 DEF AInv
<1>2. AInv /\ [Next]_vars => AInv'
  BY TypeStep, SessionStep, DisabledStep, TokenStep DEF AInv
<1> QED
  BY <1>1, <1>2, PTL DEF Spec

\* DisabledMeansNoSession holds in every reachable state: a disabled account
\* never has a browser session in force (DisableUser, CreateSession).
THEOREM DisabledAccountsAreOut == Spec => []DisabledMeansNoSession
<1>1. AInv => DisabledMeansNoSession
  BY DEF AInv
<1> QED
  BY <1>1, AccountInvariance, PTL

\* TokenMatchesAccount holds in every reachable state: what an application holds
\* under a sid is of the account whose browser session the sid belongs to
\* (hydraLogin, RecordHydraLoginSession, hydraTokenHook).
THEOREM TokensMatchAccounts == Spec => []TokenMatchesAccount
<1>1. AInv => TokenMatchesAccount
  BY DEF AInv
<1> QED
  BY <1>1, AccountInvariance, PTL

-----------------------------------------------------------------------------
(* The applications of this module are those that Gateway implements. *)

\* Only the two steps of an application change what it holds.
LEMMA ApplicationStep == [Next]_vars => [App!Next]_<<rp, tomb>>
<1> SUFFICES ASSUME [Next]_vars PROVE App!Next \/ UNCHANGED <<rp, tomb>>
  OBVIOUS
<1>1. ASSUME NEW h \in Sid, EstablishSession(h) PROVE App!Next
  <2>1. CASE h \in tomb
    BY <1>1, <2>1 DEF EstablishSession, App!Next, App!End
  <2>2. CASE h \notin tomb
    BY <1>1, <2>2 DEF EstablishSession, App!Next, App!Establish
  <2> QED BY <2>1, <2>2
<1>2. ASSUME NEW h \in Sid, DeliverLogout(h) PROVE App!Next
  BY <1>2 DEF DeliverLogout, App!Next, App!LogOut
<1>3. ASSUME NEW p \in Handler, SignIn(p) PROVE UNCHANGED <<rp, tomb>>
  BY <1>3
     DEF SignIn, StartSession, CreateSession, HydraLogin, AcceptLogin, HydraConsent,
         RecordHydraLoginSession, RevalidateSession, ConfirmConsent, DropLoginSession, DeleteLoginSession,
         provider
<1>4. ASSUME NEW p \in Handler, SignOut(p) PROVE UNCHANGED <<rp, tomb>>
  BY <1>4
     DEF SignOut, Logout, ProviderLogout, ConsumeCreated, HydraLogout, RejectLogout,
         AcceptLogout, ClaimConsumed, DeleteLoginSession, provider
<1>5. ASSUME NEW p \in Handler, Recover(p) PROVE UNCHANGED <<rp, tomb>>
  BY <1>5
     DEF Recover, ClaimAbandoned, RevokeSessions, CompleteGrant, ScheduleRecovery,
         RevokeProviderSession, DeleteLoginSession, provider
<1>6. ASSUME NEW p \in Handler, Administer(p) PROVE UNCHANGED <<rp, tomb>>
  BY <1>6
     DEF Administer, RevokeSession, RevokeUserSessions, DisableUser, ListProviderSessions,
         FinishRevocation, DeleteSubjectSessions, DeleteSubjectLogins, provider
<1>7. ASSUME NEW p \in Handler, Crash(p) PROVE UNCHANGED <<rp, tomb>>
  BY <1>7 DEF Crash, provider
<1>8. CASE Environment
  BY <1>8, <1>1, <1>2
     DEF Environment, AgeSession, EnableUser, ConfirmLogin, HydraTokenHook, ExpireGrant,
         CleanupDue, ExpireLease, DeleteCompleted, provider
<1>9. CASE UNCHANGED vars
  BY <1>9 DEF vars, provider
<1> QED
  BY <1>3, <1>4, <1>5, <1>6, <1>7, <1>8, <1>9 DEF Next

\* Whatever Shauth, Hydra and the handlers do, an application does no more and
\* no less than RelyingParty allows: global logout relies on nothing that the
\* gateway does not implement.
THEOREM ApplicationsAreRelyingParties == Spec => App!Spec
<1>1. Init => App!Init
  BY DEF Init, App!Init
<1> QED
  BY <1>1, ApplicationStep, PTL DEF Spec, App!Spec

-----------------------------------------------------------------------------
(* Global logout is one logout: GlobalLogout implements SingleLogout. *)

\* Nobody is signed in at an application under a session reported as ended, or
\* under one that never was.
LEMMA SignedInIsAllowed ==
  ASSUME IInv, AInv
  PROVE  SignedIn \subseteq {b \in Browser : owner[b] # None} \ ended
<1> SUFFICES ASSUME NEW h \in rp, h \notin notice, h \notin swept
             PROVE  corr[h] \in Browser /\ owner[corr[h]] # None /\ corr[h] \notin ended
  BY DEF SignedIn
<1>1. h \in Sid /\ corr[h] # None
  BY DEF AInv, TypeOK, TokenMatchesAccount
<1>2. corr[h] \in Browser /\ owner[corr[h]] # None
  BY <1>1 DEF AInv, TypeOK, Correlated, OwnersMatch
<1>3. corr[h] \notin ended
  BY <1>1 DEF IInv, EndedMeansSignedOut, Fenced
<1> QED
  BY <1>2, <1>3

\* What SingleLogout sees of it, from the state the step leaves.
LEMMA SignedInIsAllowedNext ==
  ASSUME IInv', AInv'
  PROVE  SignedIn' \subseteq {b \in Browser : owner'[b] # None} \ ended'
<1> SUFFICES ASSUME NEW h \in rp', h \notin notice', h \notin swept'
             PROVE  corr'[h] \in Browser /\ owner'[corr'[h]] # None /\ corr'[h] \notin ended'
  BY DEF SignedIn
<1>1. h \in Sid /\ corr'[h] # None
  BY DEF AInv, TypeOK, TokenMatchesAccount
<1>2. corr'[h] \in Browser /\ owner'[corr'[h]] # None
  BY <1>1 DEF AInv, TypeOK, Correlated, OwnersMatch
<1>3. corr'[h] \notin ended'
  BY <1>1 DEF IInv, EndedMeansSignedOut, Fenced
<1> QED
  BY <1>2, <1>3

\* A step that ends no session and settles no grant only lets applications come
\* and go.
LEMMA BrowseStep ==
  ASSUME IInv, AInv, IInv', AInv', UNCHANGED <<disabled, owner, Over, Asked, Ends, ended>>
  PROVE  Logouts!Next
<1>1. SignedIn' \subseteq {b \in Browser : owner[b] # None} \ ended
  BY SignedInIsAllowedNext
<1>2. Logouts!Browse
  BY <1>1 DEF Logouts!Browse
<1> QED
  BY <1>2 DEF Logouts!Next

\* Revoking browser sessions ends those that exist.
LEMMA RevokeEnds ==
  ASSUME TypeOK, NEW B, Revoke(B)
  PROVE  Over' = Over \cup {b \in B \cap Browser : state[b] # "none"}
BY DEF TypeOK, Revoke, Over

\* Asked and Ends are of the grants' rows.
LEMMA GrantsStay ==
  ASSUME UNCHANGED <<phase, snapshot>>
  PROVE  UNCHANGED <<Asked, Ends>>
BY DEF Asked, Ends, Pending

LEMMA SessionsStay ==
  ASSUME UNCHANGED state
  PROVE  UNCHANGED Over
BY DEF Over

LEMMA SignedInStays ==
  ASSUME UNCHANGED <<corr, rp, notice, swept>>
  PROVE  UNCHANGED SignedIn
BY DEF SignedIn

\* Sessions of one account that end, with nothing else.
LEMMA EndStep ==
  ASSUME IInv, NEW u \in User, NEW B \in SUBSET SessionsOf(u), Revoke(B),
         UNCHANGED <<disabled, owner, corr, phase, snapshot, rp, notice, ended, swept>>
  PROVE  Logouts!Next
<1>1. B \subseteq Browser /\ \A b \in B : state[b] # "none"
  BY DEF SessionsOf, IInv, OwnersMatch
<1>2. Over' = Over \cup B
  BY <1>1, RevokeEnds DEF IInv
<1>3. UNCHANGED <<Asked, Ends, SignedIn>>
  BY GrantsStay, SignedInStays
<1>4. B \subseteq Logouts!SessionsOf(u)
  BY DEF SessionsOf, Logouts!SessionsOf
<1>5. Logouts!End(u, B)
  BY <1>2, <1>3, <1>4 DEF Logouts!End
<1> QED
  BY <1>1, <1>5 DEF Logouts!Next

\* A grant is opened for an account: every session of it ends, or none.
LEMMA AskStep ==
  ASSUME IInv, NEW g \in Grant, NEW u \in User, NEW mine, NEW all,
         NEW B \in {{}, Unrevoked(u)}, OpenGrant(g, u, B, mine, all),
         UNCHANGED <<disabled, owner, corr, rp, notice, ended, swept>>
  PROVE  Logouts!Next
<1>1. Unrevoked(u) = Logouts!SessionsOf(u) \ Over
  BY DEF IInv, TypeOK, SessionState, OwnersMatch, Unrevoked, SessionsOf, Over,
         Logouts!SessionsOf
<1>2. B \subseteq Browser /\ \A b \in B : state[b] # "none"
  BY DEF Unrevoked, SessionsOf
<1>3. Over' = Over \cup B
  BY <1>2, RevokeEnds DEF IInv, OpenGrant
<1>4. phase[g] = "none" /\ phase' = [phase EXCEPT ![g] = "open"]
      /\ snapshot' = [snapshot EXCEPT ![g] = B]
  BY DEF OpenGrant
<1>5. /\ ~Pending(g) /\ Pending(g)' /\ snapshot'[g] = B
      /\ \A k \in Grant \ {g} : (Pending(k)' <=> Pending(k)) /\ snapshot'[k] = snapshot[k]
  BY <1>4 DEF Pending, IInv, TypeOK
<1>6. g \notin Asked /\ Asked' = Asked \cup {g}
  BY <1>5 DEF Asked
<1>7. Ends' = [Ends EXCEPT ![g] = B]
  BY <1>5 DEF Ends
<1>8. UNCHANGED SignedIn
  BY SignedInStays
<1>9. Logouts!Ask(g, u, B)
  BY <1>1, <1>3, <1>6, <1>7, <1>8 DEF Logouts!Ask
<1> QED
  BY <1>2, <1>9 DEF Logouts!Next

\* Completing a pending grant reports what it ended, once.
LEMMA CompleteStep ==
  ASSUME IInv, AInv, IInv', AInv', NEW p \in Handler, CompleteGrant(p)
  PROVE  Logouts!Next
<1>g. PICK g \in Grant : g = req[p].g
  BY RequestParts DEF IInv, CompleteGrant, At, Operands
<1>s. UNCHANGED <<disabled, owner, state, corr, rp, notice, swept>>
  BY DEF CompleteGrant, store, provider
<1>o. UNCHANGED <<Over, SignedIn>>
  BY <1>s, SessionsStay, SignedInStays
<1>1. CASE Pending(g) /\ phase' = [phase EXCEPT ![g] = "completed"]
           /\ ended' = ended \cup snapshot[g] /\ UNCHANGED contents
  <2>1. /\ ~Pending(g)' /\ UNCHANGED snapshot
        /\ \A k \in Grant \ {g} : (Pending(k)' <=> Pending(k))
    BY <1>1, <1>g DEF Pending, contents, IInv, TypeOK
  <2>2. g \in Asked /\ Asked' = Asked \ {g}
    BY <1>1, <1>g, <2>1 DEF Asked
  <2>3. Ends[g] = snapshot[g] /\ Ends' = [Ends EXCEPT ![g] = {}]
    BY <1>1, <1>g, <2>1 DEF Ends
  <2>4. SignedIn \cap Ends[g] = {}
    BY <1>1, <1>o, <2>3, SignedInIsAllowedNext
  <2>5. Logouts!Complete(g)
    BY <1>1, <1>s, <1>o, <2>2, <2>3, <2>4 DEF Logouts!Complete
  <2> QED
    BY <1>g, <2>5 DEF Logouts!Next
<1>2. CASE UNCHANGED <<grants, ended>>
  <2>1. UNCHANGED <<Asked, Ends>>
    BY <1>2, GrantsStay DEF grants, contents
  <2> QED
    BY <1>2, <1>s, <1>o, <2>1, BrowseStep
<1> QED
  BY <1>g, <1>1, <1>2 DEF CompleteGrant

\* A revocation that is reported: what it ended was ended before.
LEMMA ReportStep ==
  ASSUME IInv, AInv, IInv', AInv', NEW p \in Handler, FinishRevocation(p)
  PROVE  Logouts!Next
<1>1. UNCHANGED <<disabled, owner, state, corr, phase, snapshot>>
  BY DEF FinishRevocation, store, grants, contents
<1>2. UNCHANGED <<Over, Asked, Ends>>
  BY <1>1, SessionsStay, GrantsStay
<1>3. CASE ended' = ended \cup req[p].ends
  <2>1. req[p].ends \subseteq Over /\ req[p].ends \subseteq Browser
    BY RequestParts DEF IInv, EndingAreRevoked, Over
  <2>2. rp' = rp /\ notice' = notice /\ swept \subseteq swept'
    BY DEF FinishRevocation, DeleteSubjectSessions, DeleteSubjectLogins, provider, history
  <2>3. SignedIn' \subseteq SignedIn
    BY <1>1, <2>2 DEF SignedIn
  <2>4. SignedIn' \cap req[p].ends = {}
    BY <1>3, SignedInIsAllowedNext
  <2>5. Logouts!Report(req[p].ends)
    BY <1>1, <1>2, <1>3, <2>1, <2>3, <2>4 DEF Logouts!Report
  <2> QED
    BY <2>1, <2>5 DEF Logouts!Next
<1>4. CASE UNCHANGED ended
  BY <1>1, <1>2, <1>4, BrowseStep
<1> QED
  BY <1>3, <1>4 DEF FinishRevocation, history

\* POST /logout.
LEMMA LogoutStep ==
  ASSUME IInv, AInv, NEW p \in Handler, NEW b \in Browser, NEW g \in Grant, Logout(p, b, g)
  PROVE  Logouts!Next
<1> DEFINE u == owner[b]
           B == Unrevoked(u)
<1>u. u \in User
  BY DEF Logout, Current, IInv, TypeOK, OwnersMatch
<1>s. UNCHANGED <<disabled, owner, corr, rp, notice, swept>>
  BY DEF Logout, provider
<1>o. UNCHANGED SignedIn
  BY <1>s, SignedInStays
<1>1. CASE SidsOf(B) = {} /\ Revoke(B) /\ ended' = ended \cup B /\ UNCHANGED grants
  <2>1. B = Logouts!SessionsOf(u) \ Over
    BY <1>u DEF IInv, TypeOK, SessionState, OwnersMatch, Unrevoked, SessionsOf, Over,
                Logouts!SessionsOf
  <2>2. B \subseteq Browser /\ \A c \in B : state[c] # "none"
    BY DEF Unrevoked, SessionsOf
  <2> HIDE DEF u, B
  <2>3. Over' = Over \cup Logouts!SessionsOf(u)
    <3>1. Over' = Over \cup B
      BY <1>1, <2>2, RevokeEnds DEF IInv
    <3> QED
      BY <2>1, <3>1
  <2>4. UNCHANGED <<Asked, Ends>>
    BY <1>1, GrantsStay DEF grants, contents
  <2>5. SignedIn \cap B = {}
    BY <1>1 DEF SignedIn, SidsOf, IInv, TypeOK
  <2>6. Logouts!SignOut(u)
    BY <1>1, <1>s, <1>o, <2>1, <2>3, <2>4, <2>5 DEF Logouts!SignOut
  <2> QED
    BY <1>u, <2>6 DEF Logouts!Next
<1>2. CASE OpenGrant(g, u, B, SidsOf({b}), SidsOf(B)) /\ UNCHANGED ended
  BY <1>2, <1>u, <1>s, AskStep
<1> QED
  BY <1>1, <1>2 DEF Logout

\* Every step of the system is a step of SingleLogout, or only lets applications
\* come and go.
LEMMA LogoutsStep ==
  ASSUME IInv, AInv, IInv', AInv', [Next]_vars
  PROVE  Logouts!Next \/ UNCHANGED Logouts!vars
<1> USE DEF store, grants, contents, provider, history
<1>b. ASSUME UNCHANGED <<disabled, owner, state, phase, snapshot, ended>>
      PROVE  Logouts!Next
  BY <1>b, SessionsStay, GrantsStay, BrowseStep
\* A grant that is consumed is still pending, with what it ended.
<1>c. ASSUME NEW g \in Grant, Consumable(g), Consume(g),
             UNCHANGED <<disabled, owner, state, ended>>
      PROVE  Logouts!Next
  <2>1. UNCHANGED snapshot /\ \A k \in Grant : Pending(k)' <=> Pending(k)
    BY <1>c DEF Consumable, Consume, Pending, IInv, TypeOK
  <2>2. UNCHANGED <<Asked, Ends>>
    BY <2>1 DEF Asked, Ends
  <2> QED
    BY <1>c, <2>2, SessionsStay, BrowseStep
<1>1. ASSUME NEW p \in Handler, NEW u \in User, NEW prev \in Browser \cup {None},
             StartSession(p, u, prev)
      PROVE  Logouts!Next
  <2>1. CASE prev # None /\ Revoke({prev})
    <3>1. owner[prev] \in User /\ {prev} \in SUBSET SessionsOf(owner[prev])
      BY <1>1, <2>1 DEF StartSession, Current, IInv, TypeOK, OwnersMatch, SessionsOf
    <3> QED
      BY <1>1, <2>1, <3>1, EndStep DEF StartSession
  <2>2. CASE UNCHANGED state
    BY <1>1, <1>b, <2>2 DEF StartSession
  <2> QED
    BY <1>1, <2>1, <2>2 DEF StartSession
<1>2. ASSUME NEW p \in Handler, CreateSession(p) PROVE Logouts!Next
  <2>1. CASE UNCHANGED <<owner, state>>
    BY <1>2, <1>b, <2>1 DEF CreateSession
  <2>2. CASE ~UNCHANGED <<owner, state>>
    <3>1. req[p].u \in User /\ Enabled(req[p].u)
      BY <1>2, <2>2, RequestParts DEF CreateSession, At, Operands, IInv
    <3>2. PICK b \in Browser :
             /\ state[b] = "none"
             /\ owner' = [owner EXCEPT ![b] = req[p].u]
             /\ state' = [state EXCEPT ![b] = "active"]
      BY <1>2, <2>2 DEF CreateSession
    <3>3. UNCHANGED Over
      BY <3>2 DEF Over, IInv, TypeOK
    <3>4. UNCHANGED <<disabled, Asked, Ends, ended, SignedIn>>
      BY <1>2, GrantsStay, SignedInStays DEF CreateSession
    <3>5. Logouts!Open(b, req[p].u)
      BY <3>1, <3>2, <3>3, <3>4 DEF Logouts!Open, Enabled, IInv, OwnersMatch
    <3> QED
      BY <3>1, <3>5 DEF Logouts!Next
  <2> QED
    BY <2>1, <2>2
<1>3. ASSUME NEW p \in Handler, SignIn(p) PROVE Logouts!Next
  BY <1>3, <1>1, <1>2, <1>b
     DEF SignIn, HydraLogin, HydraConsent, RecordHydraLoginSession, RevalidateSession,
         ConfirmConsent, DropLoginSession
<1>4. ASSUME NEW p \in Handler, NEW h \in Sid, NEW g \in Grant, ProviderLogout(p, h, g)
      PROVE  Logouts!Next
  <2>1. subject[h] \in User
    BY <1>4 DEF ProviderLogout, IInv, AInv, TypeOK, Correlated, OwnersMatch
  <2> QED
    BY <1>4, <2>1, AskStep DEF ProviderLogout
<1>5. ASSUME NEW p \in Handler, ConsumeCreated(p) PROVE Logouts!Next
  <2>1. req[p].g \in Grant
    BY <1>5, RequestParts DEF ConsumeCreated, At, Operands, IInv
  <2> QED
    BY <1>5, <1>b, <1>c, <2>1 DEF ConsumeCreated
<1>6. ASSUME NEW p \in Handler, NEW g \in Grant, NEW h \in Sid \cup {None}, HydraLogout(p, g, h)
      PROVE  Logouts!Next
  BY <1>6, <1>c DEF HydraLogout
<1>7. ASSUME NEW p \in Handler, SignOut(p) PROVE Logouts!Next
  BY <1>7, <1>4, <1>5, <1>6, <1>b, LogoutStep DEF SignOut, AcceptLogout, ClaimConsumed, Lease
\* Recovery revokes again what the grant revoked when it was opened.
<1>8. ASSUME NEW p \in Handler, RevokeSessions(p) PROVE Logouts!Next
  <2>1. CASE Revoke(snapshot[req[p].g])
    <3>1. req[p].g \in Grant
      BY <1>8, RequestParts DEF RevokeSessions, At, Operands, IInv
    <3>2. UNCHANGED state
      BY <2>1, <3>1 DEF Revoke, IInv, TypeOK, EndedAreRevoked
    <3> QED
      BY <1>8, <1>b, <3>2 DEF RevokeSessions
  <2>2. CASE UNCHANGED state
    BY <1>8, <1>b, <2>2 DEF RevokeSessions
  <2> QED
    BY <1>8, <2>1, <2>2 DEF RevokeSessions
<1>9. ASSUME NEW p \in Handler, Recover(p) PROVE Logouts!Next
  BY <1>9, <1>8, <1>b, CompleteStep
     DEF Recover, ClaimAbandoned, ScheduleRecovery, RevokeProviderSession, Lease
<1>10. ASSUME NEW p \in Handler, NEW b \in Browser, RevokeSession(p, b) PROVE Logouts!Next
  <2>1. owner[b] \in User /\ {b} \in SUBSET SessionsOf(owner[b])
    BY <1>10 DEF RevokeSession, IInv, TypeOK, OwnersMatch, SessionsOf
  <2> QED
    BY <1>10, <2>1, EndStep DEF RevokeSession
<1>11. ASSUME NEW p \in Handler, NEW u \in User, RevokeUserSessions(p, u) PROVE Logouts!Next
  BY <1>11, EndStep DEF RevokeUserSessions
<1>12. ASSUME NEW p \in Handler, NEW u \in User, DisableUser(p, u) PROVE Logouts!Next
  <2>1. SessionsOf(u) \subseteq Browser /\ \A b \in SessionsOf(u) : state[b] # "none"
    BY DEF SessionsOf, IInv, OwnersMatch
  <2>2. Over' = Over \cup SessionsOf(u)
    BY <1>12, <2>1, RevokeEnds DEF DisableUser, IInv
  <2>3. SessionsOf(u) = Logouts!SessionsOf(u)
    BY DEF SessionsOf, Logouts!SessionsOf
  <2>4. UNCHANGED <<Asked, Ends, SignedIn>>
    BY <1>12, GrantsStay, SignedInStays DEF DisableUser
  <2>5. Logouts!Disable(u)
    BY <1>12, <2>2, <2>3, <2>4 DEF DisableUser, Logouts!Disable
  <2> QED
    BY <2>5 DEF Logouts!Next
<1>13. ASSUME NEW p \in Handler, Administer(p) PROVE Logouts!Next
  BY <1>13, <1>10, <1>11, <1>12, <1>b, ReportStep DEF Administer, ListProviderSessions
<1>14. ASSUME NEW b \in Browser, AgeSession(b) PROVE Logouts!Next
  <2>1. UNCHANGED Over
    BY <1>14 DEF AgeSession, Over, IInv, TypeOK
  <2> QED
    BY <1>14, <2>1, GrantsStay, BrowseStep DEF AgeSession
<1>15. ASSUME NEW u \in User, EnableUser(u) PROVE Logouts!Next
  <2>1. UNCHANGED <<Over, Asked, Ends, SignedIn>>
    BY <1>15, SessionsStay, GrantsStay, SignedInStays DEF EnableUser
  <2>2. Logouts!Enable(u)
    BY <1>15, <2>1 DEF EnableUser, Logouts!Enable
  <2> QED
    BY <2>2 DEF Logouts!Next
<1>16. ASSUME NEW g \in Grant, DeleteCompleted(g) PROVE Logouts!Next
  <2>1. \A k \in Grant : /\ Pending(k)' <=> Pending(k)
                         /\ Pending(k) => snapshot'[k] = snapshot[k]
    BY <1>16 DEF DeleteCompleted, Pending, IInv, TypeOK
  <2>2. UNCHANGED <<Asked, Ends>>
    BY <2>1 DEF Asked, Ends
  <2> QED
    BY <1>16, <2>2, SessionsStay, BrowseStep DEF DeleteCompleted
<1>17. CASE Environment
  BY <1>17, <1>14, <1>15, <1>16, <1>b
     DEF Environment, ConfirmLogin, HydraTokenHook, EstablishSession, DeliverLogout,
         ExpireGrant, CleanupDue, ExpireLease
<1>18. ASSUME NEW p \in Handler, Crash(p) PROVE Logouts!Next
  BY <1>18, <1>b DEF Crash
<1>19. CASE UNCHANGED vars
  BY <1>19, <1>b DEF vars
<1> QED
  BY <1>3, <1>7, <1>9, <1>13, <1>17, <1>18, <1>19 DEF Next

\* Shauth's logout, with its handlers, grants, retries and recoveries, and with
\* failures and sign-ins anywhere, is the logout of SingleLogout (logout,
\* hydraLogout, RecoverAbandonedLogout, revokeSession, revokeUserSessions,
\* disableUser).
THEOREM GlobalLogoutIsOneLogout == Spec => LogsOutAsOne
<1>1. Init => Logouts!Init
  <2> SUFFICES ASSUME Init PROVE Logouts!Init
    OBVIOUS
  <2>1. Over = {} /\ Asked = {} /\ SignedIn = {} /\ Ends = [g \in Grant |-> {}]
    BY DEF Init, Over, Asked, Ends, Pending, SignedIn
  <2> QED
    BY <2>1 DEF Init, Logouts!Init
<1>2. IInv /\ AInv /\ (IInv /\ AInv)' /\ [Next]_vars => [Logouts!Next]_Logouts!vars
  BY LogoutsStep
<1> QED
  BY <1>1, <1>2, Invariance, AccountInvariance, PTL DEF Spec, LogsOutAsOne, Logouts!Spec
=============================================================================
