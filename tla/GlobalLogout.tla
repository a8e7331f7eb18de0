---------------------------- MODULE GlobalLogout ----------------------------
(***************************************************************************)
(* Sign-in, provider-session correlation and global logout of Shauth.      *)
(*                                                                         *)
(* PostgreSQL holds the accounts, the browser sessions, the correlation of *)
(* Ory Hydra login sessions (named by their sid) with browser sessions,    *)
(* and the durable logout grants.  Every store method that locks the user  *)
(* row is one transaction and one step here; every call to Hydra's admin   *)
(* API is a step of its own, which may fail; a request handler is a        *)
(* process that may die between two of its steps.  Hydra and the           *)
(* applications behind it are external: Hydra is what the calls of         *)
(* internal/app make of it, and an application keeps, like Shauth's own    *)
(* gateway, a tombstone of each sid it was told to log out.                *)
(*                                                                         *)
(* An operator X_Y is X with the slip Y, a plausible mistake in the code:  *)
(* nothing uses it, and put in X's place it must break a property.         *)
(***************************************************************************)
EXTENDS Naturals, FiniteSets

CONSTANTS User,     \* accounts
          Browser,  \* identifiers of browser sessions (the bound on sign-ins)
          Sid,      \* identifiers of Hydra login sessions
          Grant,    \* rows of logout_correlation_grants held at once
          Handler,  \* requests and recovery ticks in flight at once
          None,     \* no account, session, sid or grant
          Faulty    \* may provider and database calls fail, and handlers die?

ASSUME NoneIsNoIdentifier == None \notin User \cup Browser \cup Sid \cup Grant
ASSUME FaultyIsBoolean == Faulty \in BOOLEAN

VARIABLES
  disabled,  \* accounts with disabled_at set
  owner,     \* user_id of a browser session
  state,     \* of a browser session: aged = unrevoked but expired or idle
  corr,      \* hydra_login_sessions: the browser session a sid belongs to
  phase,     \* logout_correlation_grants: open, consumed, completed
  snapshot,  \* of a grant: the browser sessions it ended
  sids,      \* of a grant: the provider sessions it has to end
  own,       \* of a grant: those of the browser that asked
  holder,    \* of a grant: its account
  expired,   \* open grants past the two minutes of their cookie
  due,       \* grants past their cleanup time
  leased,    \* grants some handler claimed less than thirty seconds ago
  req,       \* what each handler still has to do
  hydra,     \* Hydra: a sid was never confirmed, is live, or was deleted
  subject,   \* Hydra: the account a login request was accepted for
  redirect,  \* sids whose accepted login the browser has yet to follow
  consent,   \* Hydra: live sids under which a consent was granted
  issued,    \* sids with an authorization code or refresh token outstanding
  approved,  \* sids whose token the hook approved, not yet at the application
  rp,        \* sids with a session at an application
  notice,    \* sids whose back-channel logout is under way
  tomb,      \* sids the application was told to log out
  ended,     \* history: browser sessions some operation reported as ended
  swept      \* history: consented sids deleted with their subject, unannounced

store == <<disabled, owner, state, corr>>
contents == <<snapshot, sids, own, holder>>
grants == <<phase, contents, expired, due, leased>>
provider == <<hydra, subject, redirect, consent, issued, approved, rp, notice, tomb>>
history == <<ended, swept>>
vars == <<store, grants, req, provider, history>>

SessionState == {"none", "active", "aged", "revoked"}
GrantState == {"none", "open", "consumed", "completed"}
Step == {"idle", "create", "login", "consent", "follow", "drop", "list",
         "revoke", "consume", "public", "local", "final", "fail"}

(* A handler's request: its next step and what that step works on. *)
Work(step, b, h, g, u, next, todo, ends) ==
  [step |-> step, b |-> b, h |-> h, g |-> g, u |-> u, next |-> next,
   todo |-> todo, ends |-> ends]

Request == [step : Step, b : Browser \cup {None}, h : Sid \cup {None},
            g : Grant \cup {None}, u : User \cup {None},
            next : User \cup {None}, todo : SUBSET Sid, ends : SUBSET Browser]

Idle == Work("idle", None, None, None, None, None, {}, {})
Create(u) == Work("create", None, None, None, u, None, {}, {})
Provider(step, b, h) == Work(step, b, h, None, None, None, {}, {})
OnGrant(step, g, h, todo) == Work(step, None, h, g, None, None, todo, {})
\* End the sessions "ends", of account u or (u = None) one by one; then sign
\* account "next" in, if any.
Ending(step, u, next, todo, ends) ==
  Work(step, None, None, None, u, next, todo, ends)

-----------------------------------------------------------------------------
(* What the store's queries select. *)

\* lockActiveUser: the account exists and is not disabled.
Enabled_Unchecked(u) == u \in User
Enabled(u) == u \notin disabled

\* CurrentUser: an unrevoked, unexpired, recently used session of an enabled account.
Current(b) == state[b] = "active" /\ Enabled(owner[b])

SessionsOf(u) == {b \in Browser : owner[b] = u}

\* sessions WHERE user_id=$1 AND revoked_at IS NULL: expired and idle ones too.
Unrevoked_Unexpired(u) == {b \in SessionsOf(u) : state[b] = "active"}
Unrevoked(u) == {b \in SessionsOf(u) : state[b] \in {"active", "aged"}}

SidsOf(B) == {h \in Sid : corr[h] \in B}

\* UPDATE sessions SET revoked_at WHERE id = ANY(B) AND revoked_at IS NULL.
Revoke(B) == state' = [b \in Browser |-> IF b \in B /\ state[b] # "none"
                                         THEN "revoked" ELSE state[b]]

Pending(g) == phase[g] \in {"open", "consumed"}

At(p, step) == req[p].step = step
Goto(p, r) == req' = [req EXCEPT ![p] = r]
Finish(p) == Goto(p, Idle)

\* revokeOtherHydraSessions returned: every sid on the list was deleted.
AllRevoked_Early(p) == TRUE
AllRevoked(p) == req[p].todo = {}

\* A step that ends an account switch goes on to create the new session.
Continue_Swapped(p) == Goto(p, IF req[p].next = None THEN Idle ELSE Create(req[p].u))
Continue(p) == Goto(p, IF req[p].next = None THEN Idle ELSE Create(req[p].next))

-----------------------------------------------------------------------------
(* Hydra's admin API, as the code uses it. *)

\* DELETE sessions/login?sid=h: a live session ends and its applications are
\* told; an unknown one answers 404, which counts as revoked.
DeleteLoginSession(h) ==
  /\ hydra' = [hydra EXCEPT ![h] = IF @ = "live" THEN "ended" ELSE @]
  /\ notice' = notice \cup ({h} \cap consent)
  /\ consent' = consent \ {h}
  /\ UNCHANGED <<subject, redirect, issued, approved, rp, tomb>>

\* DELETE sessions/login?subject=u: every live session of the subject ends, and
\* no application is told.
DeleteSubjectLogins(u) ==
  LET gone == {h \in Sid : subject[h] = u /\ hydra[h] = "live"}
  IN  /\ hydra' = [h \in Sid |-> IF h \in gone THEN "ended" ELSE hydra[h]]
      /\ consent' = consent \ gone
      /\ swept' = swept \cup (gone \cap consent)
      /\ UNCHANGED <<subject, redirect, approved, rp, notice, tomb>>

\* revokeHydraSubjectSessions: that, and then DELETE sessions/consent?subject=u,
\* which takes the codes and tokens of the subject's consents.
DeleteSubjectSessions(u) ==
  DeleteSubjectLogins(u) /\ issued' = {h \in issued : subject[h] # u}

-----------------------------------------------------------------------------
(* Sign-in. *)

\* startSession: the browser's previous session is replaced.  Re-authenticating
\* revokes it locally and leaves its provider sessions; switching accounts ends
\* those too; a failing revocation is logged and the sign-in goes on.
StartSession(p, u, prev) ==
  /\ At(p, "idle")
  /\ prev # None => Current(prev)
  /\ \/ /\ prev = None \/ Faulty
        /\ Goto(p, Create(u))
        /\ UNCHANGED state
     \/ /\ prev # None /\ owner[prev] = u
        /\ Revoke({prev})
        /\ Goto(p, Create(u))
     \/ /\ prev # None /\ owner[prev] # u
        /\ Revoke({prev})
        /\ Goto(p, Ending("list", None, u, {}, {prev}))
  /\ UNCHANGED <<disabled, owner, corr, grants, provider, history>>

\* CreateSession: refused for an account disabled in the meantime.
CreateSession(p) ==
  /\ At(p, "create")
  /\ \/ /\ Enabled(req[p].u)
        /\ \E b \in Browser :
             /\ state[b] = "none"
             /\ owner' = [owner EXCEPT ![b] = req[p].u]
             /\ state' = [state EXCEPT ![b] = "active"]
     \/ UNCHANGED <<owner, state>>
  /\ Finish(p)
  /\ UNCHANGED <<disabled, corr, grants, provider, history>>

\* A session passes its idle or absolute limit.
AgeSession(b) ==
  /\ state[b] = "active"
  /\ state' = [state EXCEPT ![b] = "aged"]
  /\ UNCHANGED <<disabled, owner, corr, grants, req, provider, history>>

\* hydraLoginRequest: a remembered provider session of another account is
\* refused.  An application that demands a fresh sign-in sends the person to
\* startSession first.
LoginFits(b, h) == hydra[h] = "new" \/ subject[h] = owner[b]

\* hydraAccept: a new sid takes the account that accepts it.
AcceptLogin(b, h) == subject' = [subject EXCEPT ![h] = owner[b]]

\* hydraLogin up to the accepted login request.
HydraLogin(p, b, h) ==
  /\ At(p, "idle")
  /\ Current(b)
  /\ LoginFits(b, h)
  /\ AcceptLogin(b, h)
  /\ Goto(p, Provider("login", b, h))
  /\ UNCHANGED <<store, grants, hydra, redirect, consent, issued, approved, rp,
                 notice, tomb, history>>

\* RecordHydraLoginSession: under the user lock the browser session must still
\* be active; a sid correlated already may only move from a stale session of
\* the same account.
Recordable_Unlocked(b, h) ==
  corr[h] \notin {None, b} =>
    owner[corr[h]] = owner[b] /\ state[corr[h]] \in {"aged", "revoked"}
Recordable(b, h) ==
  /\ Current(b)
  /\ corr[h] \notin {None, b} =>
       owner[corr[h]] = owner[b] /\ state[corr[h]] \in {"aged", "revoked"}

RecordHydraLoginSession(p) ==
  LET b == req[p].b
      h == req[p].h
  IN  /\ At(p, "login")
      /\ \/ /\ Recordable(b, h)
            /\ corr' = [corr EXCEPT ![h] = b]
            /\ redirect' = redirect \cup {h}
            /\ Finish(p)
         \/ /\ ~Recordable(b, h) \/ Faulty
            /\ Goto(p, Provider("drop", None, h))
            /\ UNCHANGED <<corr, redirect>>
      /\ UNCHANGED <<disabled, owner, state, grants, hydra, subject, consent,
                     issued, approved, rp, notice, tomb, history>>

\* The fence's cleanup: the provider session accepted for a browser session
\* that ended meanwhile is deleted; a failure is only logged.
DropLoginSession(p) ==
  /\ At(p, "drop")
  /\ \/ DeleteLoginSession(req[p].h)
     \/ Faulty /\ UNCHANGED provider
  /\ Finish(p)
  /\ UNCHANGED <<store, grants, history>>

\* Hydra: the browser follows the accepted login's redirect, however late.
ConfirmLogin(h) ==
  /\ h \in redirect
  /\ redirect' = redirect \ {h}
  /\ hydra' = [hydra EXCEPT ![h] = "live"]
  /\ UNCHANGED <<store, grants, req, subject, consent, issued, approved, rp,
                 notice, tomb, history>>

\* hydraConsentRequest: the consent Hydra asks for is this account's.
ConsentFits(b, h) == hydra[h] = "live" /\ subject[h] = owner[b]

\* hydraConsent and hydraConsentAccept up to the accepted consent.
HydraConsent(p, b, h) ==
  /\ At(p, "idle")
  /\ Current(b)
  /\ ConsentFits(b, h)
  /\ Goto(p, Provider("consent", b, h))
  /\ UNCHANGED <<store, grants, provider, history>>

\* RevalidateSession: the browser session must have survived the consent call;
\* only then the browser gets the redirect, and otherwise the login session goes.
RevalidateSession(p) ==
  LET b == req[p].b
      h == req[p].h
  IN  /\ At(p, "consent")
      /\ \/ Current(b) /\ Goto(p, Provider("follow", None, h))
         \/ (~Current(b) \/ Faulty) /\ Goto(p, Provider("drop", None, h))
      /\ UNCHANGED <<store, grants, provider, history>>

\* Hydra: the browser follows the accepted consent's redirect, however late, or
\* never does; if the login session is still there a code is issued.
ConfirmConsent(p) ==
  LET h == req[p].h
  IN  /\ At(p, "follow")
      /\ \/ /\ hydra[h] = "live"
            /\ consent' = consent \cup {h}
            /\ issued' = issued \cup {h}
         \/ UNCHANGED <<consent, issued>>
      /\ Finish(p)
      /\ UNCHANGED <<store, grants, hydra, subject, redirect, approved, rp,
                     notice, tomb, history>>

\* hydraTokenHook: a token is issued only under a sid whose browser session is
\* not revoked and belongs to the token's enabled subject; age does not matter.
TokenAllowed_Revoked(h) ==
  corr[h] # None /\ owner[corr[h]] = subject[h] /\ Enabled(subject[h])
TokenAllowed_AnyOwner(h) ==
  corr[h] # None /\ state[corr[h]] # "revoked" /\ Enabled(subject[h])
TokenAllowed(h) ==
  /\ corr[h] # None /\ state[corr[h]] # "revoked"
  /\ owner[corr[h]] = subject[h] /\ Enabled(subject[h])

HydraTokenHook(h) ==
  /\ h \in issued
  /\ TokenAllowed(h)
  /\ issued' = issued \ {h}
  /\ approved' = approved \cup {h}
  /\ UNCHANGED <<store, grants, req, hydra, subject, redirect, consent, rp,
                 notice, tomb, history>>

\* The application turns the token into a session, unless it was told before
\* to log this sid out.
EstablishSession(h) ==
  /\ h \in approved
  /\ approved' = approved \ {h}
  /\ rp' = IF h \in tomb THEN rp ELSE rp \cup {h}
  /\ UNCHANGED <<store, grants, req, hydra, subject, redirect, consent, issued,
                 notice, tomb, history>>

\* The application receives Hydra's back-channel logout.
DeliverLogout(h) ==
  /\ h \in notice
  /\ notice' = notice \ {h}
  /\ rp' = rp \ {h}
  /\ tomb' = tomb \cup {h}
  /\ UNCHANGED <<store, grants, req, hydra, subject, redirect, consent, issued,
                 approved, history>>

-----------------------------------------------------------------------------
(* Logout. *)

\* CreateLogoutCorrelationGrant's insert: the snapshot is stored and its browser
\* sessions are revoked in the same transaction.
OpenGrant(g, u, browsers, mine, all) ==
  /\ phase[g] = "none"
  /\ phase' = [phase EXCEPT ![g] = "open"]
  /\ snapshot' = [snapshot EXCEPT ![g] = browsers]
  /\ sids' = [sids EXCEPT ![g] = all]
  /\ own' = [own EXCEPT ![g] = mine]
  /\ holder' = [holder EXCEPT ![g] = u]
  /\ Revoke(browsers)
  /\ UNCHANGED <<expired, due, leased>>

\* POST /logout (logout, CreateLogoutCorrelationGrant): every unrevoked session
\* of the account ends.  Without provider sessions that is all; without a
\* provider session of this browser the handler finishes the logout itself;
\* otherwise the browser is sent through Hydra with the grant's cookie.
Logout(p, b, g) ==
  LET browsers == Unrevoked(owner[b])
      mine == SidsOf({b})
      all == SidsOf(browsers)
  IN  /\ At(p, "idle")
      /\ Current(b)
      /\ \/ /\ all = {}
            /\ Revoke(browsers)
            /\ ended' = ended \cup browsers
            /\ UNCHANGED <<grants, req>>
         \/ /\ all # {}
            /\ OpenGrant(g, owner[b], browsers, mine, all)
            /\ IF mine = {} THEN Goto(p, OnGrant("final", g, None, all))
                            ELSE UNCHANGED req
            /\ UNCHANGED ended
      /\ UNCHANGED <<disabled, owner, corr, provider, swept>>

\* hydraLogoutWithoutBrowserCookie: an application starts the logout of sid h.
\* A sid whose browser session was revoked before ends alone.
ProviderLogout(p, h, g) ==
  LET b == corr[h]
      browsers == Unrevoked(subject[h])
  IN  /\ At(p, "idle")
      /\ hydra[h] # "new"
      /\ b # None /\ owner[b] = subject[h]
      /\ Enabled(subject[h])
      /\ IF state[b] = "revoked"
         THEN OpenGrant(g, subject[h], {}, {h}, {h})
         ELSE OpenGrant(g, subject[h], browsers, SidsOf({b}), SidsOf(browsers))
      /\ Goto(p, OnGrant("consume", g, h, {}))
      /\ UNCHANGED <<disabled, owner, corr, provider, history>>

\* ConsumeLogoutCorrelationGrant: once, while unexpired; the browser then has
\* five minutes before recovery takes over.
Consumable(g) == phase[g] = "open" /\ g \notin expired
Consume(g) ==
  /\ phase' = [phase EXCEPT ![g] = "consumed"]
  /\ due' = due \ {g}
  /\ UNCHANGED <<contents, expired, leased>>

\* completeLogout begins: every sid but the one Hydra's own flow is ending.
Public(g, h, keep) == OnGrant("public", g, h, sids[g] \ keep)

ConsumeCreated(p) ==
  LET g == req[p].g
      h == req[p].h
  IN  /\ At(p, "consume")
      /\ \/ Consumable(g) /\ Consume(g) /\ Goto(p, Public(g, h, {h}))
         \/ (~Consumable(g) \/ Faulty) /\ Finish(p) /\ UNCHANGED grants
      /\ UNCHANGED <<store, provider, history>>

\* hydraLogoutRequest: the sid h of Hydra's logout request, or None, is of the
\* grant's account.
LogoutFits(g, h) == h # None => subject[h] = holder[g]

\* rejectMismatchedLogout: the grant is left to recovery, and Hydra's request,
\* with the sid it names, to itself.
RejectLogout(p, g) == Goto(p, OnGrant("fail", g, None, {}))

\* hydraLogout with the cookie that only a browser with provider sessions gets.
\* A sid that is not this browser's is refused.
HydraLogout(p, g, h) ==
  /\ At(p, "idle")
  /\ Consumable(g) /\ own[g] # {}
  /\ LogoutFits(g, h)
  /\ Consume(g)
  /\ CASE h = None -> Goto(p, Public(g, None, own[g]))
       [] h \in own[g] -> Goto(p, Public(g, h, {h}))
       [] OTHER -> RejectLogout(p, g)
  /\ UNCHANGED <<store, provider, history>>

\* hydraAcceptLogout: Hydra ends the preserved sid when the browser follows its
\* redirect, which it may never do.
AcceptLogout(p) ==
  /\ At(p, "public") /\ AllRevoked(p)
  /\ \/ UNCHANGED provider /\ Finish(p)
     \/ req[p].h # None /\ DeleteLoginSession(req[p].h) /\ Finish(p)
     \/ Faulty /\ UNCHANGED provider
        /\ Goto(p, OnGrant("fail", req[p].g, None, {}))
  /\ UNCHANGED <<store, grants, history>>

Lease(g) == leased' = leased \cup {g} /\ UNCHANGED <<phase, contents, expired, due>>

\* logoutComplete: the browser came back with the completion cookie.
ClaimConsumed(p, g) ==
  /\ At(p, "idle")
  /\ phase[g] = "consumed" /\ g \notin leased
  /\ Lease(g)
  /\ Goto(p, OnGrant("final", g, None, sids[g]))
  /\ UNCHANGED <<store, provider, history>>

\* ClaimAbandonedLogoutCorrelationGrant: one whose cleanup time came, consumed
\* or not.
Abandoned_ConsumedOnly(g) == phase[g] = "consumed" /\ g \in due \ leased
Abandoned(g) == Pending(g) /\ g \in due \ leased

ClaimAbandoned(p, g) ==
  /\ At(p, "idle")
  /\ Abandoned(g)
  /\ Lease(g)
  /\ Goto(p, OnGrant("local", g, None, {}))
  /\ UNCHANGED <<store, provider, history>>

\* RecoverAbandonedLogout's RevokeSessions: only the sessions of the snapshot.
RevokeSessions(p) ==
  LET g == req[p].g
  IN  /\ At(p, "local")
      /\ \/ /\ Revoke(snapshot[g])
            /\ Goto(p, OnGrant("final", g, None, sids[g]))
         \/ /\ Faulty
            /\ Goto(p, OnGrant("fail", g, None, {}))
            /\ UNCHANGED state
      /\ UNCHANGED <<disabled, owner, corr, grants, provider, history>>

\* revokeOtherHydraSessions: one deletion of the pool; the first failure stops
\* the pool and sends the handler down its error path.
RevokeProviderSession(p, h) ==
  /\ req[p].step \in {"public", "final", "revoke"}
  /\ h \in req[p].todo
  /\ \/ /\ DeleteLoginSession(h)
        /\ Goto(p, Work(req[p].step, req[p].b, req[p].h, req[p].g, req[p].u,
                        req[p].next, req[p].todo \ {h}, req[p].ends))
     \/ /\ Faulty
        /\ IF At(p, "revoke") THEN Continue(p)
           ELSE Goto(p, OnGrant("fail", req[p].g, None, {}))
        /\ UNCHANGED provider
  /\ UNCHANGED <<store, grants, history>>

\* finalizeProviderLogout's CompleteLogoutCorrelationGrant: once only.
CompleteGrant(p) ==
  LET g == req[p].g
  IN  /\ At(p, "final") /\ AllRevoked(p)
      /\ \/ /\ Pending(g)
            /\ phase' = [phase EXCEPT ![g] = "completed"]
            /\ expired' = expired \ {g} /\ due' = due \ {g} /\ leased' = leased \ {g}
            /\ ended' = ended \cup snapshot[g]
            /\ UNCHANGED contents
            /\ Finish(p)
         \/ /\ ~Pending(g) \/ Faulty
            /\ Goto(p, OnGrant("fail", g, None, {}))
            /\ UNCHANGED <<grants, ended>>
      /\ UNCHANGED <<store, provider, swept>>

\* scheduleLogoutRecovery, FailLogoutCorrelationGrant: a completed grant stays.
ScheduleRecovery(p) ==
  LET g == req[p].g
  IN  /\ At(p, "fail")
      /\ \/ /\ Pending(g)
            /\ due' = due \ {g} /\ leased' = leased \ {g}
            /\ UNCHANGED <<phase, contents, expired>>
         \/ (~Pending(g) \/ Faulty) /\ UNCHANGED grants
      /\ Finish(p)
      /\ UNCHANGED <<store, provider, history>>

\* Time: two minutes for the cookie, the cleanup time, the thirty-second lease.
ExpireGrant(g) ==
  /\ phase[g] = "open" /\ g \notin expired
  /\ expired' = expired \cup {g} /\ due' = due \cup {g}
  /\ UNCHANGED <<store, phase, contents, leased, req, provider, history>>

\* An open grant is due when it expires, or at the retry its handler scheduled.
CleanupDue(g) ==
  /\ Pending(g) /\ g \notin due
  /\ phase[g] = "consumed" \/ g \in expired \/ own[g] = {}
  /\ due' = due \cup {g}
  /\ UNCHANGED <<store, phase, contents, expired, leased, req, provider, history>>

ExpireLease(g) ==
  /\ g \in leased
  /\ leased' = leased \ {g}
  /\ UNCHANGED <<store, phase, contents, expired, due, req, provider, history>>

\* DeleteCompletedLogoutCorrelationGrants, a day later: no handler is left.
DeleteCompleted(g) ==
  /\ phase[g] = "completed"
  /\ \A p \in Handler : req[p].g # g
  /\ phase' = [phase EXCEPT ![g] = "none"]
  /\ snapshot' = [snapshot EXCEPT ![g] = {}]
  /\ sids' = [sids EXCEPT ![g] = {}]
  /\ own' = [own EXCEPT ![g] = {}]
  /\ holder' = [holder EXCEPT ![g] = None]
  /\ UNCHANGED <<store, expired, due, leased, req, provider, history>>

-----------------------------------------------------------------------------
(* Administration. *)

\* revokeSession: the browser session first, its provider sessions after; one
\* that was revoked before has its provider sessions revoked again.
RevokeSession(p, b) ==
  /\ At(p, "idle")
  /\ state[b] # "none"
  /\ Revoke({b})
  /\ Goto(p, Ending("list", None, None, {}, {b}))
  /\ UNCHANGED <<disabled, owner, corr, grants, provider, history>>

\* revokeUserSessions: also where a logout that cannot create its grant ends.
RevokeUserSessions(p, u) ==
  /\ At(p, "idle")
  /\ Enabled(u)
  /\ Revoke(SessionsOf(u))
  /\ Goto(p, Ending("list", u, None, {}, SessionsOf(u)))
  /\ UNCHANGED <<disabled, owner, corr, grants, provider, history>>

\* HydraLoginSessionIDs of one session, UserHydraLoginSessionIDs of an account:
\* read after the local revocation committed.
ListProviderSessions(p) ==
  /\ At(p, "list")
  /\ \/ Goto(p, Ending("revoke", req[p].u, req[p].next,
                        SidsOf(IF req[p].u = None THEN req[p].ends
                               ELSE SessionsOf(req[p].u)), req[p].ends))
     \/ Faulty /\ Continue(p)
  /\ UNCHANGED <<store, grants, provider, history>>

\* DisableUser: sessions, snapshot of every sid the account ever had, and the
\* account itself in one transaction; repeating it is allowed.
DisableUser(p, u) ==
  /\ At(p, "idle")
  /\ disabled' = disabled \cup {u}
  /\ Revoke(SessionsOf(u))
  /\ Goto(p, Ending("revoke", u, None, SidsOf(SessionsOf(u)), SessionsOf(u)))
  /\ UNCHANGED <<owner, corr, grants, provider, history>>

EnableUser(u) ==
  /\ u \in disabled
  /\ disabled' = disabled \ {u}
  /\ UNCHANGED <<owner, state, corr, grants, req, provider, history>>

\* The pool is done.  An account's operation goes on to revokeHydraSubjectSessions,
\* of which the first deletion may fail, or the second.
FinishRevocation(p) ==
  /\ At(p, "revoke") /\ AllRevoked(p)
  /\ \/ /\ req[p].u = None
        /\ ended' = ended \cup req[p].ends
        /\ UNCHANGED <<provider, swept>>
     \/ /\ req[p].u # None
        /\ DeleteSubjectSessions(req[p].u)
        /\ ended' = ended \cup req[p].ends
     \/ /\ req[p].u # None /\ Faulty
        /\ \/ UNCHANGED <<provider, swept>>
           \/ DeleteSubjectLogins(req[p].u) /\ UNCHANGED issued
        /\ UNCHANGED ended
  /\ Continue(p)
  /\ UNCHANGED <<store, grants>>

\* The process dies, or the request's context is cancelled: the pool may then
\* return with sids unsent and no error, but whatever the handler calls next with
\* that context fails, and nobody gets its answer.
Crash(p) ==
  /\ Faulty
  /\ ~At(p, "idle")
  /\ Finish(p)
  /\ UNCHANGED <<store, grants, provider, history>>

-----------------------------------------------------------------------------
Init ==
  /\ disabled = {}
  /\ owner = [b \in Browser |-> None]
  /\ state = [b \in Browser |-> "none"]
  /\ corr = [h \in Sid |-> None]
  /\ phase = [g \in Grant |-> "none"] /\ holder = [g \in Grant |-> None]
  /\ snapshot = [g \in Grant |-> {}]
  /\ sids = [g \in Grant |-> {}] /\ own = [g \in Grant |-> {}]
  /\ expired = {} /\ due = {} /\ leased = {}
  /\ req = [p \in Handler |-> Idle]
  /\ hydra = [h \in Sid |-> "new"]
  /\ subject = [h \in Sid |-> None]
  /\ redirect = {} /\ consent = {} /\ issued = {} /\ approved = {}
  /\ rp = {} /\ notice = {} /\ tomb = {}
  /\ ended = {} /\ swept = {}

SignIn(p) ==
  \/ \E u \in User, prev \in Browser \cup {None} : StartSession(p, u, prev)
  \/ CreateSession(p)
  \/ \E b \in Browser, h \in Sid : HydraLogin(p, b, h) \/ HydraConsent(p, b, h)
  \/ RecordHydraLoginSession(p) \/ RevalidateSession(p) \/ ConfirmConsent(p)
  \/ DropLoginSession(p)

SignOut(p) ==
  \/ \E b \in Browser, g \in Grant : Logout(p, b, g)
  \/ \E h \in Sid, g \in Grant : ProviderLogout(p, h, g)
  \/ ConsumeCreated(p)
  \/ \E g \in Grant, h \in Sid \cup {None} : HydraLogout(p, g, h)
  \/ AcceptLogout(p)
  \/ \E g \in Grant : ClaimConsumed(p, g)

Recover(p) ==
  \/ \E g \in Grant : ClaimAbandoned(p, g)
  \/ RevokeSessions(p) \/ CompleteGrant(p) \/ ScheduleRecovery(p)
  \/ \E h \in Sid : RevokeProviderSession(p, h)

Administer(p) ==
  \/ \E b \in Browser : RevokeSession(p, b)
  \/ \E u \in User : RevokeUserSessions(p, u) \/ DisableUser(p, u)
  \/ ListProviderSessions(p) \/ FinishRevocation(p)

Environment ==
  \/ \E b \in Browser : AgeSession(b)
  \/ \E u \in User : EnableUser(u)
  \/ \E h \in Sid : \/ ConfirmLogin(h) \/ HydraTokenHook(h)
                    \/ EstablishSession(h) \/ DeliverLogout(h)
  \/ \E g \in Grant : \/ ExpireGrant(g) \/ CleanupDue(g)
                      \/ ExpireLease(g) \/ DeleteCompleted(g)

Next ==
  \/ \E p \in Handler : \/ SignIn(p) \/ SignOut(p) \/ Recover(p)
                        \/ Administer(p) \/ Crash(p)
  \/ Environment

Spec == Init /\ [][Next]_vars

-----------------------------------------------------------------------------
(* Properties. *)

\* A handler has at hand what its next step works on.
Operands(r) ==
  /\ r.step \in {"consume", "public", "local", "final", "fail"} => r.g \in Grant
  /\ r.step \in {"login", "consent", "follow", "drop"} => r.h \in Sid
  /\ r.step \in {"login", "consent"} => r.b \in Browser
  /\ r.step = "create" => r.u \in User

\* Every variable holds what the tables, Hydra and the handlers can hold.
TypeOK ==
  /\ disabled \subseteq User
  /\ owner \in [Browser -> User \cup {None}]
  /\ state \in [Browser -> SessionState]
  /\ corr \in [Sid -> Browser \cup {None}]
  /\ phase \in [Grant -> GrantState] /\ holder \in [Grant -> User \cup {None}]
  /\ snapshot \in [Grant -> SUBSET Browser]
  /\ sids \in [Grant -> SUBSET Sid] /\ own \in [Grant -> SUBSET Sid]
  /\ expired \subseteq Grant /\ due \subseteq Grant /\ leased \subseteq Grant
  /\ req \in [Handler -> Request] /\ \A p \in Handler : Operands(req[p])
  /\ hydra \in [Sid -> {"new", "live", "ended"}]
  /\ subject \in [Sid -> User \cup {None}]
  /\ redirect \subseteq Sid /\ consent \subseteq Sid
  /\ issued \subseteq Sid /\ approved \subseteq Sid /\ rp \subseteq Sid
  /\ notice \subseteq Sid /\ tomb \subseteq Sid
  /\ ended \subseteq Browser /\ swept \subseteq Sid

\* No application session under sid h outlives the logout messages sent so far:
\* one that exists is about to be told, and a token still on its way to an
\* application will find the logout there first.
Fenced(h) ==
  /\ h \in rp => h \in notice
  /\ h \in approved => h \in notice \cup tomb

\* A durable grant names every provider session of the browser sessions it
\* ended: no sign-in in flight during the snapshot adds one afterwards
\* (RecordHydraLoginSession against CreateLogoutCorrelationGrant).
SnapshotComplete ==
  \A g \in Grant, h \in Sid : corr[h] \in snapshot[g] => h \in sids[g]

\* Once a logout, a revocation or the disabling of an account has reported its
\* browser sessions as ended everywhere, no application session of theirs is
\* left, whatever was signing in, exchanging a code or crashing meanwhile.  The
\* exception are the provider sessions Hydra was told to delete with their
\* subject after a newer sign-in had created them.
EndedMeansSignedOut ==
  \A h \in Sid : corr[h] \in ended => Fenced(h) \/ h \in swept

\* A disabled account has no browser session in force, and none appears from a
\* sign-in or an account switch that was under way.
DisabledMeansNoSession ==
  \A b \in Browser : owner[b] \in disabled => state[b] = "revoked"

\* Whatever an application holds under a sid belongs to the account whose
\* browser session the sid is correlated with, although accounts are switched
\* in a browser whose login request is still open (hydraTokenHook's owner check).
TokenMatchesAccount ==
  \A h \in approved \cup rp : corr[h] # None /\ owner[corr[h]] = subject[h]

\* "Every logout ends the Shauth browser session and every correlated
\* application session" (docs/architecture.md), for an account that signed out,
\* has no session left and nothing under way.
LogoutEndsEveryApplication ==
  \A u \in User :
    /\ SessionsOf(u) \cap ended # {} /\ Unrevoked(u) = {}
    /\ \A g \in Grant : ~Pending(g)
    /\ \A p \in Handler : At(p, "idle")
    => \A h \in rp : subject[h] = u => h \in notice \cup swept

\* The application of this module is the one that Gateway implements.
App == INSTANCE RelyingParty WITH session <- rp, out <- tomb

\* What SingleLogout sees: the browser sessions that are revoked, the grants
\* that are open or consumed, what these ended, and the browser sessions under
\* which an application is signed in that nobody has told, or is about to tell,
\* to sign out.
Over == {b \in Browser : state[b] = "revoked"}
Asked == {g \in Grant : Pending(g)}
Ends == [g \in Grant |-> IF Pending(g) THEN snapshot[g] ELSE {}]
SignedIn == {corr[h] : h \in rp \ (notice \cup swept)}

Logouts == INSTANCE SingleLogout
             WITH Session <- Browser, off <- disabled, over <- Over, pending <- Asked,
                  ends <- Ends, reported <- ended, signedIn <- SignedIn

\* Global logout is one logout: whatever crashes, is retried, recovered or
\* completed twice between the browser, Shauth and Hydra, and whoever signs in
\* meanwhile, what happens to browser sessions and applications is what
\* SingleLogout allows (logout, hydraLogout, RecoverAbandonedLogout, revokeSession,
\* revokeUserSessions, disableUser).
LogsOutAsOne == Logouts!Spec
=============================================================================
