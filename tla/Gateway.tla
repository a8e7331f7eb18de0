------------------------------ MODULE Gateway ------------------------------
(***************************************************************************)
(* The OpenID Connect gateway in front of an application that cannot sign  *)
(* people in itself: its sign-in transactions, its session store and the   *)
(* three ways a logout reaches it.                                         *)
(*                                                                         *)
(* A transaction is a run of /auth/login and of the callback that ends it, *)
(* and names the session it creates.  A callback takes several steps: it   *)
(* works with the cookies its request carried and with a time it read.     *)
(* Every transaction of the store is one step; a row that was revoked is   *)
(* dropped, since nothing reads it again.  The provider, which issues      *)
(* codes and logout tokens, is outside: it is what the gateway sees of it. *)
(*                                                                         *)
(* An operator X_Y is X with the slip Y, a plausible mistake in the code:  *)
(* nothing uses it, and put in X's place it must break a property.         *)
(***************************************************************************)
EXTENDS Naturals

CONSTANTS Sid,          \* the provider's sessions
          Txn,          \* sign-in transactions, and the sessions they create
          Browser,
          Delivery,     \* back-channel requests in flight at once
          None,
          TxnLife,      \* ten minutes
          TombLife,     \* logoutTombstoneLifetime
          TokenLife,    \* of a logout token
          SessionLife,  \* SessionMaxAge
          Retention,    \* endedSessionRetention
          HandlerLife,  \* what a request may take: its provider calls time out
          MaxTime       \* bound on the clock

ASSUME NoneIsNothing == None \notin Sid \cup Txn
ASSUME Durations == /\ TxnLife \in Nat /\ TombLife \in Nat /\ TokenLife \in Nat
                    /\ SessionLife \in Nat /\ Retention \in Nat
                    /\ HandlerLife \in Nat /\ MaxTime \in Nat
\* Twenty minutes cover the ten of a transaction and its callback's last step.
ASSUME TombstoneOutlasts == TxnLife + HandlerLife <= TombLife

VARIABLES
  now,
  live,      \* provider sessions that have not ended
  endedAt,   \* of a provider session that has
  step,      \* of a transaction
  owner,     \* its browser
  started,
  code,      \* the provider session its code stands for
  since,     \* when its callback passed the check of the transaction cookie
  carried,   \* the session cookie its callback's request carried
  stamp,     \* the time its callback read for the store
  unread,    \* transactions whose callback could not read the store for `carried'
  cookie,    \* of a browser: the transaction cookie
  jar,       \* of a browser: the session cookie
  rows,      \* oidc_gateway_sessions: transactions whose session is not revoked
  expires,   \* expires_at of such a row
  tomb,      \* oidc_gateway_logout_tombstones: expires_at of a session's, or 0
  jtis,      \* oidc_gateway_logout_tokens: one token for each ended session
  told,      \* ended provider sessions whose logout the store recorded
  accepted,  \* ended provider sessions whose token was accepted
  replayed,  \* and was accepted again
  pending,   \* of a delivery: the session whose token passed the checks
  taken      \* and when it did

provider == <<live, endedAt>>
sign == <<step, owner, started, code, since, carried, stamp, unread>>
store == <<rows, expires, tomb, jtis, told, accepted, replayed>>
logouts == <<pending, taken>>
browser == <<cookie, jar>>
vars == <<now, provider, sign, store, logouts, browser>>

-----------------------------------------------------------------------------
(* The provider and the clock. *)

\* A person with a provider session is sent back to the callback with a code.
Authorize(t, s) ==
  /\ step[t] = "sent" /\ s \in live
  /\ step' = [step EXCEPT ![t] = "coded"]
  /\ code' = [code EXCEPT ![t] = s]
  /\ UNCHANGED <<now, provider, owner, started, since, carried, stamp, unread, store, logouts,
                 browser>>

\* Somebody signs out at Shauth; the logout token exists from then on.
EndSession(s) ==
  /\ s \in live
  /\ live' = live \ {s}
  /\ endedAt' = [endedAt EXCEPT ![s] = now]
  /\ UNCHANGED <<now, sign, store, logouts, browser>>

InCallback == {"exchange", "replace", "create"}

\* No request outlasts HandlerLife.
Tick ==
  /\ now < MaxTime
  /\ \A t \in Txn : step[t] \in InCallback => now < since[t] + HandlerLife
  /\ \A d \in Delivery : pending[d] # None => now < taken[d] + HandlerLife
  /\ now' = now + 1
  /\ UNCHANGED <<provider, sign, store, logouts, browser>>

-----------------------------------------------------------------------------
(* The store. *)

\* Find: the session a cookie names, if it is in force.
InForce(t) == t \in rows /\ expires[t] > now

\* deleteExpiredLogoutTombstones, and recordLogoutTombstone: expired ones go,
\* and the longer lifetime stays.
Standing(n) == [s \in Sid |-> IF tomb[s] <= n THEN 0 ELSE tomb[s]]
Tombstone_Short(s) == [Standing(now) EXCEPT ![s] = now + TxnLife]
Tombstone(s) ==
  [Standing(now) EXCEPT ![s] = IF @ < now + TombLife THEN now + TombLife ELSE @]

\* deleteExpiredLogoutTokens at time n: tokens whose lifetime is over.
Remembered_Early(n) == {s \in jtis : endedAt[s] + TokenLife > n + 1}
Remembered(n) == {s \in jtis : endedAt[s] + TokenLife > n}

\* The sessions of a provider session are revoked.
Without(s) == {t \in rows : code[t] # s}

-----------------------------------------------------------------------------
(* Signing in. *)

\* login: a new transaction, in place of the browser's earlier one.
Login_Reusing(t, b) ==
  /\ step' = [step EXCEPT ![t] = "sent"]
  /\ owner' = [owner EXCEPT ![t] = b]
  /\ started' = [started EXCEPT ![t] = now]
  /\ cookie' = [cookie EXCEPT ![b] = t]
  /\ UNCHANGED <<now, provider, code, since, carried, stamp, unread, store, logouts, jar>>
Login(t, b) ==
  /\ step[t] = "unused"
  /\ step' = [step EXCEPT ![t] = "sent"]
  /\ owner' = [owner EXCEPT ![t] = b]
  /\ started' = [started EXCEPT ![t] = now]
  /\ cookie' = [cookie EXCEPT ![b] = t]
  /\ UNCHANGED <<now, provider, code, since, carried, stamp, unread, store, logouts, jar>>

\* openTransaction: what the browser sealed in its cookie is this transaction,
\* and it is not over.
Opens(t) == cookie[owner[t]] = t /\ started[t] + TxnLife > now

\* callback, up to the code exchange.  The cookie is cleared in any case.
Callback(t) ==
  LET b == owner[t] IN
  /\ step[t] = "coded"
  /\ cookie' = [cookie EXCEPT ![b] = None]
  /\ \/ /\ Opens(t)
        /\ step' = [step EXCEPT ![t] = "exchange"]
        /\ since' = [since EXCEPT ![t] = now]
        /\ carried' = [carried EXCEPT ![t] = jar[b]]
     \/ /\ ~ Opens(t)
        /\ step' = [step EXCEPT ![t] = "failed"]
        /\ UNCHANGED <<since, carried>>
  /\ UNCHANGED <<now, provider, owner, started, code, stamp, unread, store, logouts, jar>>

Fail(t) ==
  /\ step' = [step EXCEPT ![t] = "failed"]
  /\ UNCHANGED <<now, provider, owner, started, code, since, carried, stamp, unread, store,
                 logouts, browser>>

\* The code is exchanged and the ID token verified, or not.
Exchange(t) ==
  /\ step[t] = "exchange"
  /\ \/ /\ step' = [step EXCEPT ![t] = "replace"]
        /\ UNCHANGED <<now, provider, owner, started, code, since, carried, stamp, unread,
                       store, logouts, browser>>
     \/ Fail(t)

\* The session of the cookie the request carried is looked up and revoked
\* (currentSession, RevokeToken), and then the callback reads the clock.  Any
\* error of the lookup counts as no session, also that the store could not be
\* read: the callback goes on.  A revocation that fails, done or not, ends it.
Replace_Unrevoked(t) ==
  /\ step[t] = "replace"
  /\ step' = [step EXCEPT ![t] = "create"]
  /\ stamp' = [stamp EXCEPT ![t] = now]
  /\ UNCHANGED <<now, provider, owner, started, code, since, carried, unread, store, logouts,
                 browser>>
Replace(t) ==
  LET u == carried[t]
      found == u # None /\ InForce(u) IN
  /\ step[t] = "replace"
  /\ \/ /\ step' = [step EXCEPT ![t] = "create"]
        /\ stamp' = [stamp EXCEPT ![t] = now]
        /\ \/ rows' = (IF found THEN rows \ {u} ELSE rows) /\ UNCHANGED unread
           \/ u # None /\ unread' = unread \cup {t} /\ UNCHANGED rows
     \/ /\ found
        /\ step' = [step EXCEPT ![t] = "failed"]
        /\ rows' \in {rows, rows \ {u}}
        /\ UNCHANGED <<stamp, unread>>
  /\ UNCHANGED <<now, provider, owner, started, code, since, carried, expires, tomb, jtis,
                 told, accepted, replayed, logouts, browser>>

\* Create: under the provider session's lock, unless that was logged out.  The
\* store may fail, and the answer may not reach the browser.
Create(t) ==
  LET n == stamp[t] IN
  /\ step[t] = "create"
  /\ \/ Fail(t)
     \/ /\ tomb[code[t]] <= n
        /\ tomb' = Standing(n)
        /\ jtis' = Remembered(n)
        /\ rows' = {u \in rows : expires[u] + Retention > n} \cup {t}
        /\ expires' = [expires EXCEPT ![t] = n + SessionLife]
        /\ \/ /\ step' = [step EXCEPT ![t] = "done"]
              /\ jar' = [jar EXCEPT ![owner[t]] = t]
           \/ step' = [step EXCEPT ![t] = "lost"] /\ UNCHANGED jar
        /\ UNCHANGED <<now, provider, owner, started, code, since, carried, stamp, unread, told,
                       accepted, replayed, logouts, cookie>>

-----------------------------------------------------------------------------
(* Signing out. *)

\* logout: the browser's session is revoked, or there is none; either way the
\* cookie goes and the provider is next.  When RevokeToken reports a failure, done
\* or not, the cookie stays, as it does when the store could not be read.
Logout(b) ==
  LET u == jar[b] IN
  /\ u # None
  /\ \/ /\ rows' = IF InForce(u) THEN rows \ {u} ELSE rows
        /\ jar' = [jar EXCEPT ![b] = None]
     \/ InForce(u) /\ rows' = rows \ {u} /\ UNCHANGED jar
  /\ UNCHANGED <<now, provider, sign, expires, tomb, jtis, told, accepted, replayed, logouts,
                 cookie>>

\* requireSession: a cookie that names no session in force is cleared.
RequireSession(b) ==
  /\ jar[b] # None /\ ~ InForce(jar[b])
  /\ jar' = [jar EXCEPT ![b] = None]
  /\ UNCHANGED <<now, provider, sign, store, logouts, cookie>>

\* frontchannelLogout: anyone may ask, for a session that has ended or not.  The
\* cookie goes if it names a session of s, unless the store could not be read for
\* it, or reported a failure of what it did.
FrontchannelLogout(b, s) ==
  /\ tomb' = Tombstone(s)
  /\ rows' = Without(s)
  /\ told' = told \cup ({s} \ live)
  /\ \/ UNCHANGED jar
     \/ /\ jar[b] # None /\ InForce(jar[b]) /\ code[jar[b]] = s
        /\ jar' = [jar EXCEPT ![b] = None]
  /\ UNCHANGED <<now, provider, sign, expires, jtis, accepted, replayed, logouts, cookie>>

\* backchannelLogout: the token of an ended session arrives, once or again, and
\* passes the checks while it is fresh.
Receive(d, s) ==
  /\ pending[d] = None
  /\ s \in Sid \ live
  /\ now <= endedAt[s] + TokenLife
  /\ pending' = [pending EXCEPT ![d] = s]
  /\ taken' = [taken EXCEPT ![d] = now]
  /\ UNCHANGED <<now, provider, sign, store, browser>>

\* RevokeProviderSession, at a later reading of the clock: a token that is
\* remembered is a replay.  The store may fail.
Record(d) ==
  LET s == pending[d] IN
  /\ s # None
  /\ pending' = [pending EXCEPT ![d] = None]
  /\ \/ /\ s \notin Remembered(now)
        /\ jtis' = Remembered(now) \cup {s}
        /\ tomb' = Tombstone(s)
        /\ rows' = Without(s)
        /\ told' = told \cup {s}
        /\ accepted' = accepted \cup {s}
        /\ replayed' = replayed \cup ({s} \cap accepted)
     \/ UNCHANGED <<jtis, tomb, rows, told, accepted, replayed>>
  /\ UNCHANGED <<now, provider, sign, expires, taken, browser>>

-----------------------------------------------------------------------------
Init ==
  /\ now = 0 /\ live = Sid /\ endedAt = [s \in Sid |-> 0]
  /\ step = [t \in Txn |-> "unused"] /\ owner \in [Txn -> Browser]
  /\ started = [t \in Txn |-> 0] /\ code = [t \in Txn |-> None]
  /\ since = [t \in Txn |-> 0] /\ carried = [t \in Txn |-> None]
  /\ stamp = [t \in Txn |-> 0] /\ unread = {}
  /\ cookie = [b \in Browser |-> None] /\ jar = [b \in Browser |-> None]
  /\ rows = {} /\ expires = [t \in Txn |-> 0]
  /\ tomb = [s \in Sid |-> 0] /\ jtis = {} /\ told = {}
  /\ accepted = {} /\ replayed = {}
  /\ pending = [d \in Delivery |-> None] /\ taken = [d \in Delivery |-> 0]

SignIn(t) == \/ \E b \in Browser : Login(t, b)
             \/ \E s \in Sid : Authorize(t, s)
             \/ Callback(t) \/ Exchange(t) \/ Replace(t) \/ Create(t)

SignOut == \/ \E b \in Browser : Logout(b) \/ RequireSession(b)
           \/ \E b \in Browser, s \in Sid : FrontchannelLogout(b, s)
           \/ \E d \in Delivery : Record(d) \/ \E s \in Sid : Receive(d, s)

Next == Tick \/ (\E s \in Sid : EndSession(s)) \/ (\E t \in Txn : SignIn(t)) \/ SignOut

Spec == Init /\ [][Next]_vars

-----------------------------------------------------------------------------
(* Properties. *)

Steps == {"unused", "sent", "coded", "done", "lost", "failed"} \cup InCallback

\* Every variable holds what it can hold; from the code on, a transaction knows
\* its provider session, and so does every row.
TypeOK ==
  /\ now \in Nat /\ live \subseteq Sid /\ endedAt \in [Sid -> Nat]
  /\ step \in [Txn -> Steps] /\ owner \in [Txn -> Browser]
  /\ started \in [Txn -> Nat] /\ code \in [Txn -> Sid \cup {None}]
  /\ since \in [Txn -> Nat] /\ carried \in [Txn -> Txn \cup {None}]
  /\ stamp \in [Txn -> Nat] /\ unread \subseteq Txn
  /\ cookie \in [Browser -> Txn \cup {None}] /\ jar \in [Browser -> Txn \cup {None}]
  /\ rows \subseteq Txn /\ expires \in [Txn -> Nat]
  /\ tomb \in [Sid -> Nat] /\ jtis \subseteq Sid /\ told \subseteq Sid
  /\ accepted \subseteq Sid /\ replayed \subseteq accepted
  /\ pending \in [Delivery -> Sid \cup {None}] /\ taken \in [Delivery -> Nat]
  /\ \A t \in Txn : step[t] \in {"coded", "done", "lost"} \cup InCallback => code[t] \in Sid
  /\ \A t \in rows : step[t] \in {"done", "lost"}

\* Once the gateway has recorded the logout of an ended provider session, no
\* session of it is in force, then or later: a callback that was under way when
\* the logout came neither escapes it nor undoes it after the tombstone is gone.
LoggedOutStaysOut == \A t \in Txn : InForce(t) => code[t] \notin told

\* "Rejects replayed tokens": a token that was accepted is not accepted again
\* before it expires.  At its expiry it is: backchannelLogout still takes it, and
\* RevokeProviderSession, which reads the clock later, has forgotten it.
ReplaysRejected == \A s \in replayed : endedAt[s] + TokenLife <= now

\* "A new sign-in in this browser replaces the previous session outright, so a
\* copy of the earlier cookie stops working now, not when it expires": of the
\* session whose cookie the callback carried, provided the callback could read the
\* store when it looked for that session.  If it could not, it goes on to create
\* its session, and the earlier cookie works until it expires.  A session another
\* tab creates while the callback is under way stays.
SignInReplaces ==
  \A t \in Txn \ unread : step[t] \in {"create", "done", "lost"} /\ carried[t] # None
    => ~ InForce(carried[t])

\* The provider sessions under which somebody is signed in at the gateway.
SignedIn == {code[t] : t \in {u \in Txn : InForce(u)}}

App == INSTANCE RelyingParty WITH session <- SignedIn, out <- told

\* The gateway is the application global logout needs: seen through its sessions
\* in force and the logouts it recorded, every step of it is a sign-in under a
\* provider session that was not logged out, the end of sessions, or a logout
\* that takes all sessions of its provider session with it.
LogsOutForGood == App!Spec
=============================================================================
