--------------------------- MODULE GatewayProofs ---------------------------
(***************************************************************************)
(* The gateway keeps a person who was signed out signed out, for any       *)
(* number of browsers, transactions and provider sessions and all          *)
(* lifetimes that satisfy TombstoneOutlasts.                               *)
(***************************************************************************)
EXTENDS Gateway, TLAPS

-----------------------------------------------------------------------------
(* Type correctness. *)

LEMMA TypeInit == Init => TypeOK
BY Durations DEF Init, TypeOK, Steps, InCallback

LEMMA TypeStep == TypeOK /\ [Next]_vars => TypeOK'
<1> SUFFICES ASSUME TypeOK, [Next]_vars PROVE TypeOK'
  OBVIOUS
<1> USE Durations
<1>1. CASE Tick
  BY <1>1 DEF TypeOK, Tick, provider, sign, store, logouts, browser
<1>2. ASSUME NEW s \in Sid, EndSession(s) PROVE TypeOK'
  BY <1>2 DEF TypeOK, EndSession, sign, store, logouts, browser
<1>3. ASSUME NEW t \in Txn, NEW b \in Browser, Login(t, b) PROVE TypeOK'
  BY <1>3 DEF TypeOK, Steps, InCallback, Login, provider, store, logouts
<1>4. ASSUME NEW t \in Txn, NEW s \in Sid, Authorize(t, s) PROVE TypeOK'
  BY <1>4 DEF TypeOK, Steps, InCallback, Authorize, provider, store, logouts, browser
<1>5. ASSUME NEW t \in Txn, Callback(t) PROVE TypeOK'
  BY <1>5 DEF TypeOK, Steps, InCallback, Callback, Opens, provider, store, logouts
<1>6. ASSUME NEW t \in Txn, Fail(t), step[t] \in InCallback PROVE TypeOK'
  BY <1>6 DEF TypeOK, Steps, InCallback, Fail, provider, store, logouts, browser
<1>7. ASSUME NEW t \in Txn, Exchange(t) PROVE TypeOK'
  BY <1>6, <1>7 DEF TypeOK, Steps, InCallback, Exchange, provider, store, logouts, browser
<1>8. ASSUME NEW t \in Txn, Replace(t) PROVE TypeOK'
  BY <1>8 DEF TypeOK, Steps, InCallback, Replace, provider, logouts, browser
<1>9. ASSUME NEW t \in Txn, Create(t) PROVE TypeOK'
  BY <1>6, <1>9 DEF TypeOK, Steps, InCallback, Create, Remembered, Standing, provider, logouts
<1>10. ASSUME NEW b \in Browser, Logout(b) \/ RequireSession(b) PROVE TypeOK'
  BY <1>10 DEF TypeOK, Logout, RequireSession, provider, sign, store, logouts
<1>11. ASSUME NEW b \in Browser, NEW s \in Sid, FrontchannelLogout(b, s) PROVE TypeOK'
  BY <1>11 DEF TypeOK, FrontchannelLogout, Tombstone, Standing, Without, provider, sign, logouts
<1>12. ASSUME NEW d \in Delivery, Record(d) PROVE TypeOK'
  BY <1>12 DEF TypeOK, Record, Tombstone, Standing, Without, Remembered, provider, sign,
                browser
<1>13. ASSUME NEW d \in Delivery, NEW s \in Sid, Receive(d, s) PROVE TypeOK'
  BY <1>13 DEF TypeOK, Receive, provider, sign, store, browser
<1>14. CASE UNCHANGED vars
  BY <1>14 DEF TypeOK, vars, provider, sign, store, logouts, browser
<1> QED BY <1>1, <1>2, <1>3, <1>4, <1>5, <1>7, <1>8, <1>9, <1>10, <1>11, <1>12,
           <1>13, <1>14 DEF Next, SignIn, SignOut

\* The cookies, the store and the callbacks hold only what they can hold.
THEOREM TypeCorrect == Spec => []TypeOK
BY TypeInit, TypeStep, PTL DEF Spec

-----------------------------------------------------------------------------
(* Signed out for good. *)

\* A code was issued while its provider session was alive, so its transaction
\* started before that session ended; a callback under way passed the check of
\* the transaction's lifetime, no longer than HandlerLife ago.
Timely ==
  \A t \in Txn :
    /\ started[t] <= now
    /\ step[t] \in {"coded"} \cup InCallback /\ code[t] \notin live =>
         started[t] <= endedAt[code[t]]
    /\ step[t] \in InCallback => /\ since[t] < started[t] + TxnLife
                                 /\ now <= since[t] + HandlerLife
    /\ step[t] = "create" => stamp[t] <= now

\* The tombstone of a recorded logout stands until TombLife after the end.
Buried ==
  /\ \A s \in Sid \ live : endedAt[s] <= now
  /\ \A d \in Delivery : pending[d] \notin live
  /\ \A s \in told : /\ s \notin live
                     /\ \/ endedAt[s] + TombLife <= tomb[s]
                        \/ endedAt[s] + TombLife <= now

\* No row of such a provider session is left.
Out == \A t \in rows : code[t] \notin told

IInv == TypeOK /\ Timely /\ Buried /\ Out

LEMMA InvInit == Init => IInv
<1>1. Init => Timely /\ Buried /\ Out
  BY NoneIsNothing DEF Init, Timely, Buried, Out, InCallback
<1> QED BY <1>1, TypeInit DEF IInv

LEMMA TimelyStep == TypeOK /\ Timely /\ [Next]_vars => Timely'
<1> SUFFICES ASSUME TypeOK, Timely, [Next]_vars PROVE Timely'
  OBVIOUS
<1> USE Durations
<1>0. ASSUME UNCHANGED <<now, live, endedAt, step, started, code, since, stamp>>
      PROVE  Timely'
  BY <1>0 DEF Timely
<1>1. CASE Tick
  BY <1>1 DEF TypeOK, Timely, Tick, provider, sign, InCallback
<1>2. ASSUME NEW s \in Sid, EndSession(s) PROVE Timely'
  BY <1>2 DEF TypeOK, Timely, EndSession, sign, InCallback
<1>3. ASSUME NEW t \in Txn, NEW b \in Browser, Login(t, b) PROVE Timely'
  BY <1>3 DEF TypeOK, Timely, Login, provider, InCallback
<1>4. ASSUME NEW t \in Txn, NEW s \in Sid, Authorize(t, s) PROVE Timely'
  BY <1>4 DEF TypeOK, Timely, Authorize, provider, InCallback
<1>5. ASSUME NEW t \in Txn, Callback(t) PROVE Timely'
  BY <1>5 DEF TypeOK, Timely, Callback, Opens, provider, InCallback
<1>6. ASSUME NEW t \in Txn, Fail(t) PROVE Timely'
  BY <1>6 DEF TypeOK, Timely, Fail, provider, InCallback
<1>7. ASSUME NEW t \in Txn, Exchange(t) PROVE Timely'
  BY <1>6, <1>7 DEF TypeOK, Timely, Exchange, provider, InCallback
<1>8. ASSUME NEW t \in Txn, Replace(t) PROVE Timely'
  BY <1>8 DEF TypeOK, Timely, Replace, provider, InCallback
<1>9. ASSUME NEW t \in Txn, Create(t) PROVE Timely'
  BY <1>6, <1>9 DEF TypeOK, Timely, Create, provider, InCallback
<1>10. ASSUME SignOut PROVE Timely'
  BY <1>10, <1>0 DEF SignOut, Logout, RequireSession, FrontchannelLogout, Record, Receive,
                     provider, sign
<1>11. CASE UNCHANGED vars
  BY <1>11, <1>0 DEF vars, provider, sign
<1> QED BY <1>1, <1>2, <1>3, <1>4, <1>5, <1>7, <1>8, <1>9, <1>10, <1>11
        DEF Next, SignIn

\* A recorded logout leaves a tombstone that outlasts the others' sweeps.
LEMMA TombstoneEffect ==
  ASSUME TypeOK, Buried, NEW s \in Sid, tomb' = Tombstone(s), UNCHANGED now
  PROVE  /\ now + TombLife <= tomb'[s]
         /\ \A u \in Sid : tomb'[u] = tomb[u] \/ tomb[u] <= now \/ u = s
BY Durations DEF TypeOK, Tombstone, Standing

LEMMA BuriedStep == TypeOK /\ Timely /\ Buried /\ [Next]_vars => Buried'
<1> SUFFICES ASSUME TypeOK, Timely, Buried, [Next]_vars PROVE Buried'
  OBVIOUS
<1> USE Durations
<1>0. ASSUME UNCHANGED <<now, live, endedAt, pending, tomb, told>>
      PROVE  Buried'
  BY <1>0 DEF Buried
<1>1. CASE Tick
  BY <1>1 DEF TypeOK, Buried, Tick, provider, store, logouts
<1>2. ASSUME NEW s \in Sid, EndSession(s) PROVE Buried'
  BY <1>2 DEF TypeOK, Buried, EndSession, store, logouts
<1>3. ASSUME NEW t \in Txn, Create(t) PROVE Buried'
  <2>1. UNCHANGED <<now, live, endedAt, pending, told>>
    BY <1>3 DEF Create, Fail, provider, logouts, store
  <2>2. \A s \in Sid : tomb'[s] = tomb[s] \/ tomb[s] <= stamp[t]
    BY <1>3 DEF Create, Fail, Standing, store
  <2>3. stamp[t] <= now /\ stamp[t] \in Nat
    BY <1>3 DEF Create, Timely, TypeOK
  <2>4. \A s \in told : tomb[s] \in Nat /\ endedAt[s] \in Nat /\ s \in Sid
    BY DEF TypeOK
  <2>5. now \in Nat
    BY DEF TypeOK
  <2>6. \A s \in told : endedAt[s] + TombLife <= tomb'[s] \/ endedAt[s] + TombLife <= now
    BY <2>2, <2>3, <2>4, <2>5 DEF Buried
  <2> QED BY <2>1, <2>6 DEF Buried
<1>4. ASSUME NEW s \in Sid, s \notin live, tomb' = Tombstone(s), told' = told \cup {s},
             UNCHANGED <<now, live, endedAt>>,
             \A d \in Delivery : pending'[d] \in {pending[d], None}
      PROVE  Buried'
  <2>1. None \notin live
    BY NoneIsNothing DEF TypeOK
  <2>2. /\ now + TombLife <= tomb'[s]
        /\ \A u \in Sid : tomb'[u] = tomb[u] \/ tomb[u] <= now \/ u = s
    BY <1>4, TombstoneEffect
  <2>3. endedAt[s] <= now /\ endedAt[s] \in Nat /\ now \in Nat
    BY <1>4 DEF Buried, TypeOK
  <2>4. tomb'[s] \in Nat
    BY <1>4 DEF Tombstone, Standing, TypeOK
  <2>5. endedAt[s] + TombLife <= tomb'[s]
    BY <2>2, <2>3, <2>4
  <2>6. \A u \in told : tomb[u] \in Nat /\ endedAt[u] \in Nat /\ u \in Sid
    BY DEF TypeOK
  <2>7. \A u \in told : u # s =>
          endedAt[u] + TombLife <= tomb'[u] \/ endedAt[u] + TombLife <= now
    BY <2>2, <2>3, <2>6 DEF Buried
  <2> QED BY <1>4, <2>1, <2>5, <2>7 DEF Buried
<1>5. ASSUME NEW b \in Browser, NEW s \in Sid, FrontchannelLogout(b, s) PROVE Buried'
  <2>1. CASE s \notin live
    <3>1. /\ tomb' = Tombstone(s) /\ told' = told \cup {s}
          /\ UNCHANGED <<now, live, endedAt, pending>>
      BY <1>5, <2>1 DEF FrontchannelLogout, provider, logouts
    <3> QED BY <2>1, <3>1, <1>4
  <2>2. CASE s \in live
    <3>1. /\ tomb' = Tombstone(s) /\ told' = told
          /\ UNCHANGED <<now, live, endedAt, pending>>
      BY <1>5, <2>2 DEF FrontchannelLogout, provider, logouts
    <3>2. \A u \in Sid : tomb'[u] = tomb[u] \/ tomb[u] <= now \/ u = s
      BY <3>1, TombstoneEffect
    <3>3. \A u \in told : tomb[u] \in Nat /\ endedAt[u] \in Nat /\ u \in Sid /\ u # s
      BY <2>2 DEF TypeOK, Buried
    <3>4. now \in Nat
      BY DEF TypeOK
    <3>5. \A u \in told : endedAt[u] + TombLife <= tomb'[u] \/ endedAt[u] + TombLife <= now
      BY <3>2, <3>3, <3>4 DEF Buried
    <3> QED BY <3>1, <3>5 DEF Buried
  <2> QED BY <2>1, <2>2
<1>6. ASSUME NEW d \in Delivery, Record(d) PROVE Buried'
  <2>1. \A e \in Delivery : pending'[e] \in {pending[e], None}
    BY <1>6 DEF Record, TypeOK
  <2>2. UNCHANGED <<now, live, endedAt>>
    BY <1>6 DEF Record, provider
  <2>3. pending[d] \in Sid /\ pending[d] \notin live
    BY <1>6 DEF Record, TypeOK, Buried
  <2>4. CASE tomb' = Tombstone(pending[d]) /\ told' = told \cup {pending[d]}
    BY <1>4, <2>1, <2>2, <2>3, <2>4
  <2>5. CASE UNCHANGED <<tomb, told>>
    BY <2>1, <2>2, <2>5, NoneIsNothing DEF Buried, TypeOK
  <2> QED BY <1>6, <2>4, <2>5 DEF Record
<1>7. ASSUME NEW d \in Delivery, NEW s \in Sid, Receive(d, s) PROVE Buried'
  BY <1>7 DEF Receive, Buried, TypeOK, provider, store
<1>8. ASSUME NEW b \in Browser, Logout(b) \/ RequireSession(b) PROVE Buried'
  BY <1>8, <1>0 DEF Logout, RequireSession, provider, store, logouts
<1>9. ASSUME NEW t \in Txn, SignIn(t), ~ Create(t) PROVE Buried'
  BY <1>9, <1>0 DEF SignIn, Login, Authorize, Callback, Opens, Exchange, Fail, Replace,
                    provider, store, logouts
<1>10. CASE UNCHANGED vars
  BY <1>10, <1>0 DEF vars, provider, store, logouts
<1> QED BY <1>1, <1>2, <1>3, <1>5, <1>6, <1>7, <1>8, <1>9, <1>10 DEF Next, SignOut

\* Rows are lost, or created by a callback that found no tombstone: and one that
\* stood when the logout was recorded still stands then.
LEMMA OutStep == TypeOK /\ Timely /\ Buried /\ Out /\ [Next]_vars => Out'
<1> SUFFICES ASSUME TypeOK, Timely, Buried, Out, [Next]_vars PROVE Out'
  OBVIOUS
<1>0. ASSUME rows' \subseteq rows, UNCHANGED <<code, told>> PROVE Out'
  BY <1>0 DEF Out
<1>1. ASSUME NEW t \in Txn, Create(t) PROVE Out'
  <2>1. CASE Fail(t)
    BY <2>1, <1>0 DEF Fail, store
  <2>2. CASE tomb[code[t]] <= stamp[t] /\ rows' \subseteq rows \cup {t}
             /\ UNCHANGED <<code, told>>
    <3>1. code[t] \in Sid /\ step[t] = "create"
      BY <1>1 DEF Create, TypeOK, InCallback
    <3>2. ASSUME code[t] \in told PROVE FALSE
      <4> DEFINE s == code[t]
      <4>1. s \notin live /\ (\/ endedAt[s] + TombLife <= tomb[s]
                              \/ endedAt[s] + TombLife <= now)
        BY <3>2 DEF Buried
      <4>2. /\ started[t] <= endedAt[s] /\ since[t] < started[t] + TxnLife
            /\ now <= since[t] + HandlerLife /\ stamp[t] <= now
        BY <3>1, <4>1 DEF Timely, InCallback
      <4>3. /\ tomb[s] \in Nat /\ endedAt[s] \in Nat /\ now \in Nat
            /\ started[t] \in Nat /\ since[t] \in Nat /\ stamp[t] \in Nat
        BY <3>1 DEF TypeOK
      <4> HIDE DEF s
      <4>4. now < endedAt[s] + TombLife
        BY <4>2, <4>3, Durations, TombstoneOutlasts
      <4>5. tomb[s] <= stamp[t]
        BY <2>2 DEF s
      <4> QED BY <4>1, <4>2, <4>3, <4>4, <4>5, Durations
    <3> QED BY <2>2, <3>2 DEF Out
  <2> QED BY <1>1, <2>1, <2>2 DEF Create
<1>2. ASSUME NEW b \in Browser, NEW s \in Sid, FrontchannelLogout(b, s) PROVE Out'
  BY <1>2 DEF FrontchannelLogout, Without, Out, sign
<1>3. ASSUME NEW d \in Delivery, Record(d) PROVE Out'
  BY <1>3 DEF Record, Without, Out, sign
<1>4. ASSUME NEW t \in Txn, NEW s \in Sid, Authorize(t, s) PROVE Out'
  <2>1. t \notin rows
    BY <1>4 DEF Authorize, TypeOK
  <2>2. \A u \in rows : code'[u] = code[u]
    BY <1>4, <2>1 DEF Authorize, TypeOK
  <2> QED BY <1>4, <2>2 DEF Authorize, Out, store
<1>5. ASSUME NEW t \in Txn,
             (\E b \in Browser : Login(t, b)) \/ Callback(t) \/ Exchange(t) \/ Replace(t)
      PROVE  Out'
  BY <1>5, <1>0 DEF Login, Callback, Opens, Exchange, Fail, Replace, store
<1>6. ASSUME NEW b \in Browser, Logout(b) \/ RequireSession(b) PROVE Out'
  BY <1>6, <1>0 DEF Logout, RequireSession, sign, store
<1>7. ASSUME NEW d \in Delivery, NEW s \in Sid, Receive(d, s) PROVE Out'
  BY <1>7, <1>0 DEF Receive, sign, store
<1>8. ASSUME Tick \/ \E s \in Sid : EndSession(s) PROVE Out'
  BY <1>8, <1>0 DEF Tick, EndSession, sign, store
<1>9. CASE UNCHANGED vars
  BY <1>9, <1>0 DEF vars, sign, store
<1> QED BY <1>1, <1>2, <1>3, <1>4, <1>5, <1>6, <1>7, <1>8, <1>9
        DEF Next, SignIn, SignOut

LEMMA Invariance == Spec => []IInv
<1>1. IInv /\ [Next]_vars => IInv'
  BY TypeStep, TimelyStep, BuriedStep, OutStep DEF IInv
<1> QED BY <1>1, InvInit, PTL DEF Spec

\* Whatever callbacks are under way and however often the logout is delivered:
\* a logout the gateway recorded is final.  Twenty minutes of tombstone suffice
\* because a transaction lives ten and a callback does not last another ten.
THEOREM LogoutIsFinal == Spec => []LoggedOutStaysOut
<1>1. IInv => LoggedOutStaysOut
  BY DEF IInv, Out, LoggedOutStaysOut, InForce
<1> QED BY <1>1, Invariance, PTL

-----------------------------------------------------------------------------
(* Replays. *)

\* A token that was accepted is remembered until it expires; it is the token of
\* an ended session, whose end does not move.
Kept ==
  /\ \A s \in accepted : s \notin live /\ (s \in jtis \/ endedAt[s] + TokenLife <= now)
  /\ \A d \in Delivery : pending[d] \notin live

RInv == TypeOK /\ Timely /\ Kept /\ ReplaysRejected

LEMMA ReplayInit == Init => RInv
<1>1. Init => Timely /\ Kept /\ ReplaysRejected
  BY NoneIsNothing DEF Init, Timely, Kept, ReplaysRejected, InCallback
<1> QED BY <1>1, TypeInit DEF RInv

\* Forgetting at a time that has come forgets expired tokens only.
LEMMA KeptStep == TypeOK /\ Timely /\ Kept /\ ReplaysRejected /\ [Next]_vars
                    => Kept' /\ ReplaysRejected'
<1> SUFFICES ASSUME TypeOK, Timely, Kept, ReplaysRejected, [Next]_vars
             PROVE  Kept' /\ ReplaysRejected'
  OBVIOUS
<1> USE Durations
<1>0. ASSUME UNCHANGED <<now, live, endedAt, pending, jtis, accepted, replayed>>
      PROVE  Kept' /\ ReplaysRejected'
  BY <1>0 DEF Kept, ReplaysRejected
<1>t. /\ now \in Nat /\ replayed \subseteq accepted /\ accepted \subseteq Sid
      /\ \A s \in Sid : endedAt[s] \in Nat
  BY DEF TypeOK
<1>1. CASE Tick
  BY <1>1, <1>t DEF Kept, ReplaysRejected, Tick, provider, store, logouts
<1>2. ASSUME NEW s \in Sid, EndSession(s) PROVE Kept' /\ ReplaysRejected'
  BY <1>2, <1>t DEF TypeOK, Kept, ReplaysRejected, EndSession, store, logouts
<1>3. ASSUME NEW t \in Txn, Create(t) PROVE Kept' /\ ReplaysRejected'
  <2>1. CASE Fail(t)
    BY <2>1, <1>0 DEF Fail, provider, store, logouts
  <2>2. CASE jtis' = Remembered(stamp[t]) /\ UNCHANGED <<now, provider, accepted, replayed, logouts>>
    <3>1. stamp[t] <= now /\ stamp[t] \in Nat
      BY <1>3 DEF Create, Timely, TypeOK
    <3> QED BY <2>2, <3>1, <1>t DEF Kept, ReplaysRejected, Remembered, provider, logouts
  <2> QED BY <1>3, <2>1, <2>2 DEF Create
<1>4. ASSUME NEW d \in Delivery, Record(d) PROVE Kept' /\ ReplaysRejected'
  <2>1. \A e \in Delivery : pending'[e] \in {pending[e], None}
    BY <1>4 DEF Record, TypeOK
  <2>2. UNCHANGED <<now, live, endedAt>>
    BY <1>4 DEF Record, provider
  <2>3. pending[d] \in Sid /\ pending[d] \notin live /\ None \notin live
    BY <1>4, NoneIsNothing DEF Record, TypeOK, Kept
  <2>4. CASE UNCHANGED <<jtis, accepted, replayed>>
    BY <2>1, <2>2, <2>3, <2>4 DEF Kept, ReplaysRejected
  <2>5. CASE /\ pending[d] \notin Remembered(now)
             /\ jtis' = Remembered(now) \cup {pending[d]}
             /\ accepted' = accepted \cup {pending[d]}
             /\ replayed' = replayed \cup ({pending[d]} \cap accepted)
    <3>1. pending[d] \in accepted => endedAt[pending[d]] + TokenLife <= now
      BY <2>3, <2>5, <1>t DEF Kept, Remembered
    <3>2. Kept'
      BY <2>1, <2>2, <2>3, <2>5, <1>t DEF Kept, Remembered
    <3> QED BY <2>2, <2>5, <3>1, <3>2 DEF ReplaysRejected
  <2> QED BY <1>4, <2>4, <2>5 DEF Record
<1>5. ASSUME NEW d \in Delivery, NEW s \in Sid, Receive(d, s)
      PROVE  Kept' /\ ReplaysRejected'
  BY <1>5 DEF Receive, Kept, ReplaysRejected, TypeOK, provider, store
<1>6. ASSUME NEW b \in Browser,
             Logout(b) \/ RequireSession(b) \/ \E s \in Sid : FrontchannelLogout(b, s)
      PROVE  Kept' /\ ReplaysRejected'
  BY <1>6, <1>0 DEF Logout, RequireSession, FrontchannelLogout, provider, store, logouts
<1>7. ASSUME NEW t \in Txn, SignIn(t), ~ Create(t) PROVE Kept' /\ ReplaysRejected'
  BY <1>7, <1>0 DEF SignIn, Login, Authorize, Callback, Opens, Exchange, Fail, Replace,
                    provider, store, logouts
<1>8. CASE UNCHANGED vars
  BY <1>8, <1>0 DEF vars, provider, store, logouts
<1> QED BY <1>1, <1>2, <1>3, <1>4, <1>5, <1>6, <1>7, <1>8 DEF Next, SignOut

\* A logout token is accepted once while it is fresh, although the records of
\* earlier tokens are swept by whoever signs in or logs out, at the time it read.
THEOREM TokensAreAcceptedOnce == Spec => []ReplaysRejected
<1>1. RInv /\ [Next]_vars => RInv'
  BY TypeStep, TimelyStep, KeptStep DEF RInv
<1>2. RInv => ReplaysRejected
  BY DEF RInv
<1> QED BY <1>1, <1>2, ReplayInit, PTL DEF Spec

-----------------------------------------------------------------------------
(* Replacing the session of a browser. *)

\* A session cookie names a transaction that is done, and so does the one a
\* callback carries: its session is never created again.
Carries ==
  /\ \A b \in Browser : jar[b] # None => step[jar[b]] = "done"
  /\ \A t \in Txn : carried[t] # None => step[carried[t]] = "done"

CInv == TypeOK /\ Carries /\ SignInReplaces

LEMMA CarriesInit == Init => CInv
<1>1. Init => Carries /\ SignInReplaces
  BY DEF Init, Carries, SignInReplaces
<1> QED BY <1>1, TypeInit DEF CInv

LEMMA CarriesStep == TypeOK /\ Carries /\ SignInReplaces /\ [Next]_vars
                       => Carries' /\ SignInReplaces'
<1> SUFFICES ASSUME TypeOK, Carries, SignInReplaces, [Next]_vars
             PROVE  Carries' /\ SignInReplaces'
  OBVIOUS
<1>t. /\ now \in Nat /\ rows \subseteq Txn /\ None \notin Txn
      /\ expires \in [Txn -> Nat] /\ step \in [Txn -> Steps]
      /\ carried \in [Txn -> Txn \cup {None}] /\ jar \in [Browser -> Txn \cup {None}]
      /\ owner \in [Txn -> Browser]
  BY NoneIsNothing DEF TypeOK
\* Steps that keep the transactions and their sessions, but for those they end.
<1>0. ASSUME UNCHANGED <<step, carried, unread, expires>>, now <= now', now' \in Nat,
             rows' \subseteq rows, \A b \in Browser : jar'[b] \in {jar[b], None}
      PROVE  Carries' /\ SignInReplaces'
  BY <1>0, <1>t DEF Carries, SignInReplaces, InForce
\* Steps of a transaction that is not done, and does not get past its callback's
\* third step.
<1>1. ASSUME NEW t \in Txn, NEW q, step' = [step EXCEPT ![t] = q],
             q \notin {"create", "done", "lost"}, step[t] # "done",
             UNCHANGED <<now, unread, rows, expires, jar>>,
             carried' = carried \/ \E b \in Browser : carried' = [carried EXCEPT ![t] = jar[b]]
      PROVE  Carries' /\ SignInReplaces'
  <2>1. \A u \in Txn : step[u] = "done" => step'[u] = "done"
    BY <1>1, <1>t
  <2>2. Carries'
    BY <1>1, <1>t, <2>1 DEF Carries
  <2>3. \A u \in Txn : step'[u] \in {"create", "done", "lost"} => u # t /\ step'[u] = step[u]
    BY <1>1, <1>t
  <2>4. \A u \in Txn : u # t => carried'[u] = carried[u]
    BY <1>1, <1>t
  <2> QED BY <1>1, <2>2, <2>3, <2>4 DEF SignInReplaces, InForce
<1>2. ASSUME NEW t \in Txn, Fail(t), step[t] \in InCallback PROVE Carries' /\ SignInReplaces'
  BY <1>2, <1>1 DEF Fail, store, browser, InCallback
<1>3. ASSUME NEW t \in Txn, Replace(t) PROVE Carries' /\ SignInReplaces'
  <2>1. \A u \in Txn : step[u] = "done" => step'[u] = "done"
    BY <1>3, <1>t DEF Replace
  <2>2. Carries'
    BY <1>3, <2>1, <1>t DEF Carries, Replace, browser
  <2>3. \A u \in Txn : u # t => step'[u] = step[u]
    BY <1>3, <1>t DEF Replace
  <2>4. rows' \subseteq rows /\ UNCHANGED <<now, expires, carried>> /\ unread \subseteq unread'
    BY <1>3 DEF Replace
  \* Past this step the session is gone, unless the store could not be read.
  <2>5. CASE step' = [step EXCEPT ![t] = "failed"]
    <3>1. \A u \in Txn : step'[u] \in {"create", "done", "lost"} => u # t
      BY <2>5, <1>t
    <3> QED BY <2>2, <2>3, <2>4, <3>1 DEF SignInReplaces, InForce
  <2>6. CASE unread' = unread \cup {t}
    BY <2>2, <2>3, <2>4, <2>6 DEF SignInReplaces, InForce
  <2>7. CASE carried[t] # None /\ InForce(carried[t]) => carried[t] \notin rows'
    <3>1. carried[t] # None => ~ InForce(carried[t])'
      BY <2>4, <2>7 DEF InForce
    <3> QED BY <2>2, <2>3, <2>4, <3>1 DEF SignInReplaces, InForce
  <2> QED BY <1>3, <2>5, <2>6, <2>7 DEF Replace
<1>4. ASSUME NEW t \in Txn, Create(t) PROVE Carries' /\ SignInReplaces'
  <2>0. step[t] = "create" /\ "create" # "done"
    BY <1>4 DEF Create
  <2>1. CASE Fail(t)
    BY <2>0, <2>1, <1>2 DEF InCallback
  <2>2. ASSUME ~ Fail(t) PROVE Carries' /\ SignInReplaces'
    <3>1. /\ step' \in {[step EXCEPT ![t] = "done"], [step EXCEPT ![t] = "lost"]}
          /\ rows' \subseteq rows \cup {t} /\ UNCHANGED <<now, carried, unread>>
          /\ expires' = [expires EXCEPT ![t] = stamp[t] + SessionLife]
          /\ \/ jar' = jar
             \/ jar' = [jar EXCEPT ![owner[t]] = t] /\ step' = [step EXCEPT ![t] = "done"]
      BY <1>4, <2>2 DEF Create
    <3>2. \A u \in Txn : step[u] = "done" => step'[u] = "done" /\ u # t
      BY <3>1, <2>0, <1>t
    <3>3. Carries'
      BY <3>1, <3>2, <1>t DEF Carries
    <3>4. \A u \in Txn : u # t => expires'[u] = expires[u]
      BY <3>1, <1>t
    <3>5. \A u \in Txn : step'[u] \in {"create", "done", "lost"} =>
                          step[u] \in {"create", "done", "lost"}
      BY <3>1, <2>0, <1>t
    <3>6. \A u \in Txn : carried[u] # None => carried[u] \in Txn \ {t}
      BY <3>2, <1>t DEF Carries
    <3> QED BY <3>1, <3>3, <3>4, <3>5, <3>6 DEF SignInReplaces, InForce
  <2> QED BY <2>1, <2>2
<1>5. ASSUME NEW t \in Txn,
             \/ \E b \in Browser : Login(t, b)
             \/ \E s \in Sid : Authorize(t, s)
             \/ Callback(t) \/ Exchange(t)
      PROVE  Carries' /\ SignInReplaces'
  <2>1. ASSUME NEW b \in Browser, Login(t, b) PROVE Carries' /\ SignInReplaces'
    BY <2>1, <1>1 DEF Login, store
  <2>2. ASSUME NEW s \in Sid, Authorize(t, s) PROVE Carries' /\ SignInReplaces'
    BY <2>2, <1>1 DEF Authorize, store, browser
  <2>3. CASE Callback(t)
    BY <2>3, <1>1, <1>t DEF Callback, Opens, store
  <2>4. CASE Exchange(t)
    BY <2>4, <1>1, <1>2 DEF Exchange, store, browser, InCallback
  <2> QED BY <1>5, <2>1, <2>2, <2>3, <2>4
<1>6. ASSUME Tick \/ (\E s \in Sid : EndSession(s)) \/ SignOut
      PROVE  Carries' /\ SignInReplaces'
  <2>1. now <= now' /\ now' \in Nat
    BY <1>6, <1>t DEF Tick, EndSession, SignOut, Logout, RequireSession, FrontchannelLogout,
                      Record, Receive
  <2>2. UNCHANGED <<step, carried, unread, expires>> /\ rows' \subseteq rows
    BY <1>6 DEF Tick, EndSession, SignOut, Logout, RequireSession, FrontchannelLogout,
                Record, Receive, Without, sign, store
  <2>3. \A b \in Browser : jar'[b] \in {jar[b], None}
    BY <1>6, <1>t DEF Tick, EndSession, SignOut, Logout, RequireSession, FrontchannelLogout,
                Record, Receive, browser
  <2> QED BY <1>0, <2>1, <2>2, <2>3
<1>7. CASE UNCHANGED vars
  BY <1>7, <1>0, <1>t DEF vars, sign, store, browser
<1> QED BY <1>3, <1>4, <1>5, <1>6, <1>7 DEF Next, SignIn

\* The session whose cookie a callback carried is out of force, for good, once the
\* callback goes on to create its own, if it could read the store: whatever other
\* callbacks and logouts do, and if its own RevokeToken failed it does not go on.
THEOREM SignInsReplace == Spec => []SignInReplaces
<1>1. CInv /\ [Next]_vars => CInv'
  BY TypeStep, CarriesStep DEF CInv
<1>2. CInv => SignInReplaces
  BY DEF CInv
<1> QED BY <1>1, <1>2, CarriesInit, PTL DEF Spec

-----------------------------------------------------------------------------
(* The gateway implements RelyingParty. *)

\* The provider sessions somebody is signed in under, by the rows in force.
LEMMA SignedInMeaning ==
  ASSUME NEW s PROVE s \in SignedIn <=> \E t \in Txn : InForce(t) /\ code[t] = s
BY DEF SignedIn

\* The same of the next state.
LEMMA SignedInMeaningNext ==
  ASSUME NEW s PROVE s \in SignedIn' <=> \E t \in Txn : InForce(t)' /\ code'[t] = s
BY DEF SignedIn

\* A step that only loses rows, or lets time pass, ends sessions.
LEMMA FewerRows ==
  ASSUME TypeOK, rows' \subseteq rows, \A t \in rows : code'[t] = code[t],
         UNCHANGED <<expires, told>>, now' \in Nat, now <= now'
  PROVE  App!End
<1>1. \A t \in Txn : InForce(t)' => InForce(t)
  BY DEF InForce, TypeOK
<1>2. \A t \in Txn : InForce(t)' => code'[t] = code[t]
  BY DEF InForce
<1>3. SignedIn' \subseteq SignedIn
  BY <1>1, <1>2, SignedInMeaning, SignedInMeaningNext
<1> QED BY <1>3 DEF App!End

\* A logout takes exactly the sessions of its provider session.
LEMMA LogoutTakesAll ==
  ASSUME NEW s \in Sid, rows' = Without(s), UNCHANGED <<code, expires, now>>
  PROVE  SignedIn' = SignedIn \ {s}
<1>1. \A t \in Txn : InForce(t)' <=> InForce(t) /\ code[t] # s
  BY DEF InForce, Without
<1>2. \A u : u \in SignedIn' <=> u \in SignedIn /\ u # s
  BY <1>1, SignedInMeaning, SignedInMeaningNext
<1> QED BY <1>2

\* A callback creates at most its own session, and under a provider session that
\* was not logged out; the rows it sweeps had expired.
LEMMA CreateEstablishes ==
  ASSUME IInv, IInv', NEW t \in Txn, Create(t)
  PROVE  App!Next
<1>1. CASE Fail(t)
  <2>1. UNCHANGED <<rows, code, expires, told, now>> /\ now \in Nat
    BY <1>1 DEF Fail, store, IInv, TypeOK
  <2> QED BY <2>1, FewerRows DEF App!Next, IInv
<1>2. CASE ~Fail(t)
  <2>1. /\ rows' = {u \in rows : expires[u] + Retention > stamp[t]} \cup {t}
        /\ expires' = [expires EXCEPT ![t] = stamp[t] + SessionLife]
        /\ UNCHANGED <<now, code, told>>
        /\ step[t] = "create"
    BY <1>2 DEF Create
  <2>2. /\ stamp[t] <= now /\ stamp[t] \in Nat /\ now \in Nat
        /\ code[t] \in Sid /\ t \notin rows
        /\ \A u \in Txn : expires[u] \in Nat
    BY <2>1 DEF IInv, Timely, TypeOK, InCallback
  <2>3. \A u \in Txn \ {t} : InForce(u)' <=> InForce(u)
    <3> SUFFICES ASSUME NEW u \in Txn \ {t} PROVE InForce(u)' <=> InForce(u)
      OBVIOUS
    <3>1. expires'[u] = expires[u]
      BY <2>1 DEF IInv, TypeOK
    <3>2. expires[u] > now => expires[u] + Retention > stamp[t]
      BY <2>2, Durations
    <3> QED BY <2>1, <3>1, <3>2 DEF InForce
  <2>4. ~InForce(t)
    BY <2>2 DEF InForce
  <2>5. code[t] \notin told
    BY <2>1 DEF IInv, Out
  <2>6. CASE InForce(t)'
    <3>1. \A s : s \in SignedIn' <=> s \in SignedIn \/ s = code[t]
      BY <2>1, <2>3, <2>4, <2>6, SignedInMeaning, SignedInMeaningNext
    <3>2. SignedIn' = SignedIn \cup {code[t]}
      BY <3>1
    <3> QED BY <2>1, <2>2, <2>5, <3>2 DEF App!Next, App!Establish
  <2>7. CASE ~InForce(t)'
    <3>1. \A s : s \in SignedIn' <=> s \in SignedIn
      BY <2>1, <2>3, <2>4, <2>7, SignedInMeaning, SignedInMeaningNext
    <3> QED BY <2>1, <3>1 DEF App!Next, App!End
  <2> QED BY <2>6, <2>7
<1> QED BY <1>1, <1>2

\* Every step of the gateway is one of the abstract application or a stutter.
LEMMA StepImplements ==
  ASSUME IInv, IInv', [Next]_vars
  PROVE  [App!Next]_<<SignedIn, told>>
<1>0. ASSUME rows' \subseteq rows, UNCHANGED <<code, expires, told, now>> PROVE App!Next
  <2>1. now \in Nat
    BY DEF IInv, TypeOK
  <2> QED BY <1>0, <2>1, FewerRows DEF IInv, App!Next
<1>1. CASE Tick
  <2>1. UNCHANGED <<rows, code, expires, told>> /\ now' = now + 1 /\ now \in Nat
    BY <1>1 DEF Tick, sign, store, IInv, TypeOK
  <2>2. now' \in Nat /\ now <= now'
    BY <2>1
  <2> QED BY <2>1, <2>2, FewerRows DEF IInv, App!Next
<1>2. ASSUME NEW s \in Sid, EndSession(s) PROVE App!Next
  BY <1>2, <1>0 DEF EndSession, sign, store
<1>3. ASSUME NEW t \in Txn, NEW s \in Sid, Authorize(t, s) PROVE App!Next
  <2>1. UNCHANGED <<rows, expires, told, now>> /\ now \in Nat
    BY <1>3 DEF Authorize, store, IInv, TypeOK
  <2>2. \A u \in rows : code'[u] = code[u]
    BY <1>3 DEF Authorize, IInv, TypeOK
  <2> QED BY <2>1, <2>2, FewerRows DEF IInv, App!Next
<1>4. ASSUME NEW t \in Txn,
             (\E b \in Browser : Login(t, b)) \/ Callback(t) \/ Exchange(t) \/ Replace(t)
      PROVE  App!Next
  BY <1>4, <1>0 DEF Login, Callback, Opens, Exchange, Fail, Replace, store
<1>5. ASSUME NEW t \in Txn, Create(t) PROVE App!Next
  BY <1>5, CreateEstablishes
<1>6. ASSUME NEW b \in Browser, Logout(b) \/ RequireSession(b) PROVE App!Next
  BY <1>6, <1>0 DEF Logout, RequireSession, sign, store
<1>7. ASSUME NEW b \in Browser, NEW s \in Sid, FrontchannelLogout(b, s) PROVE App!Next
  <2>1. SignedIn' = SignedIn \ {s}
    BY <1>7, LogoutTakesAll DEF FrontchannelLogout, sign
  <2>2. told' = told \cup {s} \/ told' = told
    BY <1>7 DEF FrontchannelLogout
  <2> QED BY <2>1, <2>2 DEF App!Next, App!LogOut, App!End
<1>8. ASSUME NEW d \in Delivery, Record(d) PROVE App!Next
  <2>1. pending[d] \in Sid /\ UNCHANGED <<code, expires, now>>
    BY <1>8 DEF Record, IInv, TypeOK, sign
  <2>2. CASE rows' = Without(pending[d]) /\ told' = told \cup {pending[d]}
    <3>1. SignedIn' = SignedIn \ {pending[d]}
      BY <2>1, <2>2, LogoutTakesAll
    <3> QED BY <2>1, <2>2, <3>1 DEF App!Next, App!LogOut
  <2>3. CASE UNCHANGED <<rows, told>>
    BY <2>1, <2>3, <1>0
  <2> QED BY <1>8, <2>2, <2>3 DEF Record
<1>9. ASSUME NEW d \in Delivery, NEW s \in Sid, Receive(d, s) PROVE App!Next
  BY <1>9, <1>0 DEF Receive, sign, store
<1>10. CASE UNCHANGED vars
  BY <1>10, <1>0 DEF vars, sign, store
<1> QED BY <1>1, <1>2, <1>3, <1>4, <1>5, <1>6, <1>7, <1>8, <1>9, <1>10
        DEF Next, SignIn, SignOut

\* What GlobalLogout relies on, the gateway does: with tombstones that expire and
\* callbacks that are under way it behaves as an application that never forgets a
\* logout, for any number of sessions, transactions, browsers and deliveries.
THEOREM GatewayIsARelyingParty == Spec => LogsOutForGood
<1>1. Init => App!Init
  BY DEF Init, App!Init, SignedIn, InForce
<1>2. IInv /\ IInv' /\ [Next]_vars => [App!Next]_<<SignedIn, told>>
  BY StepImplements
<1> QED BY <1>1, <1>2, Invariance, PTL DEF Spec, LogsOutForGood, App!Spec
=============================================================================
