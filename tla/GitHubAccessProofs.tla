------------------------- MODULE GitHubAccessProofs -------------------------
(***************************************************************************)
(* What GitHubAccess.tla promises, for any number of accounts, logins,     *)
(* groups, rules and requests, and for any rules to begin with.            *)
(***************************************************************************)
EXTENDS GitHubAccess, TLAPS

-----------------------------------------------------------------------------
\* Types

\* A request's record has the fields of the step it is at.
LEMMA TaskShape ==
    ASSUME NEW x \in Task
    PROVE  /\ x.step = "evaluating" => x \in Evaluating
           /\ x.step = "granted" => x \in Granted
           /\ x.step = "starting" => x \in Starting
           /\ x.step = "listing" => x \in Listing
           /\ x.step = "next" => x \in Signing
           /\ x.step \in {"sessions", "tokens"} => x \in Revoking
BY DEF Task, Idle, Evaluating, Granted, Starting, Listing, Signing, Revoking

\* A sign-in that has written its account's role, and is about to start a
\* session, has an account.
Known ==
    \A p \in Process :
        \/ task[p].step = "starting"
        \/ task[p].step \in {"sessions", "tokens"} /\ task[p].then = "start"
        => role[task[p].user] # NoAccount

TInv == TypeOK /\ Known

LEMMA InitTyped == Init => TInv
<1> SUFFICES ASSUME Init PROVE TInv
  OBVIOUS
<1>1. rules \in [Rule -> Mapping \cup {Unmade, Deleted}]
  BY NamesAssumption DEF Init
<1>2. TypeOK
  BY <1>1 DEF Init, TypeOK, Task
<1>3. \A p \in Process : task[p].step = "idle"
  BY DEF Init, Idle
<1> QED
  BY <1>2, <1>3 DEF TInv, Known

LEMMA SignInTyped ==
    ASSUME TInv, NEW p \in SignIn, SignInStep(p)
    PROVE  TInv'
<1> USE DEF TInv
<1>t. p \in Process /\ task[p] \in Task
  BY DEF TypeOK, Process
<1>1. ASSUME NEW u \in User, NEW login \in Login \cup {NoLogin}, Callback(p, u, login)
      PROVE  TInv'
  <2>1. Unbound(login) \subseteq Rule
    BY DEF Unbound
  <2> DEFINE t == [step |-> "evaluating", user |-> u, named |-> Unbound(login), seen |-> rules]
  <2>2. t \in Evaluating
    BY <2>1 DEF Evaluating, TypeOK
  <2>3. task' = [task EXCEPT ![p] = t] /\ t \in Task
    BY <1>1, <2>2 DEF Callback, Task
  <2>4. TypeOK'
    BY <1>1, <1>t, <2>3 DEF Callback, TypeOK
  <2> QED
    BY <1>1, <1>t, <2>3, <2>4 DEF Callback, TypeOK, Known
<1>2. ASSUME NEW groups \in SUBSET Group, Evaluate(p, groups)
      PROVE  TInv'
  <2> DEFINE u == task[p].user
             bound == {r \in task[p].named : Bindable(r, u)}
             matched == Matched(p, groups, bound)
             admin == \E r \in matched : task[p].seen[r].role = "admin"
             grant == [step |-> "granted", user |-> u, matched |-> matched,
                       role |-> IF admin THEN "admin" ELSE "developer"]
             end == [step |-> "sessions", user |-> u, todo |-> {}, then |-> "refuse"]
  <2>1. task[p] \in Evaluating
    BY <1>2, <1>t, TaskShape DEF Evaluate
  <2>2. u \in User /\ bound \subseteq Rule /\ \A r \in bound : rules[r] \in UserRule
    BY <2>1 DEF Evaluating, Bindable
  <2>3. matched \subseteq Rule
    BY <2>2 DEF Matched
  <2>4. /\ rules' = [r \in Rule |-> IF r \in bound THEN [rules[r] EXCEPT !.id = u]
                                    ELSE rules[r]]
        /\ admitted' = [r \in Rule |->
                          IF r \in matched /\ task[p].seen[r] \in UserRule
                          THEN admitted[r] \cup {u} ELSE admitted[r]]
        /\ \E t \in {grant, end, Idle} : task' = [task EXCEPT ![p] = t]
        /\ UNCHANGED <<role, sessions, tokens, backing>>
    BY <1>2 DEF Evaluate
  <2>5. rules' \in [Rule -> Mapping \cup {Unmade, Deleted}]
    <3>1. \A r \in bound : [rules[r] EXCEPT !.id = u] \in UserRule
      BY <2>2 DEF UserRule
    <3> QED
      BY <2>4, <2>2, <3>1 DEF Mapping, TypeOK
  <2>6. admitted' \in [Rule -> SUBSET User]
    BY <2>4, <2>2 DEF TypeOK
  <2>7. grant \in Granted
    <3>1. (IF admin THEN "admin" ELSE "developer") \in Role
      BY DEF Role
    <3> HIDE DEF admin, matched, u
    <3> QED
      BY <3>1, <2>2, <2>3 DEF Granted
  <2>8. end \in Revoking
    BY <2>2 DEF Revoking
  <2> HIDE DEF grant
  <2>9. PICK t \in {grant, end, Idle} : task' = [task EXCEPT ![p] = t]
    BY <2>4
  <2>10. t \in Task
    BY <2>7, <2>8 DEF Task
  <2>11. TypeOK'
    BY <1>t, <2>4, <2>5, <2>6, <2>9, <2>10 DEF TypeOK
  <2>12. grant.step = "granted" /\ Idle.step = "idle" /\ end.then = "refuse"
    BY DEF grant, Idle
  <2>13. ~ (t.step = "starting" \/ (t.step \in {"sessions", "tokens"} /\ t.then = "start"))
    BY <2>12
  <2> QED
    BY <1>t, <2>4, <2>9, <2>11, <2>13 DEF Known, TypeOK
<1>3. CASE Synchronize(p)
  <2> DEFINE u == task[p].user
             end == [step |-> "sessions", user |-> u, todo |-> {}, then |-> "start"]
             start == [step |-> "starting", user |-> u]
  <2>1. task[p] \in Granted
    BY <1>3, <1>t, TaskShape DEF Synchronize
  <2>2. u \in User /\ task[p].role \in Role /\ task[p].matched \subseteq Rule
    BY <2>1 DEF Granted
  <2>3. role' = [role EXCEPT ![u] = task[p].role]
    BY <1>3 DEF Synchronize, WithRole
  <2>4. PICK t \in {end, start} : task' = [task EXCEPT ![p] = t]
    BY <1>3 DEF Synchronize
  <2>5. end \in Revoking /\ start \in Starting
    BY <2>2 DEF Revoking, Starting
  <2>6. t \in Task
    BY <2>4, <2>5 DEF Task
  <2>7. backing' \in [User -> SUBSET (Rule \cup {Excused})]
    BY <1>3, <2>2 DEF Synchronize, TypeOK
  <2>8. \A v \in User : role[v] # NoAccount => role'[v] # NoAccount
    BY <2>2, <2>3, NamesAssumption DEF TypeOK
  <2>9. role'[u] # NoAccount
    BY <2>2, <2>3, NamesAssumption DEF TypeOK
  <2>10. TypeOK'
    <3> HIDE DEF u, end, start
    <3>1. role' \in [User -> Role \cup {NoAccount}]
      BY <2>2, <2>3 DEF TypeOK
    <3>2. task' \in [Process -> Task]
      BY <1>t, <2>4, <2>6 DEF TypeOK
    <3>3. UNCHANGED <<rules, sessions, tokens, admitted>>
      BY <1>3 DEF Synchronize
    <3> QED
      BY <3>1, <3>2, <3>3, <2>7, <2>8 DEF TypeOK
  <2>11. t.user = u
    BY <2>4
  <2>12. \A q \in Process : task[q].step \in {"starting", "sessions", "tokens"} =>
                              task[q].user \in User
    BY TaskShape DEF TypeOK, Starting, Revoking
  <2>13. ASSUME NEW q \in Process,
                \/ task'[q].step = "starting"
                \/ task'[q].step \in {"sessions", "tokens"} /\ task'[q].then = "start"
         PROVE  role'[task'[q].user] # NoAccount
    <3>1. CASE q = p
      BY <3>1, <1>t, <2>4, <2>9, <2>11 DEF TypeOK
    <3>2. CASE q # p
      <4>1. task'[q] = task[q]
        BY <3>2, <1>t, <2>4 DEF TypeOK
      <4> QED
        BY <4>1, <2>13, <2>8, <2>12 DEF Known
    <3> QED
      BY <3>1, <3>2
  <2> QED
    BY <2>10, <2>13 DEF Known
<1>4. CASE StartSession(p)
  <2>1. task[p] \in Starting /\ role[task[p].user] # NoAccount
    BY <1>4, <1>t, TaskShape DEF StartSession, Known
  <2>2. TypeOK'
    BY <1>4, <1>t, <2>1 DEF StartSession, TypeOK, Task, Starting
  <2> QED
    BY <1>4, <1>t, <2>2 DEF StartSession, TypeOK, Known, Idle
<1> QED
  BY <1>1, <1>2, <1>3, <1>4 DEF SignInStep, Profile, Memberships

\* Operators and the revocations they and the sign-ins make.
LEMMA OtherTyped ==
    ASSUME TInv,
           \/ \E p \in Operator : OperatorStep(p)
           \/ \E p \in Process : \/ RevokeSessions(p) \/ RevokeTokens(p)
                                \/ RevokeFails(p) \/ Abandon(p)
           \/ \E u \in User : AccountStep(u)
           \/ \E r \in Rule, rule \in Mapping : CreateRule(r, rule)
    PROVE  TInv'
<1> USE DEF TInv
<1>p. Operator \subseteq Process
  BY DEF Process
<1>t. \A p \in Process : task[p] \in Task
  BY DEF TypeOK
<1>i. Idle \in Task /\ Idle.step = "idle"
  BY DEF Idle, Task
<1>e. ASSUME NEW users, Excuse(users)
      PROVE  backing' \in [User -> SUBSET (Rule \cup {Excused})]
  BY <1>e DEF Excuse, TypeOK
<1>1. ASSUME NEW p \in Operator, NEW r \in Rule, DeleteRule(p, r) PROVE TInv'
  <2> DEFINE t == [step |-> "listing", rule |-> rules[r]]
  <2>1. t \in Listing
    BY <1>1 DEF DeleteRule, Listing
  <2>2. t \in Task /\ task' = [task EXCEPT ![p] = t] /\ t.step = "listing"
    BY <1>1, <2>1 DEF DeleteRule, Task
  <2>3. TypeOK'
    BY <1>1, <1>p, <1>e, <2>2 DEF DeleteRule, TypeOK
  <2> QED
    BY <1>1, <1>p, <2>2, <2>3 DEF DeleteRule, TypeOK, Known
<1>2. ASSUME NEW p \in Operator, ListAccounts(p) PROVE TInv'
  <2>1. PICK extra \in SUBSET User :
           task' = [task EXCEPT ![p] = [step |-> "next",
                                        todo |-> Affected(task[p].rule) \cup extra]]
    BY <1>2 DEF ListAccounts
  <2> DEFINE t == [step |-> "next", todo |-> Affected(task[p].rule) \cup extra]
  <2>2. t \in Signing
    BY DEF Affected, Signing
  <2>3. t \in Task /\ task' = [task EXCEPT ![p] = t] /\ t.step = "next"
    BY <2>1, <2>2 DEF Task
  <2>4. TypeOK'
    BY <1>2, <1>p, <2>3 DEF ListAccounts, TypeOK
  <2> QED
    BY <1>2, <1>p, <2>3, <2>4 DEF ListAccounts, TypeOK, Known
<1>3. ASSUME NEW p \in Operator, NextAccount(p) PROVE TInv'
  <2>1. task[p] \in Signing
    BY <1>3, <1>p, <1>t, TaskShape DEF NextAccount
  <2>2. PICK t \in {Idle} \cup Revoking :
           /\ task' = [task EXCEPT ![p] = t]
           /\ t \in Revoking => t.then = "next"
    <3>1. CASE task[p].todo = {}
      BY <1>3, <3>1, <1>i DEF NextAccount, Revoking
    <3>2. CASE task[p].todo # {}
      <4>1. PICK u \in task[p].todo :
               task' = [task EXCEPT ![p] = [step |-> "sessions", user |-> u,
                                            todo |-> task[p].todo \ {u}, then |-> "next"]]
        BY <1>3, <3>2 DEF NextAccount
      <4> DEFINE x == [step |-> "sessions", user |-> u, todo |-> task[p].todo \ {u},
                       then |-> "next"]
      <4>2. x \in Revoking /\ x.then = "next"
        BY <2>1, <4>1 DEF Signing, Revoking
      <4>3. task' = [task EXCEPT ![p] = x]
        BY <4>1
      <4> HIDE DEF x
      <4> QED
        BY <4>2, <4>3
    <3> QED
      BY <3>1, <3>2
  <2>3. t \in Task
    BY <2>2 DEF Task
  <2>4. TypeOK'
    BY <1>3, <1>p, <2>2, <2>3 DEF NextAccount, TypeOK
  <2>5. ~ (t.step = "starting" \/ (t.step \in {"sessions", "tokens"} /\ t.then = "start"))
    BY <2>2, <1>i DEF Revoking
  <2> QED
    BY <1>3, <1>p, <2>2, <2>4, <2>5 DEF NextAccount, TypeOK, Known
<1>4. ASSUME NEW p \in Process, RevokeSessions(p) PROVE TInv'
  <2>1. task[p] \in Revoking
    BY <1>4, <1>t, TaskShape DEF RevokeSessions
  <2> DEFINE t == [task[p] EXCEPT !.step = "tokens"]
  <2>2. t \in Revoking /\ t.user = task[p].user /\ t.then = task[p].then
    BY <2>1 DEF Revoking
  <2>3. task' = [task EXCEPT ![p] = t] /\ t \in Task
    BY <1>4, <2>2 DEF RevokeSessions, Task
  <2>4. TypeOK'
    BY <1>4, <2>3 DEF RevokeSessions, TypeOK
  <2>5. task[p].step = "sessions" /\ t.step = "tokens"
    BY <1>4, <2>1 DEF RevokeSessions, Revoking
  <2> HIDE DEF t
  <2> QED
    BY <1>4, <2>2, <2>3, <2>4, <2>5 DEF RevokeSessions, TypeOK, Known
<1>c. ASSUME NEW p \in Process, task[p] \in Revoking
      PROVE  /\ Continue(p) \in Task
             /\ Continue(p).step \in {"idle", "starting", "next"}
             /\ Continue(p).step = "starting" =>
                  task[p].then = "start" /\ Continue(p).user = task[p].user
  <2>1. [step |-> "starting", user |-> task[p].user] \in Starting
    BY <1>c DEF Revoking, Starting
  <2>2. [step |-> "next", todo |-> task[p].todo] \in Signing
    BY <1>c DEF Revoking, Signing
  <2>3. task[p].then \in {"refuse", "start", "next"}
    BY <1>c DEF Revoking
  <2> QED
    BY <2>1, <2>2, <2>3, <1>i DEF Continue, Task
<1>5. ASSUME NEW p \in Process, RevokeTokens(p) PROVE TInv'
  <2>1. task[p] \in Revoking
    BY <1>5, <1>t, TaskShape DEF RevokeTokens
  <2>2. task[p].step = "tokens" /\ task[p].user \in User
    BY <1>5, <2>1 DEF RevokeTokens, Revoking
  <2>3. TypeOK'
    BY <1>5, <1>c, <2>1, <2>2 DEF RevokeTokens, TypeOK
  <2> QED
    BY <1>5, <1>c, <2>1, <2>2, <2>3 DEF RevokeTokens, TypeOK, Known
<1>6. ASSUME NEW p \in Process, RevokeFails(p) PROVE TInv'
  <2>1. task[p] \in Revoking
    BY <1>6, <1>t, TaskShape DEF RevokeFails
  <2>2. PICK t \in {Idle, Continue(p)} :
           task' = [task EXCEPT ![p] = t] /\ t.step \in {"idle", "next"}
    <3>1. task[p].then = "next" => Continue(p).step = "next"
      BY DEF Continue
    <3> QED
      BY <1>6, <3>1, <1>i DEF RevokeFails
  <2>3. t \in Task
    BY <1>c, <1>i, <2>1, <2>2
  <2>4. TypeOK'
    BY <1>6, <1>e, <2>2, <2>3 DEF RevokeFails, TypeOK
  <2> QED
    BY <1>6, <2>2, <2>4 DEF RevokeFails, TypeOK, Known
<1>7. ASSUME NEW p \in Process, Abandon(p) PROVE TInv'
  <2>1. TypeOK'
    BY <1>7, <1>e, <1>i DEF Abandon, TypeOK
  <2> QED
    BY <1>7, <1>i, <2>1 DEF Abandon, TypeOK, Known
<1>8. ASSUME NEW u \in User, AccountStep(u) PROVE TInv'
  <2>1. TypeOK'
    BY <1>8 DEF AccountStep, IssueToken, Lapse, TypeOK
  <2> QED
    BY <1>8, <2>1 DEF AccountStep, IssueToken, Lapse, Known
<1>9. ASSUME NEW r \in Rule, NEW rule \in Mapping, CreateRule(r, rule) PROVE TInv'
  <2>1. TypeOK'
    BY <1>9 DEF CreateRule, Resolved, Insertable, TypeOK
  <2> QED
    BY <1>9, <2>1 DEF CreateRule, Resolved, Insertable, Known
<1> QED
  BY <1>1, <1>2, <1>3, <1>4, <1>5, <1>6, <1>7, <1>8, <1>9 DEF OperatorStep

LEMMA NextTyped == TInv /\ [Next]_vars => TInv'
<1> SUFFICES ASSUME TInv, [Next]_vars PROVE TInv'
  OBVIOUS
<1>1. CASE UNCHANGED vars
  BY <1>1 DEF vars, TInv, TypeOK, Known
<1>2. CASE Next
  BY <1>2, SignInTyped, OtherTyped DEF Next
<1> QED
  BY <1>1, <1>2

\* Every reachable state is well typed: each request has at hand what its next
\* step works on, and only accounts that exist have sessions (githubCallback,
\* deleteGitHubMapping, revokeUserSessions).
THEOREM TypeCorrect == Spec => []TypeOK
<1>1. Spec => []TInv
  BY InitTyped, NextTyped, PTL DEF Spec
<1>2. TInv => TypeOK
  BY DEF TInv
<1> QED
  BY <1>1, <1>2, PTL

-----------------------------------------------------------------------------
\* User rules

\* A user rule whose account is known.
Bound(rule) == rule \in UserRule /\ rule.id # NoUser

Evaluates(p) == task[p].step = "evaluating"

\* What a rule has admitted goes with what it says now: a bound rule has
\* admitted its account only, any other rule that is there nobody.
Named ==
    \A r \in Rule :
        /\ Bound(rules[r]) => admitted[r] \subseteq {rules[r].id}
        /\ rules[r] # Deleted /\ ~Bound(rules[r]) => admitted[r] = {}

\* A sign-in that acts on the rules as it read them: a user rule is what it was,
\* or has been bound since, or is deleted.
Snapshot ==
    \A p \in Process : Evaluates(p) =>
        /\ \A r \in task[p].named : task[p].seen[r] \in UserRule
        /\ \A r \in Rule : task[p].seen[r] \in UserRule =>
                            rules[r] \in UserRule \/ rules[r] = Deleted
        /\ \A r \in Rule : Bound(task[p].seen[r]) =>
              /\ admitted[r] \subseteq {task[p].seen[r].id}
              /\ rules[r] # Deleted => rules[r].id = task[p].seen[r].id

\* Two sign-ins that read a bound rule read the same account, even if the rule
\* is deleted by now.
Agreed ==
    \A p, q \in Process : Evaluates(p) /\ Evaluates(q) =>
        \A r \in Rule : Bound(task[p].seen[r]) /\ Bound(task[q].seen[r]) =>
                          task[p].seen[r].id = task[q].seen[r].id

NInv == RuleNamesOne /\ Named /\ Snapshot /\ Agreed

LEMMA InitNames == Init => NInv
<1> SUFFICES ASSUME Init PROVE NInv
  OBVIOUS
<1>1. \A p \in Process : ~Evaluates(p)
  BY DEF Init, Idle, Evaluates
<1>2. \A r \in Rule : admitted[r] = {}
  BY DEF Init
<1> QED
  BY <1>1, <1>2 DEF NInv, RuleNamesOne, Named, Snapshot, Agreed

\* A step that neither touches the rules nor begins to evaluate them.
LEMMA NamesElsewhere ==
    ASSUME TInv, NInv, UNCHANGED <<rules, admitted>>,
           \A p \in Process : Evaluates(p)' => task'[p] = task[p]
    PROVE  NInv'
<1>1. \A p \in Process : Evaluates(p)' => Evaluates(p) /\ task'[p] = task[p]
  BY DEF Evaluates
<1>2. RuleNamesOne' /\ Named'
  BY DEF NInv, RuleNamesOne, Named
<1>3. Snapshot'
  BY <1>1 DEF NInv, Snapshot
<1>4. Agreed'
  BY <1>1 DEF NInv, Agreed
<1> QED
  BY <1>2, <1>3, <1>4 DEF NInv

LEMMA CallbackNames ==
    ASSUME TInv, NInv, NEW p \in SignIn, NEW u \in User, NEW login,
           Callback(p, u, login)
    PROVE  NInv'
<1>1. UNCHANGED <<rules, admitted>>
  BY DEF Callback
<1>2. /\ p \in Process
      /\ task'[p].seen = rules
      /\ task'[p].named = Unbound(login)
      /\ \A q \in Process : q # p => task'[q] = task[q]
  BY DEF Callback, TInv, TypeOK, Process
<1>3. RuleNamesOne' /\ Named'
  BY <1>1 DEF NInv, RuleNamesOne, Named
<1>4. Snapshot'
  BY <1>1, <1>2 DEF NInv, Snapshot, Named, Evaluates, Unbound, Bound
<1>5. Agreed'
  <2> SUFFICES ASSUME NEW q \in Process, NEW s \in Process, Evaluates(q)', Evaluates(s)',
                      NEW r \in Rule, Bound(task'[q].seen[r]), Bound(task'[s].seen[r])
               PROVE  task'[q].seen[r].id = task'[s].seen[r].id
    BY DEF Agreed
  <2>1. ASSUME NEW x \in Process, Evaluates(x)', Bound(task'[x].seen[r]), x # p,
               Bound(rules[r])
        PROVE  task'[x].seen[r].id = rules[r].id
    BY <1>2, <2>1, NamesAssumption DEF NInv, Snapshot, Evaluates, Bound, Mapping
  <2>2. CASE q = p \/ s = p
    BY <2>1, <2>2, <1>2
  <2>3. CASE q # p /\ s # p
    BY <2>3, <1>2 DEF NInv, Agreed, Evaluates
  <2> QED
    BY <2>2, <2>3
<1> QED
  BY <1>3, <1>4, <1>5 DEF NInv

\* githubRole: a rule that matches was bound to this account when it was read,
\* or is bound to it now and has admitted nobody.
LEMMA EvaluateNames ==
    ASSUME TInv, NInv, NEW p \in SignIn, NEW groups \in SUBSET Group, Evaluate(p, groups)
    PROVE  NInv'
<1> DEFINE u == task[p].user
           bound == {r \in task[p].named : Bindable(r, u)}
           matched == Matched(p, groups, bound)
           new == {r \in matched : task[p].seen[r] \in UserRule}
<1>t. p \in Process /\ task[p] \in Task /\ Evaluates(p)
  BY DEF TInv, TypeOK, Process, Evaluate, Evaluates
<1>1. task[p] \in Evaluating
  BY <1>t, TaskShape DEF Evaluates
<1>2. u \in User /\ u # NoUser /\ bound \subseteq Rule
  BY <1>1, NamesAssumption DEF Evaluating
<1>3. /\ rules' = [r \in Rule |-> IF r \in bound THEN [rules[r] EXCEPT !.id = u]
                                  ELSE rules[r]]
      /\ admitted' = [r \in Rule |-> IF r \in new THEN admitted[r] \cup {u} ELSE admitted[r]]
  BY DEF Evaluate
<1>4. \A q \in Process : Evaluates(q)' => Evaluates(q) /\ task'[q] = task[q]
  <2>1. task'[p].step \in {"granted", "sessions", "idle"}
    BY <1>t DEF Evaluate, TInv, TypeOK, Idle
  <2>2. \A q \in Process : q # p => task'[q] = task[q]
    BY <1>t DEF Evaluate, TInv, TypeOK
  <2> QED
    BY <2>1, <2>2 DEF Evaluates
<1>5. ASSUME NEW r \in bound
      PROVE  /\ rules[r] \in UserRule /\ rules[r].id = NoUser
             /\ rules'[r] \in UserRule /\ rules'[r].id = u
             /\ admitted[r] = {} /\ r \in new
  <2>1. rules[r] \in UserRule /\ rules[r].id = NoUser /\ r \in task[p].named /\ r \in Rule
    BY <1>5, <1>2 DEF Bindable
  <2>2. rules'[r] \in UserRule /\ rules'[r].id = u
    BY <2>1, <1>2, <1>3 DEF UserRule
  <2>3. admitted[r] = {}
    BY <2>1, NamesAssumption DEF NInv, Named, Bound, Mapping
  <2>4. task[p].seen[r] \in UserRule
    BY <2>1, <1>t DEF NInv, Snapshot
  <2>5. r \in matched
    BY <2>1 DEF Matched
  <2> QED
    BY <2>1, <2>2, <2>3, <2>4, <2>5
<1>6. ASSUME NEW r \in new, r \notin bound
      PROVE  Bound(task[p].seen[r]) /\ task[p].seen[r].id = u /\ r \in Rule
  <2>1. r \in matched /\ task[p].seen[r] \in UserRule
    BY <1>6
  <2>2. r \in Rule /\ (task[p].seen[r] \in GroupRule \/ task[p].seen[r].id = u)
    BY <2>1, <1>6 DEF Matched
  <2>3. task[p].seen[r] \notin GroupRule
    BY <2>1 DEF UserRule, GroupRule
  <2> QED
    BY <2>1, <2>2, <2>3, <1>2 DEF Bound
<1> HIDE DEF bound, new, matched, u
<1>7. ASSUME NEW r \in Rule
      PROVE  /\ r \notin bound => rules'[r] = rules[r]
             /\ admitted'[r] = IF r \in new THEN admitted[r] \cup {u} ELSE admitted[r]
  BY <1>3
<1>8. ASSUME NEW r \in new, r \notin bound
      PROVE  /\ admitted'[r] = admitted[r] \cup {u}
             /\ admitted[r] \subseteq {u}
             /\ rules[r] # Deleted => rules[r] \in UserRule /\ rules[r].id = u
  BY <1>6, <1>7, <1>8, <1>t DEF NInv, Snapshot, Bound
<1>9. RuleNamesOne'
  <2> SUFFICES ASSUME NEW r \in Rule PROVE \A x, y \in admitted'[r] : x = y
    BY DEF RuleNamesOne
  <2>1. CASE r \in bound
    BY <2>1, <1>5, <1>7
  <2>2. CASE r \in new /\ r \notin bound
    BY <2>2, <1>8
  <2>3. CASE r \notin new
    BY <2>3, <1>7 DEF NInv, RuleNamesOne
  <2> QED
    BY <2>1, <2>2, <2>3
<1>10. Named'
  <2> SUFFICES ASSUME NEW r \in Rule
               PROVE  /\ Bound(rules'[r]) => admitted'[r] \subseteq {rules'[r].id}
                      /\ rules'[r] # Deleted /\ ~Bound(rules'[r]) => admitted'[r] = {}
    BY DEF Named
  <2>1. CASE r \in bound
    BY <2>1, <1>2, <1>5, <1>7 DEF Bound
  <2>2. CASE r \in new /\ r \notin bound
    <3>1. \A m \in UserRule : m # Deleted
      BY NamesAssumption DEF Mapping
    <3>2. rules'[r] = rules[r] /\ admitted'[r] \subseteq {u}
      BY <2>2, <1>7, <1>8
    <3> QED
      BY <2>2, <3>1, <3>2, <1>2, <1>8 DEF Bound
  <2>3. CASE r \notin new
    BY <2>3, <1>5, <1>7 DEF NInv, Named
  <2> QED
    BY <2>1, <2>2, <2>3
<1>11. Snapshot'
  <2> SUFFICES ASSUME NEW q \in Process, Evaluates(q)'
               PROVE  /\ \A r \in task'[q].named : task'[q].seen[r] \in UserRule
                      /\ \A r \in Rule : task'[q].seen[r] \in UserRule =>
                                          rules'[r] \in UserRule \/ rules'[r] = Deleted
                      /\ \A r \in Rule : Bound(task'[q].seen[r]) =>
                            /\ admitted'[r] \subseteq {task'[q].seen[r].id}
                            /\ rules'[r] # Deleted => rules'[r].id = task'[q].seen[r].id
    BY DEF Snapshot
  <2>1. Evaluates(q) /\ task'[q] = task[q]
    BY <1>4
  <2>2. \A r \in task'[q].named : task'[q].seen[r] \in UserRule
    BY <2>1 DEF NInv, Snapshot
  <2>3. ASSUME NEW r \in Rule, task'[q].seen[r] \in UserRule
        PROVE  rules'[r] \in UserRule \/ rules'[r] = Deleted
    BY <2>1, <2>3, <1>5, <1>7 DEF NInv, Snapshot
  <2>4. ASSUME NEW r \in Rule, Bound(task'[q].seen[r])
        PROVE  /\ admitted'[r] \subseteq {task'[q].seen[r].id}
               /\ rules'[r] # Deleted => rules'[r].id = task'[q].seen[r].id
    <3>1. Bound(task[q].seen[r]) /\ task'[q].seen[r] = task[q].seen[r]
      BY <2>1, <2>4
    <3>2. r \notin bound
      <4>1. rules[r] # Deleted => rules[r].id # NoUser
        BY <2>1, <3>1 DEF NInv, Snapshot, Bound
      <4>2. \A s \in UserRule : s # Deleted
        BY NamesAssumption DEF Mapping
      <4> QED
        BY <4>1, <4>2, <1>5
    <3>3. rules'[r] # Deleted => rules'[r].id = task[q].seen[r].id
      BY <2>1, <3>1, <3>2, <1>7 DEF NInv, Snapshot
    <3>4. r \in new => task[q].seen[r].id = u
      BY <3>1, <3>2, <2>1, <1>6, <1>t DEF NInv, Agreed
    <3>5. admitted[r] \subseteq {task[q].seen[r].id}
      BY <2>1, <3>1 DEF NInv, Snapshot
    <3> QED
      BY <3>1, <3>3, <3>4, <3>5, <1>7
  <2> QED
    BY <2>2, <2>3, <2>4
<1>12. Agreed'
  BY <1>4 DEF NInv, Agreed
<1> QED
  BY <1>9, <1>10, <1>11, <1>12 DEF NInv

LEMMA RulesNames ==
    ASSUME TInv, NInv,
           \/ \E p \in Operator, r \in Rule : DeleteRule(p, r)
           \/ \E r \in Rule, rule \in Mapping : CreateRule(r, rule)
    PROVE  NInv'
<1>1. PICK r \in Rule, x \in Mapping \cup {Deleted} :
         /\ rules' = [rules EXCEPT ![r] = x]
         /\ x = Deleted \/ rules[r] = Unmade
         /\ UNCHANGED admitted
  BY DEF DeleteRule, CreateRule, Resolved, Insertable
<1>2. \A q \in Process : Evaluates(q)' => Evaluates(q) /\ task'[q] = task[q]
  <2>1. ASSUME NEW p \in Operator, NEW s \in Rule, DeleteRule(p, s)
        PROVE  \A q \in Process : Evaluates(q)' => task'[q] = task[q]
    <3>1. task'[p].step = "listing" /\ \A q \in Process : q # p => task'[q] = task[q]
      BY <2>1 DEF DeleteRule, TInv, TypeOK, Process
    <3> QED
      BY <3>1 DEF Evaluates
  <2>2. ASSUME NEW s \in Rule, NEW rule \in Mapping, CreateRule(s, rule)
        PROVE  UNCHANGED task
    BY <2>2 DEF CreateRule, Resolved, Insertable
  <2> QED
    BY <2>1, <2>2 DEF Evaluates
<1>3. /\ rules'[r] = x
      /\ \A s \in Rule : s # r => rules'[s] = rules[s]
  BY <1>1 DEF TInv, TypeOK
<1>4. Unmade # Deleted /\ \A m \in UserRule : m # Deleted /\ m # Unmade
  BY NamesAssumption DEF Mapping
<1>5. x = Deleted \/ admitted[r] = {}
  BY <1>1, <1>4 DEF NInv, Named, Bound
<1>6. RuleNamesOne'
  BY <1>1 DEF NInv, RuleNamesOne
<1>7. Named'
  BY <1>1, <1>3, <1>4, <1>5 DEF NInv, Named, Bound
<1>8. Snapshot'
  BY <1>1, <1>2, <1>3, <1>4 DEF NInv, Snapshot, Bound
<1>9. Agreed'
  BY <1>2 DEF NInv, Agreed
<1> QED
  BY <1>6, <1>7, <1>8, <1>9 DEF NInv

LEMMA NextNames == TInv /\ TInv' /\ NInv /\ [Next]_vars => NInv'
<1> SUFFICES ASSUME TInv, NInv, [Next]_vars PROVE NInv'
  OBVIOUS
<1>t. task \in [Process -> Task] /\ SignIn \subseteq Process /\ Operator \subseteq Process
  BY DEF TInv, TypeOK, Process
<1>1. CASE UNCHANGED vars
  BY <1>1, NamesElsewhere DEF vars
<1>2. ASSUME NEW p \in SignIn, SignInStep(p) PROVE NInv'
  <2>1. CASE Synchronize(p) \/ StartSession(p)
    BY <2>1, <1>t, NamesElsewhere DEF Synchronize, StartSession, Evaluates, Idle
  <2> QED
    BY <1>2, <2>1, CallbackNames, EvaluateNames DEF SignInStep, Profile, Memberships
<1>3. ASSUME NEW p \in Operator, OperatorStep(p) PROVE NInv'
  <2>1. CASE ListAccounts(p) \/ NextAccount(p)
    BY <2>1, <1>t, NamesElsewhere DEF ListAccounts, NextAccount, Evaluates, Idle
  <2> QED
    BY <1>3, <2>1, RulesNames DEF OperatorStep
<1>4. ASSUME NEW p \in Process,
             RevokeSessions(p) \/ RevokeTokens(p) \/ RevokeFails(p) \/ Abandon(p)
      PROVE  NInv'
  <2>1. UNCHANGED <<rules, admitted>>
    BY <1>4 DEF RevokeSessions, RevokeTokens, RevokeFails, Abandon
  <2>2. \A q \in Process : q # p => task'[q] = task[q]
    BY <1>4, <1>t DEF RevokeSessions, RevokeTokens, RevokeFails, Abandon
  <2>3. task'[p].step # "evaluating"
    <3>1. CASE RevokeSessions(p)
      <4>1. task[p] \in Revoking
        BY <3>1, <1>t, TaskShape DEF RevokeSessions
      <4> QED
        BY <3>1, <4>1, <1>t DEF RevokeSessions, Revoking
    <3>2. CASE RevokeTokens(p) \/ RevokeFails(p)
      <4>1. task[p] \in Revoking
        BY <3>2, <1>t, TaskShape DEF RevokeTokens, RevokeFails
      <4>2. Continue(p).step # "evaluating" /\ Idle.step # "evaluating"
        BY <4>1 DEF Continue, Revoking, Idle
      <4> QED
        BY <3>2, <4>2, <1>t DEF RevokeTokens, RevokeFails
    <3>3. CASE Abandon(p)
      BY <3>3, <1>t DEF Abandon, Idle
    <3> QED
      BY <1>4, <3>1, <3>2, <3>3
  <2> QED
    BY <2>1, <2>2, <2>3, NamesElsewhere DEF Evaluates
<1>5. ASSUME NEW u \in User, AccountStep(u) PROVE NInv'
  BY <1>5, NamesElsewhere DEF AccountStep, IssueToken, Lapse
<1> QED
  BY <1>1, <1>2, <1>3, <1>4, <1>5, RulesNames DEF Next

\* A user rule never admits a second account, whoever claims the login it was
\* written for and however many sign-ins bind old rules at once
\* (githubUserRuleMatches, BindGitHubUserMapping).
THEOREM RulesNameOneAccount == Spec => []RuleNamesOne
<1>1. Spec => []TInv
  BY InitTyped, NextTyped, PTL DEF Spec
<1>2. Spec => []NInv
  BY <1>1, InitNames, NextNames, PTL DEF Spec
<1>3. NInv => RuleNamesOne
  BY DEF NInv
<1> QED
  BY <1>2, <1>3, PTL

-----------------------------------------------------------------------------
\* Roles in force

\* What became of a rule that admitted u: it is deleted, or it is there and, if
\* it is a user rule, bound to u.
Fits(k, u) ==
    \/ rules[k] = Deleted
    \/ rules[k] \in Mapping /\ (rules[k].kind = "user" => rules[k].id = u)

\* A rule keeps its kind and its role until it is deleted.
Lineage ==
    /\ \A p \in SignIn : Evaluates(p) =>
          \A r \in Rule : task[p].seen[r] \in Mapping =>
              \/ rules[r] = Deleted
              \/ /\ rules[r] \in Mapping
                 /\ rules[r].kind = task[p].seen[r].kind
                 /\ rules[r].role = task[p].seen[r].role
    /\ \A p \in SignIn : task[p].step = "granted" =>
          \A k \in task[p].matched : Fits(k, task[p].user)
    /\ \A u \in User : \A k \in backing[u] \cap Rule : Fits(k, u)

IsExcused(u) == Excused \in backing[u]

\* A rule that admitted u at its last sign-in grants the role it has.
Backed(u) == \E k \in backing[u] \cap Rule : rules[k] \in Mapping /\ rules[k].role = role[u]

\* A sign-in that has written its account's role and is to start a session.
Entering(p) ==
    \/ task[p].step = "starting"
    \/ task[p].step \in {"sessions", "tokens"} /\ task[p].then = "start"

\* No rule a sign-in depends on is deleted under it, unless its account is
\* excused.
Fresh ==
    \A p \in SignIn :
        /\ Evaluates(p) /\ ~IsExcused(task[p].user) =>
              \A r \in Rule : task[p].seen[r] \in Mapping => rules[r] # Deleted
        /\ task[p].step = "granted" /\ ~IsExcused(task[p].user) =>
              \E k \in task[p].matched : rules[k] \in Mapping /\ rules[k].role = task[p].role
        /\ Entering(p) /\ ~IsExcused(task[p].user) => Backed(task[p].user)

\* Only a deletion has further accounts to sign out.
Alone ==
    \A p \in Process :
        task[p].step \in {"sessions", "tokens"} /\ task[p].then # "next" => task[p].todo = {}

\* Somebody has u on its list.
Waits(p, u) ==
    task[p].step \in {"next", "sessions", "tokens"} /\ u \in task[p].todo

\* The sessions of u are about to be ended.
Pending(u) ==
    \E p \in Process : Waits(p, u) \/ (task[p].step = "sessions" /\ task[p].user = u)

\* The tokens of u are about to be ended.
Doomed(u) ==
    \E p \in Process :
        Waits(p, u) \/ (task[p].step \in {"sessions", "tokens"} /\ task[p].user = u)

\* A rule was deleted that u is about to be listed for.
Listed(u) ==
    \E p \in Process : task[p].step = "listing" /\ u \in Affected(task[p].rule)

\* Nobody's tokens say more than the account's role, nor does an account have a
\* session or tokens without a rule behind its role, unless they are about to
\* be ended.
Held ==
    \A u \in User : ~IsExcused(u) =>
        /\ tokens[u] = "admin" => role[u] = "admin" \/ Doomed(u)
        /\ u \in sessions => Backed(u) \/ Listed(u) \/ Pending(u)
        /\ tokens[u] # NoAccount => Backed(u) \/ Listed(u) \/ Doomed(u)

OInv == Lineage /\ Fresh /\ Alone /\ Held

LEMMA InitHeld == Init => OInv
<1> SUFFICES ASSUME Init PROVE OInv
  OBVIOUS
<1>1. \A p \in Process : task[p].step = "idle"
  BY DEF Init, Idle
<1>2. SignIn \subseteq Process
  BY DEF Process
<1>3. Lineage /\ Fresh /\ Alone
  BY <1>1, <1>2 DEF Lineage, Fresh, Alone, Evaluates, Entering, Init
<1>4. NoAccount # "admin"
  BY NamesAssumption DEF Role
<1>5. Held
  BY <1>4 DEF Held, Init
<1> QED
  BY <1>3, <1>5 DEF OInv

\* Whoever is about to be signed out stays so, unless by the step of the
\* request that is about to do it.
LEMMA Handover ==
    ASSUME NEW p \in Process, \A q \in Process : q # p => task'[q] = task[q], NEW u
    PROVE  /\ Pending(u) => \/ Pending(u)'
                            \/ Waits(p, u)
                            \/ task[p].step = "sessions" /\ task[p].user = u
           /\ Doomed(u) => \/ Doomed(u)'
                           \/ Waits(p, u)
                           \/ task[p].step \in {"sessions", "tokens"} /\ task[p].user = u
           /\ Listed(u) /\ role' = role =>
                  \/ Listed(u)'
                  \/ task[p].step = "listing" /\ u \in Affected(task[p].rule)
<1>3. Pending(u) => \/ Pending(u)'
                    \/ Waits(p, u)
                    \/ task[p].step = "sessions" /\ task[p].user = u
  BY DEF Pending, Waits
<1>4. Doomed(u) => \/ Doomed(u)'
                   \/ Waits(p, u)
                   \/ task[p].step \in {"sessions", "tokens"} /\ task[p].user = u
  BY DEF Doomed, Waits
<1>5. Listed(u) /\ role' = role =>
         \/ Listed(u)'
         \/ task[p].step = "listing" /\ u \in Affected(task[p].rule)
  BY DEF Listed, Affected
<1> QED
  BY <1>3, <1>4, <1>5

\* Steps that leave rules, roles and history alone, and every request but p.
LEMMA BackedElsewhere ==
    ASSUME OInv, UNCHANGED <<rules, role, backing>>, NEW p \in Process,
           \A q \in Process : q # p => task'[q] = task[q],
           p \in SignIn => /\ task'[p].step # "granted"
                           /\ Evaluates(p)' => task'[p].seen = rules
                           /\ Entering(p)' => /\ Entering(p)
                                              /\ task'[p].user = task[p].user
    PROVE  Lineage' /\ Fresh'
<1>2. \A q \in SignIn : q \in Process
  BY DEF Process
<1>3. Deleted \notin Mapping
  BY NamesAssumption
<1>4. Lineage'
  <2>1. ASSUME NEW q \in SignIn, Evaluates(q)', NEW r \in Rule, task'[q].seen[r] \in Mapping
        PROVE  \/ rules'[r] = Deleted
               \/ /\ rules'[r] \in Mapping
                  /\ rules'[r].kind = task'[q].seen[r].kind
                  /\ rules'[r].role = task'[q].seen[r].role
    BY <2>1, <1>2 DEF OInv, Lineage, Evaluates
  <2>2. ASSUME NEW q \in SignIn, task'[q].step = "granted", NEW k \in task'[q].matched
        PROVE  Fits(k, task[q].user)'
    <3>1. task'[q] = task[q]
      BY <2>2, <1>2
    <3> QED
      BY <3>1, <2>2 DEF OInv, Lineage, Fits
  <2>3. \A u \in User : \A k \in backing'[u] \cap Rule : Fits(k, u)'
    BY DEF OInv, Lineage, Fits
  <2> QED
    BY <2>1, <2>2, <2>3 DEF Lineage
<1>5. Fresh'
  <2> SUFFICES ASSUME NEW q \in SignIn, ~IsExcused(task[q].user)'
               PROVE  /\ Evaluates(q)' =>
                            \A r \in Rule : task'[q].seen[r] \in Mapping => rules'[r] # Deleted
                      /\ task'[q].step = "granted" =>
                            \E k \in task'[q].matched :
                                rules'[k] \in Mapping /\ rules'[k].role = task'[q].role
                      /\ Entering(q)' => Backed(task[q].user)'
    BY DEF Fresh
  <2>1. CASE q = p
    BY <2>1, <1>3 DEF OInv, Fresh, Backed, IsExcused
  <2>2. CASE q # p
    <3>1. task'[q] = task[q] /\ (Evaluates(q)' <=> Evaluates(q)) /\ (Entering(q)' <=> Entering(q))
      BY <2>2, <1>2 DEF Evaluates, Entering
    <3>2. ~IsExcused(task[q].user)
      BY <3>1 DEF IsExcused
    <3> QED
      BY <3>1, <3>2 DEF OInv, Fresh, Backed
  <2> QED
    BY <2>1, <2>2
<1> QED
  BY <1>4, <1>5

\* Sign-in steps before and after the role is written.
LEMMA SessionHeld ==
    ASSUME TInv, OInv, NEW p \in SignIn,
           \/ \E u \in User, login \in Login \cup {NoLogin} : Callback(p, u, login)
           \/ StartSession(p)
    PROVE  OInv'
<1>t. p \in Process /\ task \in [Process -> Task] /\ task[p] \in Task
  BY DEF TInv, TypeOK, Process
<1>1. /\ UNCHANGED <<rules, role, tokens, backing>>
      /\ \A q \in Process : q # p => task'[q] = task[q]
      /\ task[p].step \in {"idle", "starting"}
      /\ task'[p].step \in {"idle", "evaluating"}
      /\ Evaluates(p)' => task'[p].seen = rules
  BY <1>t DEF Callback, StartSession, Idle, Evaluates
<1>2. Lineage' /\ Fresh'
  BY <1>t, <1>1, BackedElsewhere DEF Entering
<1>3. Alone'
  BY <1>1 DEF OInv, Alone
<1>4. \A u : ~Waits(p, u) 
  BY <1>1 DEF Waits
<1>5. Held'
  <2> SUFFICES ASSUME NEW u \in User, ~IsExcused(u)'
               PROVE  /\ tokens'[u] = "admin" => role'[u] = "admin" \/ Doomed(u)'
                      /\ u \in sessions' => Backed(u)' \/ Listed(u)' \/ Pending(u)'
                      /\ tokens'[u] # NoAccount => Backed(u)' \/ Listed(u)' \/ Doomed(u)'
    BY DEF Held
  <2>1. ~IsExcused(u) /\ (Backed(u)' <=> Backed(u))
    BY <1>1 DEF IsExcused, Backed
  <2>2. /\ Doomed(u) => Doomed(u)'
        /\ Pending(u) => Pending(u)'
        /\ Listed(u) => Listed(u)'
    BY <1>t, <1>1, <1>4, Handover
  <2>3. u \in sessions' => u \in sessions \/ (StartSession(p) /\ task[p].user = u)
    BY DEF Callback, StartSession
  <2>4. StartSession(p) /\ task[p].user = u => Backed(u)
    BY <2>1 DEF OInv, Fresh, StartSession, Entering
  <2> QED
    BY <1>1, <2>1, <2>2, <2>3, <2>4 DEF OInv, Held
<1> QED
  BY <1>2, <1>3, <1>5 DEF OInv

\* githubRole: whatever it matched is still there, unless the account is
\* excused, and grants the role.
LEMMA EvaluateHeld ==
    ASSUME TInv, NInv, OInv, NEW p \in SignIn, NEW groups \in SUBSET Group,
           Evaluate(p, groups)
    PROVE  OInv'
<1> DEFINE u == task[p].user
           bound == {r \in task[p].named : Bindable(r, u)}
           matched == Matched(p, groups, bound)
           admin == \E r \in matched : task[p].seen[r].role = "admin"
<1>t. p \in Process /\ task \in [Process -> Task] /\ task[p] \in Task /\ Evaluates(p)
  BY DEF TInv, TypeOK, Process, Evaluate, Evaluates
<1>1. task[p] \in Evaluating
  BY <1>t, TaskShape DEF Evaluates
<1>2. /\ u \in User /\ bound \subseteq Rule
      /\ task[p].seen \in [Rule -> Mapping \cup {Unmade, Deleted}]
  BY <1>1 DEF Evaluating
<1>3. /\ rules' = [r \in Rule |-> IF r \in bound THEN [rules[r] EXCEPT !.id = u]
                                  ELSE rules[r]]
      /\ UNCHANGED <<role, sessions, tokens, backing>>
      /\ \A q \in Process : q # p => task'[q] = task[q]
  BY <1>t DEF Evaluate
<1>4. ASSUME NEW r \in Rule
      PROVE  /\ rules'[r] = Deleted <=> rules[r] = Deleted
             /\ rules'[r] \in Mapping <=> rules[r] \in Mapping
             /\ rules[r] \in Mapping => /\ rules'[r].kind = rules[r].kind
                                        /\ rules'[r].role = rules[r].role
                                        /\ rules[r].id # NoUser => rules'[r].id = rules[r].id
  <2>1. CASE r \in bound
    <3>1. rules[r] \in UserRule /\ rules[r].id = NoUser
      BY <2>1 DEF Bindable
    <3>2. rules'[r] = [rules[r] EXCEPT !.id = u]
      BY <2>1, <1>3
    <3>3. /\ rules'[r] \in UserRule /\ rules'[r].kind = rules[r].kind
          /\ rules'[r].role = rules[r].role
      BY <3>1, <3>2, <1>2 DEF UserRule
    <3> QED
      BY <3>1, <3>3, NamesAssumption DEF Mapping
  <2>2. CASE r \notin bound
    BY <2>2, <1>3
  <2> QED
    BY <2>1, <2>2
<1>5. ASSUME NEW r \in matched
      PROVE  /\ r \in Rule /\ task[p].seen[r] \in Mapping /\ task[p].seen[r].role \in Role
             /\ rules'[r] = Deleted \/
                   /\ rules'[r] \in Mapping
                   /\ rules'[r].role = task[p].seen[r].role
                   /\ rules'[r].kind = "user" => rules'[r].id = u
  <2>1. r \in Rule /\ task[p].seen[r] \in Mapping
    BY <1>2, <1>t DEF Matched, Mapping, NInv, Snapshot
  <2>2. \/ rules[r] = Deleted
        \/ /\ rules[r] \in Mapping
           /\ rules[r].kind = task[p].seen[r].kind
           /\ rules[r].role = task[p].seen[r].role
    BY <2>1, <1>t DEF OInv, Lineage
  <2>3. task[p].seen[r].role \in Role
    BY <2>1 DEF Mapping, UserRule, GroupRule
  <2>4. ASSUME rules[r] \in Mapping, rules[r].kind = "user" PROVE rules'[r].id = u
    <3>1. CASE r \in bound
      <4>1. rules[r] \in UserRule
        BY <3>1 DEF Bindable
      <4> QED
        BY <3>1, <4>1, <1>3, <2>1 DEF UserRule
    <3>2. CASE r \notin bound
      <4>1. Deleted # rules[r] /\ u # NoUser
        BY <2>4, <1>2, NamesAssumption
      <4>2. task[p].seen[r].kind = "user"
        BY <2>2, <2>4, <4>1
      <4>3. task[p].seen[r].id = u /\ task[p].seen[r] \in UserRule
        BY <3>2, <4>2, <2>1 DEF Matched, GroupRule, UserRule, Mapping
      <4>4. rules[r].id = u
        BY <4>1, <4>3, <1>t, <2>1 DEF NInv, Snapshot, Bound
      <4> QED
        BY <4>4, <3>2, <1>3, <2>1
    <3> QED
      BY <3>1, <3>2
  <2> QED
    BY <2>1, <2>2, <2>3, <2>4, <1>4
<1>6. \/ /\ task'[p] = [step |-> "granted", user |-> u, matched |-> matched,
                        role |-> IF admin THEN "admin" ELSE "developer"]
         /\ matched # {}
      \/ task'[p] = [step |-> "sessions", user |-> u, todo |-> {}, then |-> "refuse"]
      \/ task'[p] = Idle
  BY <1>t DEF Evaluate
<1> HIDE DEF bound, matched, u, admin
<1>7. ASSUME NEW k \in Rule, NEW v \in User, Fits(k, v)
      PROVE  Fits(k, v)'
  <2>1. v # NoUser
    BY NamesAssumption
  <2> QED
    BY <1>4, <1>7, <2>1 DEF Fits
<1>8. Lineage'
  <2>1. ASSUME NEW q \in SignIn, Evaluates(q)', NEW r \in Rule, task'[q].seen[r] \in Mapping
        PROVE  \/ rules'[r] = Deleted
               \/ /\ rules'[r] \in Mapping
                  /\ rules'[r].kind = task'[q].seen[r].kind
                  /\ rules'[r].role = task'[q].seen[r].role
    <3>1. q # p /\ q \in Process
      BY <2>1, <1>6 DEF Evaluates, Idle, Process
    <3>2. task'[q] = task[q] /\ Evaluates(q)
      BY <3>1, <2>1, <1>3 DEF Evaluates
    <3> QED
      BY <3>2, <2>1, <1>4 DEF OInv, Lineage
  <2>2. ASSUME NEW q \in SignIn, task'[q].step = "granted", NEW k \in task'[q].matched
        PROVE  Fits(k, task[q].user)'
    <3>1. CASE q = p
      <4>1. task'[p].matched = matched /\ task'[p].user = u
        BY <3>1, <2>2, <1>6 DEF Idle
      <4> QED
        BY <3>1, <4>1, <2>2, <1>5 DEF Fits
    <3>2. CASE q # p
      <4>1. task'[q] = task[q] /\ q \in Process
        BY <3>2, <1>3 DEF Process
      <4>2. task[q] \in Granted
        BY <4>1, <2>2, <1>t, TaskShape
      <4>3. k \in Rule /\ task[q].user \in User
        BY <4>1, <4>2, <2>2 DEF Granted
      <4>4. Fits(k, task[q].user)
        BY <4>1, <2>2 DEF OInv, Lineage
      <4> DEFINE v == task[q].user
      <4>5. v # NoUser
        BY <4>3, NamesAssumption
      <4> QED
        BY <4>1, <4>3, <4>4, <4>5, <1>4 DEF Fits
    <3> QED
      BY <3>1, <3>2
  <2>3. \A v \in User : \A k \in backing'[v] \cap Rule : Fits(k, v)'
    BY <1>3, <1>7 DEF OInv, Lineage
  <2> QED
    BY <2>1, <2>2, <2>3 DEF Lineage
<1>9. Fresh'
  <2> SUFFICES ASSUME NEW q \in SignIn, ~IsExcused(task[q].user)'
               PROVE  /\ Evaluates(q)' =>
                            \A r \in Rule : task'[q].seen[r] \in Mapping => rules'[r] # Deleted
                      /\ task'[q].step = "granted" =>
                            \E k \in task'[q].matched :
                                rules'[k] \in Mapping /\ rules'[k].role = task'[q].role
                      /\ Entering(q)' => Backed(task[q].user)'
    BY DEF Fresh
  <2>1. CASE q = p
    <3>1. ~Evaluates(p)' /\ ~Entering(p)'
      BY <1>6 DEF Evaluates, Entering, Idle
    <3>2. ASSUME task'[p].step = "granted"
          PROVE  \E k \in matched : rules'[k] \in Mapping /\ rules'[k].role = task'[p].role
      <4>1. /\ task'[p].role = IF admin THEN "admin" ELSE "developer"
            /\ task'[p].user = u /\ matched # {}
        BY <3>2, <1>6 DEF Idle
      <4>2. PICK k \in matched : task[p].seen[k].role = task'[p].role
        BY <4>1, <1>5 DEF admin, Role
      <4>3. ~IsExcused(u)
        BY <2>1, <4>1, <1>3 DEF IsExcused
      <4>4. rules[k] # Deleted
        BY <4>3, <1>5, <1>t DEF OInv, Fresh, u
      <4> QED
        BY <4>2, <4>4, <1>4, <1>5
    <3>3. task'[p].step = "granted" => task'[p].matched = matched
      BY <1>6 DEF Idle
    <3> QED
      BY <2>1, <3>1, <3>2, <3>3
  <2>2. CASE q # p
    <3>1. /\ task'[q] = task[q] /\ (Evaluates(q)' <=> Evaluates(q)) /\ q \in Process
          /\ (Entering(q)' <=> Entering(q))
      BY <2>2, <1>3 DEF Evaluates, Entering, Process
    <3>2. ~IsExcused(task[q].user)
      BY <3>1, <1>3 DEF IsExcused
    <3>3. task[q].step = "granted" => task[q].matched \subseteq Rule
      BY <3>1, <1>t, TaskShape DEF Granted
    <3>4. Entering(q) => Backed(task[q].user)'
      <4>1. Entering(q) => Backed(task[q].user)
        BY <3>2 DEF OInv, Fresh
      <4>2. \A k \in Rule : rules[k] \in Mapping =>
                              rules'[k] \in Mapping /\ rules'[k].role = rules[k].role
        BY <1>4
      <4> QED
        BY <3>1, <4>1, <4>2, <1>3 DEF Backed
    <3> QED
      BY <3>1, <3>2, <3>3, <3>4, <1>4 DEF OInv, Fresh
  <2> QED
    BY <2>1, <2>2
<1>10. Alone'
  BY <1>3, <1>6 DEF OInv, Alone, Idle
<1>11. Held'
  <2> SUFFICES ASSUME NEW v \in User, ~IsExcused(v)'
               PROVE  /\ tokens'[v] = "admin" => role'[v] = "admin" \/ Doomed(v)'
                      /\ v \in sessions' => Backed(v)' \/ Listed(v)' \/ Pending(v)'
                      /\ tokens'[v] # NoAccount => Backed(v)' \/ Listed(v)' \/ Doomed(v)'
    BY DEF Held
  <2>1. ~IsExcused(v)
    BY <1>3 DEF IsExcused
  <2>2. Backed(v) => Backed(v)'
    BY <1>3, <1>4 DEF Backed
  <2>3. task[p].step = "evaluating" /\ ~Waits(p, v)
    BY <1>t DEF Evaluates, Waits
  <2>4. /\ Doomed(v) => Doomed(v)'
        /\ Pending(v) => Pending(v)'
        /\ Listed(v) => Listed(v)'
    BY <1>t, <1>3, <2>3, Handover
  <2> QED
    BY <1>3, <2>1, <2>2, <2>4 DEF OInv, Held
<1> QED
  BY <1>8, <1>9, <1>10, <1>11 DEF OInv

\* FindOrCreateGitHubUser: the rules that matched are behind the new role; a
\* demotion goes on to end what the account has.
LEMMA SynchronizeHeld ==
    ASSUME TInv, OInv, NEW p \in SignIn, Synchronize(p)
    PROVE  OInv'
<1>t. p \in Process /\ task \in [Process -> Task] /\ task[p].step = "granted"
  BY DEF TInv, TypeOK, Process, Synchronize
<1>1. task[p] \in Granted
  BY <1>t, TaskShape
<1>u. PICK u \in User, to \in Role : u = task[p].user /\ to = task[p].role
  BY <1>1 DEF Granted
<1>2. task[p].matched \subseteq Rule
  BY <1>1 DEF Granted
<1>3. /\ role' = [role EXCEPT ![u] = to]
      /\ backing' = [backing EXCEPT ![u] = IF Excused \in backing[u] THEN backing[u]
                                          ELSE task[p].matched]
      /\ UNCHANGED <<rules, sessions, tokens>>
      /\ \A q \in Process : q # p => task'[q] = task[q]
  BY <1>t, <1>u DEF Synchronize, WithRole
<1>4. \/ /\ task'[p] = [step |-> "sessions", user |-> u, todo |-> {}, then |-> "start"]
         /\ Demoted(u, to)
      \/ /\ task'[p] = [step |-> "starting", user |-> u]
         /\ ~Demoted(u, to)
  BY <1>t, <1>u DEF Synchronize
<1>5. role'[u] = to /\ \A v \in User : v # u => role'[v] = role[v] /\ backing'[v] = backing[v]
  BY <1>2, <1>3 DEF TInv, TypeOK
<1>6. \A v \in User : IsExcused(v)' <=> IsExcused(v)
  <2>1. \A k \in task[p].matched : k # Excused
    BY <1>2, NamesAssumption
  <2> QED
    BY <1>2, <1>3, <2>1 DEF TInv, TypeOK, IsExcused
<1>7. ~IsExcused(u) => Backed(u)'
  <2> HAVE ~IsExcused(u)
  <2>1. backing'[u] = task[p].matched
    BY <1>2, <1>3 DEF IsExcused, TInv, TypeOK
  <2>2. PICK k \in task[p].matched : rules[k] \in Mapping /\ rules[k].role = to
    BY <1>t, <1>u DEF OInv, Fresh
  <2> QED
    BY <1>2, <1>3, <1>5, <2>1, <2>2 DEF Backed
<1>8. \A v \in User : v # u => (Backed(v)' <=> Backed(v))
  BY <1>3, <1>5 DEF Backed
<1>9. Lineage'
  <2>1. ASSUME NEW q \in SignIn, Evaluates(q)', NEW r \in Rule, task'[q].seen[r] \in Mapping
        PROVE  \/ rules'[r] = Deleted
               \/ /\ rules'[r] \in Mapping
                  /\ rules'[r].kind = task'[q].seen[r].kind
                  /\ rules'[r].role = task'[q].seen[r].role
    <3>1. q # p /\ q \in Process
      BY <2>1, <1>4 DEF Evaluates, Process
    <3>2. task'[q] = task[q] /\ Evaluates(q)
      BY <3>1, <2>1, <1>3 DEF Evaluates
    <3> QED
      BY <3>2, <2>1, <1>3 DEF OInv, Lineage
  <2>2. ASSUME NEW q \in SignIn, task'[q].step = "granted", NEW k \in task'[q].matched
        PROVE  Fits(k, task[q].user)'
    <3>1. q # p /\ q \in Process
      BY <2>2, <1>4 DEF Process
    <3>2. task'[q] = task[q]
      BY <3>1, <1>3
    <3> QED
      BY <3>2, <2>2, <1>3 DEF OInv, Lineage, Fits
  <2>3. ASSUME NEW v \in User, NEW k \in backing'[v] \cap Rule
        PROVE  Fits(k, v)'
    <3>1. k \in backing[v] \/ (v = u /\ k \in task[p].matched)
      BY <2>3, <1>3, <1>5 DEF TInv, TypeOK
    <3>2. Fits(k, v)
      BY <3>1, <2>3, <1>t, <1>u DEF OInv, Lineage
    <3> QED
      BY <3>2, <1>3 DEF Fits
  <2> QED
    BY <2>1, <2>2, <2>3 DEF Lineage
<1>10. Fresh'
  <2> SUFFICES ASSUME NEW q \in SignIn, ~IsExcused(task[q].user)'
               PROVE  /\ Evaluates(q)' =>
                            \A r \in Rule : task'[q].seen[r] \in Mapping => rules'[r] # Deleted
                      /\ task'[q].step = "granted" =>
                            \E k \in task'[q].matched :
                                rules'[k] \in Mapping /\ rules'[k].role = task'[q].role
                      /\ Entering(q)' => Backed(task[q].user)'
    BY DEF Fresh
  <2>1. CASE q = p
    <3>1. ~Evaluates(p)' /\ task'[p].step # "granted" /\ task'[p].user = u
      BY <1>4 DEF Evaluates
    <3>2. ~IsExcused(u)
      <4>1. ~IsExcused(u)'
        BY <2>1, <3>1 DEF IsExcused
      <4> QED
        BY <4>1, <1>6
    <3>3. Backed(task[p].user)'
      BY <3>1, <3>2, <1>7 DEF Backed
    <3> QED
      BY <2>1, <3>1, <3>3
  <2>2. CASE q # p
    <3>1. /\ task'[q] = task[q] /\ (Evaluates(q)' <=> Evaluates(q)) /\ q \in Process
          /\ (Entering(q)' <=> Entering(q))
      BY <2>2, <1>3 DEF Evaluates, Entering, Process
    <3>2. CASE Evaluates(q) \/ Entering(q) \/ task[q].step = "granted"
      <4>1. PICK v \in User : v = task[q].user
        BY <3>1, <3>2, <1>t, TaskShape
           DEF Evaluates, Entering, Evaluating, Granted, Starting, Revoking
      <4>2. ~IsExcused(v)
        <5>1. ~IsExcused(v)'
          BY <3>1, <4>1 DEF IsExcused
        <5> QED
          BY <5>1, <1>6
      <4>3. Entering(q) => Backed(v)
        BY <4>1, <4>2 DEF OInv, Fresh
      <4>4. Entering(q) => Backed(v)'
        BY <4>2, <4>3, <1>7, <1>8
      <4>5. Entering(q) => Backed(task[q].user)'
        BY <4>1, <4>4, <3>1 DEF Backed
      <4> QED
        BY <3>1, <4>1, <4>2, <4>5, <1>3 DEF OInv, Fresh
    <3> QED
      BY <3>1, <3>2
  <2> QED
    BY <2>1, <2>2
<1>11. Alone'
  BY <1>3, <1>4 DEF OInv, Alone
<1>12. Held'
  <2> SUFFICES ASSUME NEW v \in User, ~IsExcused(v)'
               PROVE  /\ tokens'[v] = "admin" => role'[v] = "admin" \/ Doomed(v)'
                      /\ v \in sessions' => Backed(v)' \/ Listed(v)' \/ Pending(v)'
                      /\ tokens'[v] # NoAccount => Backed(v)' \/ Listed(v)' \/ Doomed(v)'
    BY DEF Held
  <2>1. ~IsExcused(v)
    BY <1>6
  <2>2. ~Waits(p, v)
    BY <1>t DEF Waits
  <2>3. /\ Doomed(v) => Doomed(v)'
        /\ Pending(v) => Pending(v)'
    BY <1>t, <1>3, <2>2, Handover
  <2>4. CASE v = u
    <3>1. tokens[u] = "admin" => to = "admin" \/ Doomed(u)'
      <4>1. Demoted(u, to) => Doomed(u)'
        BY <1>t, <1>4 DEF Doomed
      <4>2. tokens[u] = "admin" => role[u] = "admin" \/ Doomed(u)
        BY <2>1, <2>4 DEF OInv, Held
      <4> QED
        BY <4>1, <4>2, <2>3, <2>4 DEF Demoted
    <3> QED
      BY <2>1, <2>4, <3>1, <1>3, <1>5, <1>7
  <2>5. CASE v # u
    <3>1. Listed(v) => Listed(v)'
      <4>1. ASSUME NEW q \in Process, task[q].step = "listing", v \in Affected(task[q].rule)
            PROVE  task'[q].step = "listing" /\ v \in Affected(task[q].rule)'
        <5>1. task'[q] = task[q]
          BY <4>1, <1>t, <1>3
        <5> QED
          BY <4>1, <5>1, <1>5, <2>5 DEF Affected
      <4> QED
        BY <4>1 DEF Listed
    <3> QED
      BY <2>1, <2>3, <2>5, <3>1, <1>3, <1>5, <1>8 DEF OInv, Held
  <2> QED
    BY <2>4, <2>5
<1> QED
  BY <1>9, <1>10, <1>11, <1>12 DEF OInv

\* What Excuse does.
LEMMA Excusing ==
    ASSUME TInv, OInv, NEW users, Excuse(users), NEW v \in User
    PROVE  /\ \A k \in backing'[v] \cap Rule : Fits(k, v)
           /\ ~IsExcused(v)' => /\ v \notin users
                                /\ ~IsExcused(v)
                                /\ backing'[v] = backing[v]
<1>1. backing'[v] = IF v \in users THEN {Excused} ELSE backing[v]
  BY DEF Excuse
<1>2. Excused \notin Rule
  BY NamesAssumption
<1> QED
  BY <1>1, <1>2 DEF IsExcused, OInv, Lineage

\* Steps that leave rules and roles alone, may excuse accounts, and end the
\* request p or go on with its list.
LEMMA BackedExcused ==
    ASSUME TInv, OInv, UNCHANGED <<rules, role>>, NEW users, Excuse(users), NEW p \in Process,
           \A q \in Process : q # p => task'[q] = task[q],
           task'[p].step \in {"idle", "next"}
    PROVE  Lineage' /\ Fresh' /\ Alone'
<1>t. task \in [Process -> Task] /\ \A q \in SignIn : q \in Process
  BY DEF Process, TInv, TypeOK
<1>1. ASSUME NEW q \in SignIn, Evaluates(q)' \/ Entering(q)' \/ task'[q].step = "granted"
      PROVE  /\ task'[q] = task[q] /\ task[q].user \in User
             /\ (Evaluates(q)' <=> Evaluates(q)) /\ (Entering(q)' <=> Entering(q))
  <2>1. q # p
    BY <1>1 DEF Evaluates, Entering
  <2>2. task'[q] = task[q]
    BY <2>1, <1>t
  <2>3. Evaluates(q) \/ Entering(q) \/ task[q].step = "granted"
    BY <1>1, <2>2 DEF Evaluates, Entering
  <2>4. task[q].user \in User
    BY <2>3, <1>t, TaskShape DEF Evaluates, Entering, Evaluating, Granted, Starting, Revoking
  <2> QED
    BY <2>2, <2>4 DEF Evaluates, Entering
<1>2. Lineage'
  <2>1. \A v \in User : \A k \in backing'[v] \cap Rule : Fits(k, v)'
    BY Excusing DEF Fits
  <2>2. ASSUME NEW q \in SignIn, Evaluates(q)', NEW r \in Rule, task'[q].seen[r] \in Mapping
        PROVE  \/ rules'[r] = Deleted
               \/ /\ rules'[r] \in Mapping
                  /\ rules'[r].kind = task'[q].seen[r].kind
                  /\ rules'[r].role = task'[q].seen[r].role
    BY <2>2, <1>1 DEF OInv, Lineage
  <2>3. ASSUME NEW q \in SignIn, task'[q].step = "granted", NEW k \in task'[q].matched
        PROVE  Fits(k, task[q].user)'
    BY <2>3, <1>1 DEF OInv, Lineage, Fits
  <2> QED
    BY <2>1, <2>2, <2>3 DEF Lineage
<1>3. Fresh'
  <2> SUFFICES ASSUME NEW q \in SignIn, ~IsExcused(task[q].user)',
                      Evaluates(q)' \/ Entering(q)' \/ task'[q].step = "granted"
               PROVE  /\ Evaluates(q)' =>
                            \A r \in Rule : task'[q].seen[r] \in Mapping => rules'[r] # Deleted
                      /\ task'[q].step = "granted" =>
                            \E k \in task'[q].matched :
                                rules'[k] \in Mapping /\ rules'[k].role = task'[q].role
                      /\ Entering(q)' => Backed(task[q].user)'
    BY DEF Fresh
  <2>1. PICK v \in User : v = task[q].user /\ v = task'[q].user
    BY <1>1
  <2>2. ~IsExcused(v)'
    BY <2>1 DEF IsExcused
  <2>3. ~IsExcused(v) /\ backing'[v] = backing[v]
    BY <2>2, Excusing
  <2>4. Entering(q)' => Backed(v)
    BY <2>1, <2>3, <1>1 DEF OInv, Fresh
  <2>5. Entering(q)' => Backed(v)'
    BY <2>3, <2>4 DEF Backed
  <2>6. Entering(q)' => Backed(task[q].user)'
    BY <2>1, <2>5 DEF Backed
  <2> QED
    BY <2>1, <2>3, <2>6, <1>1 DEF OInv, Fresh
<1>4. Alone'
  BY DEF OInv, Alone
<1> QED
  BY <1>2, <1>3, <1>4

\* A request that goes on without having signed out those it excuses.
LEMMA HeldExcused ==
    ASSUME TInv, OInv, UNCHANGED <<rules, role, sessions, tokens>>,
           NEW users, Excuse(users), NEW p \in Process,
           \A q \in Process : q # p => task'[q] = task[q],
           \A v \in User : v \notin users =>
               /\ Waits(p, v) => Waits(p, v)'
               /\ task[p].step \in {"sessions", "tokens"} => task[p].user # v
               /\ task[p].step = "listing" => v \notin Affected(task[p].rule)
    PROVE  Held'
<1> SUFFICES ASSUME NEW v \in User, ~IsExcused(v)'
             PROVE  /\ tokens'[v] = "admin" => role'[v] = "admin" \/ Doomed(v)'
                    /\ v \in sessions' => Backed(v)' \/ Listed(v)' \/ Pending(v)'
                    /\ tokens'[v] # NoAccount => Backed(v)' \/ Listed(v)' \/ Doomed(v)'
  BY DEF Held
<1>1. v \notin users /\ ~IsExcused(v) /\ backing'[v] = backing[v]
  BY Excusing
<1>2. Backed(v)' <=> Backed(v)
  BY <1>1 DEF Backed
<1>3. Waits(p, v)' => Pending(v)' /\ Doomed(v)'
  BY DEF Pending, Doomed
<1>4. /\ Doomed(v) => Doomed(v)'
      /\ Pending(v) => Pending(v)'
      /\ Listed(v) => Listed(v)'
  BY <1>1, <1>3, Handover
<1> QED
  BY <1>1, <1>2, <1>4 DEF OInv, Held

\* revokeUserSessions fails.
LEMMA RevokeFailsHeld ==
    ASSUME TInv, OInv, NEW p \in Process, RevokeFails(p)
    PROVE  OInv'
<1>t. task \in [Process -> Task] /\ task[p].step \in {"sessions", "tokens"}
  BY DEF TInv, TypeOK, RevokeFails
<1>1. task[p] \in Revoking
  BY <1>t, TaskShape
<1>2. /\ Excuse({task[p].user})
      /\ UNCHANGED <<rules, role, sessions, tokens>>
      /\ \A q \in Process : q # p => task'[q] = task[q]
      /\ task'[p] = IF task[p].then = "next" THEN [step |-> "next", todo |-> task[p].todo]
                    ELSE Idle
  BY <1>t DEF RevokeFails, Continue
<1>3. task'[p].step \in {"idle", "next"}
  BY <1>2 DEF Idle
<1>4. \A v \in User : Waits(p, v) => Waits(p, v)'
  <2>1. task[p].then # "next" => task[p].todo = {}
    BY <1>t DEF OInv, Alone
  <2> QED
    BY <1>2, <2>1 DEF Waits
<1>5. Lineage' /\ Fresh' /\ Alone'
  BY <1>2, <1>3, BackedExcused
<1>6. Held'
  BY <1>t, <1>2, <1>4, HeldExcused
<1> QED
  BY <1>5, <1>6 DEF OInv

\* A request ends early.
LEMMA AbandonHeld ==
    ASSUME TInv, OInv, NEW p \in Process, Abandon(p)
    PROVE  OInv'
<1>t. task \in [Process -> Task]
  BY DEF TInv, TypeOK
<1>1. /\ Excuse(Unfinished(p))
      /\ UNCHANGED <<rules, role, sessions, tokens>>
      /\ \A q \in Process : q # p => task'[q] = task[q]
      /\ task'[p] = Idle
  BY <1>t DEF Abandon
<1>2. \A v \in User : v \notin Unfinished(p) =>
         /\ ~Waits(p, v)
         /\ task[p].step \in {"sessions", "tokens"} => task[p].user # v
         /\ task[p].step = "listing" => v \notin Affected(task[p].rule)
  BY DEF Unfinished, Waits
<1>3. Lineage' /\ Fresh' /\ Alone'
  BY <1>1, BackedExcused DEF Idle
<1>4. Held'
  BY <1>1, <1>2, HeldExcused
<1> QED
  BY <1>3, <1>4 DEF OInv

\* The two halves of revokeUserSessions.
LEMMA RevokeHeld ==
    ASSUME TInv, OInv, NEW p \in Process, RevokeSessions(p) \/ RevokeTokens(p)
    PROVE  OInv'
<1>t. task \in [Process -> Task] /\ task[p].step \in {"sessions", "tokens"}
  BY DEF TInv, TypeOK, RevokeSessions, RevokeTokens
<1>1. task[p] \in Revoking
  BY <1>t, TaskShape
<1>u. PICK u \in User : u = task[p].user
  BY <1>1 DEF Revoking
<1>2. /\ UNCHANGED <<rules, role, backing>>
      /\ \A q \in Process : q # p => task'[q] = task[q]
  BY <1>t DEF RevokeSessions, RevokeTokens
<1>3. CASE RevokeSessions(p)
  <2>1. /\ task'[p].step = "tokens" /\ task'[p].user = u
        /\ task'[p].todo = task[p].todo /\ task'[p].then = task[p].then
        /\ task[p].step = "sessions"
    BY <1>3, <1>t, <1>1, <1>u DEF RevokeSessions, Revoking
  <2>2. Lineage' /\ Fresh'
    BY <1>2, <1>t, <1>u, <2>1, BackedElsewhere DEF Entering, Evaluates
  <2>3. Alone'
    BY <1>2, <1>t, <2>1 DEF OInv, Alone
  <2>4. Held'
    <3> SUFFICES ASSUME NEW v \in User, ~IsExcused(v)'
                 PROVE  /\ tokens'[v] = "admin" => role'[v] = "admin" \/ Doomed(v)'
                        /\ v \in sessions' => Backed(v)' \/ Listed(v)' \/ Pending(v)'
                        /\ tokens'[v] # NoAccount => Backed(v)' \/ Listed(v)' \/ Doomed(v)'
      BY DEF Held
    <3>1. ~IsExcused(v) /\ (Backed(v)' <=> Backed(v))
      BY <1>2 DEF IsExcused, Backed
    <3>2. Waits(p, v) => Waits(p, v)'
      BY <2>1 DEF Waits
    <3>3. Waits(p, v)' => Pending(v)' /\ Doomed(v)'
      BY DEF Pending, Doomed
    <3>4. u = v => Doomed(v)'
      BY <2>1 DEF Doomed
    <3>5. /\ Doomed(v) => Doomed(v)'
          /\ Pending(v) => Pending(v)' \/ u = v
          /\ Listed(v) => Listed(v)'
      BY <1>2, <1>t, <1>u, <2>1, <3>2, <3>3, <3>4, Handover
    <3>6. sessions' = sessions \ {u} /\ tokens' = tokens
      BY <1>3, <1>u DEF RevokeSessions
    <3> QED
      BY <1>2, <3>1, <3>5, <3>6 DEF OInv, Held
  <2> QED
    BY <2>2, <2>3, <2>4 DEF OInv
<1>4. CASE RevokeTokens(p)
  <2>1. /\ task'[p] = Continue(p) /\ task[p].step = "tokens"
        /\ task[p].then \in {"refuse", "start", "next"}
    BY <1>4, <1>t, <1>1 DEF RevokeTokens, Revoking
  <2>2. /\ task'[p].step \in {"idle", "starting", "next"}
        /\ task'[p].step = "starting" => task[p].then = "start" /\ task'[p].user = u
        /\ task[p].then = "next" => task'[p].step = "next" /\ task'[p].todo = task[p].todo
    BY <2>1, <1>u DEF Continue, Idle
  <2>3. Lineage' /\ Fresh'
    BY <1>2, <1>t, <1>u, <2>2, BackedElsewhere DEF Entering, Evaluates
  <2>4. Alone'
    BY <1>2, <2>2 DEF OInv, Alone
  <2>5. Held'
    <3> SUFFICES ASSUME NEW v \in User, ~IsExcused(v)'
                 PROVE  /\ tokens'[v] = "admin" => role'[v] = "admin" \/ Doomed(v)'
                        /\ v \in sessions' => Backed(v)' \/ Listed(v)' \/ Pending(v)'
                        /\ tokens'[v] # NoAccount => Backed(v)' \/ Listed(v)' \/ Doomed(v)'
      BY DEF Held
    <3>1. ~IsExcused(v) /\ (Backed(v)' <=> Backed(v))
      BY <1>2 DEF IsExcused, Backed
    <3>2. Waits(p, v) => Waits(p, v)'
      <4>1. task[p].then # "next" => task[p].todo = {}
        BY <1>t DEF OInv, Alone
      <4> QED
        BY <2>2, <4>1 DEF Waits
    <3>3. Waits(p, v)' => Pending(v)' /\ Doomed(v)'
      BY DEF Pending, Doomed
    <3>4. /\ Doomed(v) => Doomed(v)' \/ u = v
          /\ Pending(v) => Pending(v)'
          /\ Listed(v) => Listed(v)'
      BY <1>2, <1>u, <2>1, <3>2, <3>3, Handover
    <3>5. sessions' = sessions /\ tokens'[u] = NoAccount /\ (u # v => tokens'[v] = tokens[v])
      BY <1>4, <1>u DEF RevokeTokens, TInv, TypeOK
    <3>6. NoAccount # "admin"
      BY NamesAssumption DEF Role
    <3> QED
      BY <1>2, <3>1, <3>4, <3>5, <3>6 DEF OInv, Held
  <2> QED
    BY <2>3, <2>4, <2>5 DEF OInv
<1> QED
  BY <1>3, <1>4

\* deleteGitHubMapping after the rule is gone: it lists the accounts and goes
\* through them.
LEMMA ListHeld ==
    ASSUME TInv, OInv, NEW p \in Operator, ListAccounts(p) \/ NextAccount(p)
    PROVE  OInv'
<1>t. p \in Process /\ p \notin SignIn /\ task \in [Process -> Task]
  BY NamesAssumption DEF TInv, TypeOK, Process
<1>1. /\ UNCHANGED <<rules, role, sessions, tokens, backing>>
      /\ \A q \in Process : q # p => task'[q] = task[q]
  BY <1>t DEF ListAccounts, NextAccount
<1>2. Lineage' /\ Fresh'
  BY <1>t, <1>1, BackedElsewhere
<1>3. task'[p].step = "sessions" => task'[p].then = "next"
  BY <1>t DEF ListAccounts, NextAccount, Idle
<1>4. task'[p].step \in {"next", "sessions", "idle"}
  BY <1>t DEF ListAccounts, NextAccount, Idle
<1>5. Alone'
  BY <1>1, <1>3, <1>4 DEF OInv, Alone
<1>6. ASSUME NEW v \in User,
             \/ Waits(p, v)
             \/ task[p].step = "listing" /\ v \in Affected(task[p].rule)
      PROVE  Waits(p, v)' \/ (task'[p].step = "sessions" /\ task'[p].user = v)
  <2>1. CASE ListAccounts(p)
    <3>1. task[p].step = "listing"
      BY <2>1 DEF ListAccounts
    <3>2. task'[p].step = "next" /\ Affected(task[p].rule) \subseteq task'[p].todo
      BY <2>1, <1>t DEF ListAccounts
    <3> QED
      BY <1>6, <3>1, <3>2 DEF Waits
  <2>2. CASE NextAccount(p)
    <3>1. v \in task[p].todo
      BY <1>6, <2>2 DEF NextAccount, Waits
    <3>2. PICK u \in task[p].todo :
             task' = [task EXCEPT ![p] = [step |-> "sessions", user |-> u,
                                          todo |-> task[p].todo \ {u}, then |-> "next"]]
      BY <2>2, <3>1 DEF NextAccount
    <3>3. /\ task'[p].step = "sessions" /\ task'[p].user = u
          /\ task'[p].todo = task[p].todo \ {u}
      BY <3>2, <1>t
    <3> QED
      BY <3>1, <3>3 DEF Waits
  <2> QED
    BY <2>1, <2>2
<1>7. Held'
  <2> SUFFICES ASSUME NEW v \in User, ~IsExcused(v)'
               PROVE  /\ tokens'[v] = "admin" => role'[v] = "admin" \/ Doomed(v)'
                      /\ v \in sessions' => Backed(v)' \/ Listed(v)' \/ Pending(v)'
                      /\ tokens'[v] # NoAccount => Backed(v)' \/ Listed(v)' \/ Doomed(v)'
    BY DEF Held
  <2>1. ~IsExcused(v) /\ (Backed(v)' <=> Backed(v))
    BY <1>1 DEF IsExcused, Backed
  <2>2. Waits(p, v)' \/ (task'[p].step = "sessions" /\ task'[p].user = v) =>
           Pending(v)' /\ Doomed(v)'
    BY <1>t DEF Pending, Doomed
  <2>3. task[p].step \notin {"sessions", "tokens"}
    BY DEF ListAccounts, NextAccount
  <2>4. /\ Doomed(v) => Doomed(v)'
        /\ Pending(v) => Pending(v)'
        /\ Listed(v) => Listed(v)' \/ (Pending(v)' /\ Doomed(v)')
    BY <1>t, <1>1, <1>6, <2>2, <2>3, Handover
  <2> QED
    BY <1>1, <2>1, <2>4 DEF OInv, Held
<1> QED
  BY <1>2, <1>5, <1>7 DEF OInv

\* DeleteGitHubRoleMapping: a sign-in that depends on the rule excuses its
\* account; whoever else loses the rule behind its role is about to be listed.
LEMMA DeleteHeld ==
    ASSUME TInv, OInv, NEW p \in Operator, NEW r \in Rule, DeleteRule(p, r)
    PROVE  OInv'
<1> DEFINE users == {u \in User : UnderWay(u, r)}
<1>t. p \in Process /\ p \notin SignIn /\ task \in [Process -> Task]
  BY NamesAssumption DEF TInv, TypeOK, Process
<1>1. /\ rules[r] \in Mapping /\ task[p] = Idle
      /\ Excuse(users)
      /\ UNCHANGED <<role, sessions, tokens>>
      /\ \A q \in Process : q # p => task'[q] = task[q]
      /\ task'[p] = [step |-> "listing", rule |-> rules[r]]
  BY <1>t DEF DeleteRule
<1>2. rules'[r] = Deleted /\ \A s \in Rule : s # r => rules'[s] = rules[s]
  BY DEF DeleteRule, TInv, TypeOK
<1>q. ASSUME NEW q \in SignIn
      PROVE  /\ q \in Process /\ task'[q] = task[q]
             /\ (Evaluates(q)' <=> Evaluates(q)) /\ (Entering(q)' <=> Entering(q))
             /\ Evaluates(q) => task[q] \in Evaluating
             /\ task[q].step = "granted" => task[q] \in Granted
             /\ Evaluates(q) \/ Entering(q) \/ task[q].step = "granted" => task[q].user \in User
  <2>1. q \in Process /\ task'[q] = task[q]
    BY <1>1, <1>t DEF Process
  <2>2. task[q] \in Task
    BY <2>1, <1>t
  <2> QED
    BY <2>1, <2>2, TaskShape
       DEF Evaluates, Entering, Evaluating, Granted, Starting, Revoking
<1>3. ASSUME NEW k \in Rule, NEW u \in User, Fits(k, u)
      PROVE  Fits(k, u)'
  BY <1>3, <1>2 DEF Fits
<1>4. Lineage'
  <2>1. ASSUME NEW v \in User, NEW k \in backing'[v] \cap Rule PROVE Fits(k, v)'
    <3>1. Fits(k, v)
      BY <2>1, <1>1, Excusing
    <3> QED
      BY <3>1, <2>1, <1>3
  <2>2. ASSUME NEW q \in SignIn, Evaluates(q)', NEW s \in Rule, task'[q].seen[s] \in Mapping
        PROVE  \/ rules'[s] = Deleted
               \/ /\ rules'[s] \in Mapping
                  /\ rules'[s].kind = task'[q].seen[s].kind
                  /\ rules'[s].role = task'[q].seen[s].role
    BY <2>2, <1>q, <1>2 DEF OInv, Lineage
  <2>3. ASSUME NEW q \in SignIn, task'[q].step = "granted", NEW k \in task'[q].matched
        PROVE  Fits(k, task[q].user)'
    <3>1. k \in task[q].matched /\ k \in Rule /\ task[q].step = "granted"
      BY <2>3, <1>q DEF Granted
    <3>2. Fits(k, task[q].user)
      BY <3>1 DEF OInv, Lineage
    <3> QED
      BY <3>1, <3>2, <1>q, <1>2 DEF Fits
  <2> QED
    BY <2>1, <2>2, <2>3 DEF Lineage
<1>5. ASSUME NEW v \in User, ~IsExcused(v)'
      PROVE  /\ ~UnderWay(v, r) /\ ~IsExcused(v) /\ backing'[v] = backing[v]
             /\ r \notin backing[v] => (Backed(v)' <=> Backed(v))
  <2>1. v \notin users /\ ~IsExcused(v) /\ backing'[v] = backing[v]
    BY <1>5, <1>1, Excusing
  <2> QED
    BY <2>1, <1>1, <1>2 DEF Backed
<1>6. Fresh'
  <2> SUFFICES ASSUME NEW q \in SignIn, ~IsExcused(task[q].user)',
                      Evaluates(q) \/ Entering(q) \/ task[q].step = "granted"
               PROVE  /\ Evaluates(q) =>
                            \A s \in Rule : task[q].seen[s] \in Mapping => rules'[s] # Deleted
                      /\ task[q].step = "granted" =>
                            \E k \in task[q].matched :
                                rules'[k] \in Mapping /\ rules'[k].role = task[q].role
                      /\ Entering(q) => Backed(task[q].user)'
    BY <1>q DEF Fresh
  <2>1. PICK v \in User : v = task[q].user
    BY <1>q
  <2>2. ~IsExcused(v)'
    BY <2>1, <1>q DEF IsExcused
  <2>3. ~UnderWay(v, r) /\ ~IsExcused(v)
    BY <2>2, <1>5
  <2>4. CASE Evaluates(q)
    <3>1. task[q].seen[r] \notin Mapping
      BY <2>1, <2>3, <2>4 DEF UnderWay, Evaluates
    <3>2. \A s \in Rule : task[q].seen[s] \in Mapping => rules'[s] # Deleted
      BY <3>1, <2>1, <2>3, <2>4, <1>2 DEF OInv, Fresh
    <3> QED
      BY <2>4, <3>2 DEF Evaluates, Entering
  <2>5. CASE task[q].step = "granted"
    <3>1. r \notin task[q].matched
      BY <2>1, <2>3, <2>5 DEF UnderWay
    <3>2. task[q].matched \subseteq Rule
      BY <2>5, <1>q DEF Granted
    <3>3. \E k \in task[q].matched : rules'[k] \in Mapping /\ rules'[k].role = task[q].role
      BY <3>1, <3>2, <2>1, <2>3, <2>5, <1>2 DEF OInv, Fresh
    <3> QED
      BY <2>5, <3>3 DEF Evaluates, Entering
  <2>6. CASE Entering(q)
    <3>1. r \notin backing[v]
      BY <2>1, <2>3, <2>6 DEF UnderWay, Entering
    <3>2. Backed(v)
      BY <2>1, <2>3, <2>6 DEF OInv, Fresh
    <3>3. Backed(v)'
      BY <3>1, <3>2, <2>2, <1>5
    <3>4. Backed(task[q].user)'
      BY <3>3, <2>1, <1>q DEF Backed
    <3> QED
      BY <2>6, <3>4 DEF Evaluates, Entering
  <2> QED
    BY <2>4, <2>5, <2>6
<1>7. Alone'
  BY <1>1 DEF OInv, Alone
<1>8. Held'
  <2> SUFFICES ASSUME NEW v \in User, ~IsExcused(v)'
               PROVE  /\ tokens'[v] = "admin" => role'[v] = "admin" \/ Doomed(v)'
                      /\ v \in sessions' => Backed(v)' \/ Listed(v)' \/ Pending(v)'
                      /\ tokens'[v] # NoAccount => Backed(v)' \/ Listed(v)' \/ Doomed(v)'
    BY DEF Held
  <2>1. ~IsExcused(v) /\ backing'[v] = backing[v]
    BY <1>5
  <2>2. task[p].step = "idle"
    BY <1>1 DEF Idle
  <2>3. /\ Doomed(v) => Doomed(v)'
        /\ Pending(v) => Pending(v)'
        /\ Listed(v) => Listed(v)'
    BY <1>t, <1>1, <2>2, Handover DEF Waits
  <2>4. Backed(v) => Backed(v)' \/ Listed(v)'
    <3> HAVE Backed(v)
    <3>1. PICK k \in backing[v] \cap Rule : rules[k] \in Mapping /\ rules[k].role = role[v]
      BY DEF Backed
    <3>2. CASE k # r
      BY <3>1, <3>2, <2>1, <1>1, <1>2 DEF Backed
    <3>3. CASE k = r
      <4>1. Fits(r, v)
        BY <3>1, <3>3 DEF OInv, Lineage
      <4>2. rules[r].kind \in {"user", "group"} /\ rules[r].role \in Role
        BY <1>1 DEF Mapping, UserRule, GroupRule
      <4>3. rules[r].kind = "user" => rules[r].id = v
        BY <4>1, <1>1, NamesAssumption DEF Fits
      <4>4. role[v] # NoAccount
        BY <3>1, <3>3, <4>2, NamesAssumption
      <4>5. v \in Affected(rules[r])
        BY <3>1, <3>3, <4>2, <4>3, <4>4 DEF Affected
      <4>6. task'[p].step = "listing" /\ v \in Affected(task[p].rule)'
        BY <4>5, <1>1 DEF Affected
      <4> QED
        BY <4>6, <1>t DEF Listed
    <3> QED
      BY <3>2, <3>3
  <2> QED
    BY <1>1, <2>1, <2>3, <2>4 DEF OInv, Held
<1> QED
  BY <1>4, <1>6, <1>7, <1>8 DEF OInv

\* createGitHubMapping: a new rule takes an identifier nobody has read.
LEMMA CreateHeld ==
    ASSUME TInv, OInv, NEW r \in Rule, NEW rule \in Mapping, CreateRule(r, rule)
    PROVE  OInv'
<1>1. /\ rules[r] = Unmade /\ rules'[r] = rule
      /\ \A s \in Rule : s # r => rules'[s] = rules[s]
      /\ UNCHANGED <<role, sessions, tokens, task, backing>>
  BY DEF CreateRule, Resolved, Insertable, TInv, TypeOK
<1>2. Unmade # Deleted /\ Unmade \notin Mapping /\ Deleted \notin Mapping
  BY NamesAssumption
<1>3. ASSUME NEW s \in Rule, rules[s] = Deleted \/ rules[s] \in Mapping
      PROVE  rules'[s] = rules[s]
  BY <1>1, <1>2, <1>3
<1>4. /\ task \in [Process -> Task] /\ SignIn \subseteq Process
      /\ \A q \in SignIn : task[q].step = "granted" => task[q].matched \subseteq Rule
  BY TaskShape DEF TInv, TypeOK, Process, Granted
<1>5. \A k \in Rule : \A u : Fits(k, u) => Fits(k, u)'
  BY <1>3 DEF Fits
<1>6. \A u : Backed(u) => Backed(u)'
  BY <1>1, <1>3 DEF Backed
<1>7. Lineage'
  <2>1. \A u \in User : \A k \in backing'[u] \cap Rule : Fits(k, u)'
    BY <1>1, <1>5 DEF OInv, Lineage
  <2>2. ASSUME NEW q \in SignIn, task'[q].step = "granted", NEW k \in task'[q].matched
        PROVE  Fits(k, task[q].user)'
    <3>1. k \in Rule /\ Fits(k, task[q].user)
      BY <2>2, <1>1, <1>4 DEF OInv, Lineage
    <3> QED
      BY <3>1, <1>1, <1>3 DEF Fits
  <2>3. ASSUME NEW q \in SignIn, Evaluates(q)', NEW s \in Rule, task'[q].seen[s] \in Mapping
        PROVE  \/ rules'[s] = Deleted
               \/ /\ rules'[s] \in Mapping
                  /\ rules'[s].kind = task'[q].seen[s].kind
                  /\ rules'[s].role = task'[q].seen[s].role
    BY <2>3, <1>1, <1>3 DEF OInv, Lineage, Evaluates
  <2> QED
    BY <2>1, <2>2, <2>3 DEF Lineage
<1>8. Fresh'
  <2> SUFFICES ASSUME NEW q \in SignIn, ~IsExcused(task[q].user)
               PROVE  /\ Evaluates(q) =>
                            \A s \in Rule : task[q].seen[s] \in Mapping => rules'[s] # Deleted
                      /\ task[q].step = "granted" =>
                            \E k \in task[q].matched :
                                rules'[k] \in Mapping /\ rules'[k].role = task[q].role
                      /\ Entering(q) => Backed(task[q].user)'
    BY <1>1 DEF Fresh, IsExcused, Evaluates, Entering
  <2>1. Evaluates(q) =>
           \A s \in Rule : task[q].seen[s] \in Mapping => rules'[s] # Deleted
    BY <1>1, <1>2 DEF OInv, Fresh
  <2>2. task[q].step = "granted" =>
           \E k \in task[q].matched : rules'[k] \in Mapping /\ rules'[k].role = task[q].role
    BY <1>3, <1>4 DEF OInv, Fresh
  <2>3. Entering(q) => Backed(task[q].user)
    BY DEF OInv, Fresh
  <2>4. Entering(q) => Backed(task[q].user)'
    BY <2>3, <1>1, <1>3 DEF Backed
  <2> QED
    BY <2>1, <2>2, <2>4
<1>9. Alone'
  BY <1>1 DEF OInv, Alone
<1>10. Held'
  <2>1. /\ \A u : IsExcused(u)' <=> IsExcused(u)
        /\ \A u : Doomed(u)' <=> Doomed(u)
        /\ \A u : Pending(u)' <=> Pending(u)
        /\ \A u : Listed(u)' <=> Listed(u)
    BY <1>1 DEF IsExcused, Doomed, Pending, Listed, Waits, Affected
  <2> QED
    BY <2>1, <1>1, <1>6 DEF OInv, Held
<1> QED
  BY <1>7, <1>8, <1>9, <1>10 DEF OInv

\* A token carries the role of the moment.
LEMMA AccountHeld ==
    ASSUME TInv, OInv, NEW u \in User, AccountStep(u)
    PROVE  OInv'
<1>1. UNCHANGED <<rules, role, task, backing>>
  BY DEF AccountStep, IssueToken, Lapse
<1>2. /\ \A v : IsExcused(v)' <=> IsExcused(v)
      /\ \A v : Doomed(v)' <=> Doomed(v)
      /\ \A v : Pending(v)' <=> Pending(v)
      /\ \A v : Listed(v)' <=> Listed(v)
      /\ \A v : Backed(v)' <=> Backed(v)
      /\ \A v : Pending(v) => Doomed(v)
  BY <1>1 DEF IsExcused, Doomed, Pending, Listed, Waits, Affected, Backed
<1>3. Lineage' /\ Fresh' /\ Alone'
  BY <1>1 DEF OInv, Lineage, Fresh, Alone, Fits, Evaluates, Entering, Backed, IsExcused
<1>4. NoAccount # "admin" /\ \A v \in User : tokens'[v] # tokens[v] => v = u
  BY NamesAssumption DEF AccountStep, IssueToken, Lapse, TInv, TypeOK, Role
<1>5. CASE IssueToken(u)
  <2>1. u \in sessions /\ sessions' = sessions
    BY <1>5 DEF IssueToken
  <2>2. tokens' = [tokens EXCEPT ![u] = IF tokens[u] = "admin" THEN tokens[u] ELSE role[u]]
    BY <1>5 DEF IssueToken
  <2>3. tokens'[u] = "admin" => tokens[u] = "admin" \/ role[u] = "admin"
    BY <2>2 DEF TInv, TypeOK
  <2>4. Held'
    <3> SUFFICES ASSUME NEW v \in User, ~IsExcused(v)'
                 PROVE  /\ tokens'[v] = "admin" => role'[v] = "admin" \/ Doomed(v)'
                        /\ v \in sessions' => Backed(v)' \/ Listed(v)' \/ Pending(v)'
                        /\ tokens'[v] # NoAccount => Backed(v)' \/ Listed(v)' \/ Doomed(v)'
      BY DEF Held
    <3>1. CASE v = u
      BY <3>1, <2>1, <2>3, <1>1, <1>2 DEF OInv, Held
    <3>2. CASE v # u
      BY <3>2, <2>1, <1>1, <1>2, <1>4 DEF OInv, Held
    <3> QED
      BY <3>1, <3>2
  <2> QED
    BY <2>4, <1>3 DEF OInv
<1>6. CASE Lapse(u)
  <2>1. sessions' \subseteq sessions /\ (tokens'[u] = NoAccount \/ tokens' = tokens)
    BY <1>6 DEF Lapse, TInv, TypeOK
  <2> QED
    BY <2>1, <1>1, <1>2, <1>3, <1>4 DEF OInv, Held
<1> QED
  BY <1>5, <1>6 DEF AccountStep

LEMMA NextHeld == TInv /\ NInv /\ OInv /\ [Next]_vars => OInv'
<1> SUFFICES ASSUME TInv, NInv, OInv, [Next]_vars PROVE OInv'
  OBVIOUS
<1>1. CASE UNCHANGED vars
  BY <1>1 DEF vars, OInv, Lineage, Fresh, Alone, Held, Fits, Evaluates, Entering, Backed,
              IsExcused, Doomed, Pending, Listed, Waits, Affected
<1>2. ASSUME NEW p \in SignIn, SignInStep(p) PROVE OInv'
  BY <1>2, SessionHeld, EvaluateHeld, SynchronizeHeld DEF SignInStep, Profile, Memberships
<1>3. ASSUME NEW p \in Operator, OperatorStep(p) PROVE OInv'
  BY <1>3, DeleteHeld, ListHeld DEF OperatorStep
<1>4. ASSUME NEW p \in Process,
             RevokeSessions(p) \/ RevokeTokens(p) \/ RevokeFails(p) \/ Abandon(p)
      PROVE  OInv'
  BY <1>4, RevokeHeld, RevokeFailsHeld, AbandonHeld
<1> QED
  BY <1>1, <1>2, <1>3, <1>4, AccountHeld, CreateHeld DEF Next

LEMMA HeldRoles == TInv /\ OInv => RoleOutlivesNoRule
<1> SUFFICES ASSUME TInv, OInv, NEW u \in User, NEW x \in InForce(u), ~IsExcused(u)
             PROVE  \/ BeingEnded(u)
                    \/ \E k \in backing[u] \cap Rule : /\ rules[k] \in Mapping
                                                       /\ rules[k].role \in {x, "admin"}
  BY DEF RoleOutlivesNoRule, IsExcused
<1>1. Doomed(u) \/ Pending(u) \/ Listed(u) => BeingEnded(u)
  <2>1. ASSUME NEW p \in Process, Waits(p, u) PROVE u \in Unfinished(p)
    BY <2>1 DEF Waits, Unfinished
  <2>2. ASSUME NEW p \in Process, task[p].step \in {"sessions", "tokens"}, task[p].user = u
        PROVE  u \in Unfinished(p)
    BY <2>2 DEF Unfinished
  <2>3. ASSUME NEW p \in Process, task[p].step = "listing", u \in Affected(task[p].rule)
        PROVE  u \in Unfinished(p)
    BY <2>3 DEF Unfinished
  <2> QED
    BY <2>1, <2>2, <2>3 DEF Doomed, Pending, Listed, BeingEnded
<1>2. \A k \in Rule : rules[k] \in Mapping => rules[k].role \in {"developer", "admin"}
  BY DEF Mapping, UserRule, GroupRule, Role
<1>3. CASE u \in sessions /\ x = role[u]
  BY <1>1, <1>3 DEF OInv, Held, Backed
<1>4. CASE x = tokens[u] /\ x # NoAccount
  <2>1. x \in {"developer", "admin"}
    BY <1>4 DEF TInv, TypeOK, Role
  <2>2. x = "admin" => role[u] = "admin" \/ Doomed(u)
    BY <1>4 DEF OInv, Held
  <2>3. Backed(u) \/ BeingEnded(u)
    BY <1>1, <1>4 DEF OInv, Held
  <2> QED
    BY <1>1, <1>2, <2>1, <2>2, <2>3 DEF Backed
<1> QED
  BY <1>3, <1>4 DEF InForce

\* No role outlives the rules that granted it, however sign-ins, deletions and
\* revocations interleave, except where a sign-in overlapped the deletion or
\* ending the sessions failed and was reported (deleteGitHubMapping,
\* githubCallback, GitHubAccountsPossiblyGrantedBy).
THEOREM RolesEndWithTheirRules == Spec => []RoleOutlivesNoRule
<1>1. Spec => []TInv
  BY InitTyped, NextTyped, PTL DEF Spec
<1>2. Spec => []NInv
  BY <1>1, InitNames, NextNames, PTL DEF Spec
<1>3. Spec => []OInv
  BY <1>1, <1>2, InitHeld, NextHeld, PTL DEF Spec
<1> QED
  BY <1>1, <1>3, HeldRoles, PTL
=============================================================================
