---------------------------- MODULE GitHubAccess ----------------------------
(***************************************************************************)
(* Who may sign in with GitHub, and as what.  Access rules in PostgreSQL   *)
(* name a GitHub user, a team or an organization and grant a role.  Each   *)
(* sign-in reads them, asks GitHub for the memberships, writes the role to *)
(* the account and starts a browser session, whose tokens carry the role   *)
(* of the moment.  Deleting a rule ends the sessions of the accounts it    *)
(* may have admitted; so does a sign-in that finds an account demoted or   *)
(* no longer admitted.  None of this holds a lock: a sign-in acts on the   *)
(* rules and memberships it has read, while operators delete rules, people *)
(* change teams and GitHub hands renamed logins to others.  GitHub itself  *)
(* has no state here: each question about a login or a membership may get  *)
(* any answer, because both change freely between two questions.           *)
(*                                                                         *)
(* A team and an organization rule differ only in the call that asks       *)
(* GitHub for the membership; both are group rules here.  How sessions and *)
(* tokens end in detail is the subject of GlobalLogout; here they have     *)
(* ended once revokeUserSessions has done its two halves.  A disabled      *)
(* account has no session there, and each step of its sign-in is refused,  *)
(* which here is a sign-in that ends early.                                *)
(***************************************************************************)
EXTENDS Integers, FiniteSets

CONSTANTS
    User,       \* GitHub accounts, by their permanent numeric ID
    Login,      \* the GitHub logins rules may name; accounts rename freely
    Group,      \* teams and organizations
    Rule,       \* identifiers of access rules, never used twice
    FirstRules, \* the rules a deployment may have when it is observed first
    SignIn,     \* requests of people returning from GitHub
    Operator,   \* requests to delete a rule
    NoUser, NoLogin, NoAccount, Unmade, Deleted, Excused

Role == {"developer", "admin"}

\* A row of github_role_mappings.  A user rule without an ID was recorded
\* before IDs were kept.
UserRule == [kind : {"user"}, target : Login, id : User \cup {NoUser}, role : Role]

GroupRule == [kind : {"group"}, target : Group, id : {NoUser}, role : Role]

Mapping == UserRule \cup GroupRule

\* UNIQUE (kind, target), and the unique index on github_user_id.
Distinct(table) ==
    \A r, s \in Rule :
        r # s /\ table[r] \in Mapping /\ table[s] \in Mapping =>
            /\ <<table[r].kind, table[r].target>> # <<table[s].kind, table[s].target>>
            /\ table[r].id = NoUser \/ table[r].id # table[s].id

ASSUME NamesAssumption ==
    /\ NoUser \notin User
    /\ NoLogin \notin Login
    /\ NoAccount \notin Role
    /\ Unmade # Deleted
    /\ {Unmade, Deleted} \cap Mapping = {}
    /\ Excused \notin Rule
    /\ SignIn \cap Operator = {}
    /\ FirstRules \subseteq [Rule -> Mapping \cup {Unmade}]

VARIABLES
    rules,      \* github_role_mappings, by identifier
    role,       \* users.role of the account federated with a GitHub ID
    sessions,   \* accounts with a browser session in force
    tokens,     \* the strongest role an account's tokens and application
                \* sessions carry, NoAccount when it has none
    task,       \* what each request is doing
    admitted,   \* history: the accounts a user rule has matched
    backing     \* history: the rules behind the role an account has, or
                \* Excused once a sign-in of it was under way when a rule it
                \* had read was deleted, or somebody failed to end its sessions
                \* and was told so

vars == <<rules, role, sessions, tokens, task,
          admitted, backing>>

Process == SignIn \cup Operator

Idle == [step |-> "idle"]

Evaluating == [step : {"evaluating"}, user : User, named : SUBSET Rule,
               seen : [Rule -> Mapping \cup {Unmade, Deleted}]]

Granted == [step : {"granted"}, user : User, role : Role, matched : SUBSET Rule]

Starting == [step : {"starting"}, user : User]

Listing == [step : {"listing"}, rule : Mapping]

Signing == [step : {"next"}, todo : SUBSET User]

Revoking == [step : {"sessions", "tokens"}, user : User, todo : SUBSET User,
             then : {"refuse", "start", "next"}]

Task == {Idle} \cup Evaluating \cup Granted \cup Starting \cup Listing \cup Signing
        \cup Revoking

Init ==
    /\ rules \in {table \in FirstRules : Distinct(table)}
    /\ role = [u \in User |-> NoAccount]
    /\ sessions = {}
    /\ tokens = [u \in User |-> NoAccount]
    /\ task = [p \in Process |-> Idle]
    /\ admitted = [r \in Rule |-> {}]
    /\ backing = [u \in User |-> {}]

\* From here on nothing is claimed about the roles these accounts have.
Excuse(users) ==
    backing' = [u \in User |-> IF u \in users THEN {Excused} ELSE backing[u]]

-----------------------------------------------------------------------------
\* Sign-in

\* The unbound user rules that name a login.
Unbound(login) ==
    {r \in Rule : rules[r] \in UserRule /\ rules[r].id = NoUser /\ rules[r].target = login}

\* Profile: the account, and its login of this moment.
Profile == [id : User, login : Login \cup {NoLogin}]

\* Teams, Organizations: any memberships, for people join and leave freely.
Memberships == SUBSET Group

\* githubStart, and githubCallback up to the list of the rules, of a request
\* that returns with its transaction.  Only unbound rules are compared with the
\* login.
Callback(p, u, login) ==
    /\ task[p] = Idle
    /\ task' = [task EXCEPT ![p] = [step |-> "evaluating", user |-> u,
                                    named |-> Unbound(login), seen |-> rules]]
    /\ UNCHANGED <<rules, role, sessions, tokens, admitted,
                   backing>>

\* BindGitHubUserMapping: the rule is still there and unbound, and no other
\* rule names the account.
Bindable_Again(r, u) == rules[r] \in UserRule
Bindable(r, u) ==
    /\ rules[r] \in UserRule
    /\ rules[r].id = NoUser
    /\ \A s \in Rule : rules[s] \in Mapping => rules[s].id # u

\* The rules that match: group rules by the memberships GitHub reports now, a
\* bound user rule by its account, an unbound one if this sign-in binds it.
Matched(p, groups, bound) ==
    {r \in Rule : LET rule == task[p].seen[r]
                  IN  \/ rule \in GroupRule /\ rule.target \in groups
                      \/ rule \in UserRule /\ rule.id = task[p].user} \cup bound

\* githubRole.  UNIQUE (kind, target) leaves one rule to bind at most.  A
\* sign-in that nothing admits goes on to end what its account still has.
Evaluate(p, groups) ==
    /\ task[p].step = "evaluating"
    /\ LET u == task[p].user
           bound == {r \in task[p].named : Bindable(r, u)}
           matched == Matched(p, groups, bound)
           admin == \E r \in matched : task[p].seen[r].role = "admin"
       IN  /\ rules' = [r \in Rule |-> IF r \in bound THEN [rules[r] EXCEPT !.id = u]
                                       ELSE rules[r]]
           /\ admitted' = [r \in Rule |->
                             IF r \in matched /\ task[p].seen[r] \in UserRule
                             THEN admitted[r] \cup {u} ELSE admitted[r]]
           /\ task' = [task EXCEPT ![p] =
                 CASE matched # {} ->
                        [step |-> "granted", user |-> u, matched |-> matched,
                         role |-> IF admin THEN "admin" ELSE "developer"]
                   [] matched = {} /\ role[u] # NoAccount ->
                        [step |-> "sessions", user |-> u, todo |-> {}, then |-> "refuse"]
                   [] OTHER -> Idle]
    /\ UNCHANGED <<role, sessions, tokens, backing>>

\* The row of users is updated, or inserted at the first sign-in.
WithRole_Existing(u, to) == IF role[u] = NoAccount THEN role ELSE [role EXCEPT ![u] = to]
WithRole(u, to) == [role EXCEPT ![u] = to]

\* The account loses its administrator role.
Demoted(u, to) == role[u] = "admin" /\ to # "admin"

\* FindOrCreateGitHubUser.
Synchronize(p) ==
    /\ task[p].step = "granted"
    /\ LET u == task[p].user
           to == task[p].role
       IN  /\ role' = WithRole(u, to)
           /\ backing' = [backing EXCEPT ![u] = IF Excused \in @ THEN @ ELSE task[p].matched]
           /\ task' = [task EXCEPT ![p] =
                 IF Demoted(u, to)
                 THEN [step |-> "sessions", user |-> u, todo |-> {}, then |-> "start"]
                 ELSE [step |-> "starting", user |-> u]]
    /\ UNCHANGED <<rules, sessions, tokens, admitted>>

\* startSession.
StartSession(p) ==
    /\ task[p].step = "starting"
    /\ sessions' = sessions \cup {task[p].user}
    /\ task' = [task EXCEPT ![p] = Idle]
    /\ UNCHANGED <<rules, role, tokens, admitted, backing>>

\* An application of a signed-in account gets a token with the role of now.
IssueToken(u) ==
    /\ u \in sessions
    /\ tokens' = [tokens EXCEPT ![u] = IF @ = "admin" THEN @ ELSE role[u]]
    /\ UNCHANGED <<rules, role, sessions, task, admitted,
                   backing>>

\* Browser sessions, application sessions and tokens end, by logout, by age or
\* because the account is disabled.
Lapse(u) ==
    /\ \/ sessions' = sessions \ {u} /\ UNCHANGED tokens
       \/ tokens' = [tokens EXCEPT ![u] = NoAccount] /\ UNCHANGED sessions
    /\ UNCHANGED <<rules, role, task, admitted, backing>>

-----------------------------------------------------------------------------
\* Revocation: revokeUserSessions

Continue(p) ==
    CASE task[p].then = "refuse" -> Idle
      [] task[p].then = "start" -> [step |-> "starting", user |-> task[p].user]
      [] task[p].then = "next" -> [step |-> "next", todo |-> task[p].todo]

\* RevokeUserSessions: the browser sessions end.
RevokeSessions(p) ==
    /\ task[p].step = "sessions"
    /\ sessions' = sessions \ {task[p].user}
    /\ task' = [task EXCEPT ![p].step = "tokens"]
    /\ UNCHANGED <<rules, role, tokens, admitted, backing>>

\* revokeHydraSessions: the provider sessions and the tokens end.
RevokeTokens(p) ==
    /\ task[p].step = "tokens"
    /\ tokens' = [tokens EXCEPT ![task[p].user] = NoAccount]
    /\ task' = [task EXCEPT ![p] = Continue(p)]
    /\ UNCHANGED <<rules, role, sessions, admitted, backing>>

\* Either half fails, with all of the provider sessions left in the worst
\* case.  A sign-in then shows an error page; a deletion goes on with the other
\* accounts and reports the failure at its end.
RevokeFails(p) ==
    /\ task[p].step \in {"sessions", "tokens"}
    /\ Excuse({task[p].user})
    /\ task' = [task EXCEPT ![p] = IF task[p].then = "next" THEN Continue(p) ELSE Idle]
    /\ UNCHANGED <<rules, role, sessions, tokens, admitted>>

-----------------------------------------------------------------------------
\* Operators

\* AccountID: GitHub says which account the login of a user rule names.
Resolved(rule) == rule \in UserRule => rule.id # NoUser

\* CreateGitHubRoleMapping: a new identifier, and no conflict with a rule.
Insertable(r, rule) == rules[r] = Unmade /\ Distinct([rules EXCEPT ![r] = rule])

\* createGitHubMapping.
CreateRule(r, rule) ==
    /\ Resolved(rule)
    /\ Insertable(r, rule)
    /\ rules' = [rules EXCEPT ![r] = rule]
    /\ UNCHANGED <<role, sessions, tokens, task, admitted,
                   backing>>

\* A sign-in of u is under way that has read rule r, or was admitted by it.
UnderWay(u, r) ==
    \E p \in SignIn :
        \/ /\ task[p].step = "evaluating"
           /\ task[p].user = u
           /\ task[p].seen[r] \in Mapping
        \/ /\ task[p].step = "granted"
           /\ task[p].user = u
           /\ r \in task[p].matched
        \/ /\ task[p].step = "starting" \/ task[p].step \in {"sessions", "tokens"}
           /\ task[p].user = u
           /\ r \in backing[u]

\* DeleteGitHubRoleMapping.
DeleteRule(p, r) ==
    /\ task[p] = Idle
    /\ rules[r] \in Mapping
    /\ rules' = [rules EXCEPT ![r] = Deleted]
    /\ task' = [task EXCEPT ![p] = [step |-> "listing", rule |-> rules[r]]]
    /\ Excuse({u \in User : UnderWay(u, r)})
    /\ UNCHANGED <<role, sessions, tokens, admitted>>

\* GitHubAccountsPossiblyGrantedBy: the account a user rule is bound to, or
\* every account with the role of a group rule.  Disabled accounts, which the
\* query leaves out, are not told apart: they have no session to end, and tokens
\* only if ending those failed when the account was disabled, and was reported.
Affected_UserRules(rule) ==
    {u \in User : rule.kind = "user" /\ rule.id = u /\ role[u] # NoAccount}
Affected(rule) ==
    {u \in User :
        \/ rule.kind = "user" /\ rule.id = u /\ role[u] # NoAccount
        \/ rule.kind = "group" /\ role[u] = rule.role}

\* The accounts are listed; a user rule without an ID lists the account, if
\* any, that was last seen with its login.
ListAccounts(p) ==
    /\ task[p].step = "listing"
    /\ \E extra \in SUBSET User :
          /\ task[p].rule \in GroupRule \/ task[p].rule.id # NoUser => extra = {}
          /\ \A u \in extra : role[u] # NoAccount
          /\ Cardinality(extra) <= 1
          /\ task' = [task EXCEPT ![p] = [step |-> "next",
                                          todo |-> Affected(task[p].rule) \cup extra]]
    /\ UNCHANGED <<rules, role, sessions, tokens, admitted,
                   backing>>

\* The next account, or the end of the request.
NextAccount(p) ==
    /\ task[p].step = "next"
    /\ IF task[p].todo = {}
       THEN task' = [task EXCEPT ![p] = Idle]
       ELSE \E u \in task[p].todo :
               task' = [task EXCEPT ![p] = [step |-> "sessions", user |-> u,
                                            todo |-> task[p].todo \ {u}, then |-> "next"]]
    /\ UNCHANGED <<rules, role, sessions, tokens, admitted,
                   backing>>

-----------------------------------------------------------------------------
\* What a request still had to end when it ended itself.
Unfinished(p) ==
    CASE task[p].step \in {"sessions", "tokens"} -> {task[p].user} \cup task[p].todo
      [] task[p].step = "next" -> task[p].todo
      [] task[p].step = "listing" -> Affected(task[p].rule)
      [] OTHER -> {}

\* A call to GitHub or PostgreSQL fails, the account is disabled, the browser
\* leaves, the process dies.
Abandon(p) ==
    /\ task[p] # Idle
    /\ task' = [task EXCEPT ![p] = Idle]
    /\ Excuse(Unfinished(p))
    /\ UNCHANGED <<rules, role, sessions, tokens, admitted>>

SignInStep(p) ==
    \/ \E profile \in Profile : Callback(p, profile.id, profile.login)
    \/ \E groups \in Memberships : Evaluate(p, groups)
    \/ Synchronize(p)
    \/ StartSession(p)

OperatorStep(p) ==
    \/ \E r \in Rule : DeleteRule(p, r)
    \/ ListAccounts(p)
    \/ NextAccount(p)

AccountStep(u) ==
    \/ IssueToken(u)
    \/ Lapse(u)

Next ==
    \/ \E p \in SignIn : SignInStep(p)
    \/ \E p \in Operator : OperatorStep(p)
    \/ \E p \in Process : RevokeSessions(p) \/ RevokeTokens(p) \/ RevokeFails(p) \/ Abandon(p)
    \/ \E u \in User : AccountStep(u)
    \/ \E r \in Rule, rule \in Mapping : CreateRule(r, rule)

Spec == Init /\ [][Next]_vars

-----------------------------------------------------------------------------
\* Every variable holds a value of its type, and only accounts that exist have
\* sessions.
TypeOK ==
    /\ rules \in [Rule -> Mapping \cup {Unmade, Deleted}]
    /\ role \in [User -> Role \cup {NoAccount}]
    /\ sessions \subseteq {u \in User : role[u] # NoAccount}
    /\ tokens \in [User -> Role \cup {NoAccount}]
    /\ task \in [Process -> Task]
    /\ admitted \in [Rule -> SUBSET User]
    /\ backing \in [User -> SUBSET (Rule \cup {Excused})]

\* A user rule never admits a second account, although logins are renamed and
\* claimed by others and sign-ins bind old rules concurrently
\* (githubUserRuleMatches: "a login that is renamed and later claimed by
\* someone else gains nothing").
RuleNamesOne ==
    \A r \in Rule : \A u, v \in admitted[r] : u = v

\* The roles an account's sessions and tokens give it.
InForce(u) == (IF u \in sessions THEN {role[u]} ELSE {}) \cup ({tokens[u]} \ {NoAccount})

\* Somebody is about to end what u has in force.
BeingEnded(u) == \E p \in Process : u \in Unfinished(p)

\* A role does not outlive the rules that granted it: whatever role an account
\* has in force, a rule that admitted it at its last sign-in and grants at
\* least that role still exists, or its sessions are about to be ended; unless
\* a sign-in of it overlapped the deletion, or ending its sessions failed and
\* was reported (deleteGitHubMapping, githubCallback).
RoleOutlivesNoRule ==
    \A u \in User : \A r \in InForce(u) :
        \/ Excused \in backing[u]
        \/ BeingEnded(u)
        \/ \E k \in backing[u] \cap Rule : /\ rules[k] \in Mapping
                                 /\ rules[k].role \in {r, "admin"}

\* "Sessions and tokens issued while the account was an administrator still
\* carry that role; they end before the new session begins" (githubCallback),
\* of a sign-in that is about to begin its session.
DemotionEndsTokens ==
    \A p \in SignIn :
        task[p].step = "starting" /\ role[task[p].user] = "developer" =>
            tokens[task[p].user] # "admin"
=============================================================================
