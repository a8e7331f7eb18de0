------------------------------ MODULE Accounts ------------------------------
(***************************************************************************)
(* The accounts of Shauth and how they come to be: local accounts an       *)
(* administrator creates or invites, the deployment's break-glass          *)
(* administrator and validation identities, and the accounts that GitHub   *)
(* and Microsoft Entra ID sign-ins find, link or create.                   *)
(*                                                                         *)
(* A username is unique and never changes and an account is never deleted, *)
(* so that an account is named by its username.  Each statement or         *)
(* transaction of the store is one step.  An Entra sign-in is three        *)
(* statements without a transaction, a request that others may overtake;   *)
(* so is the creation of an invitation, which is recorded, mailed and,     *)
(* when the mail fails, revoked again.                                     *)
(*                                                                         *)
(* A person stands behind each address and each upstream identity.  What   *)
(* the upstream providers verify is true; what they do not may be anything.*)
(***************************************************************************)
EXTENDS FiniteSets

CONSTANTS
    Name,       \* usernames
    Email,      \* addresses
    Oid,        \* object identifiers of the Entra tenant
    Gid,        \* GitHub's numeric identifiers
    Person,
    OwnerOf,    \* who reads the mail of an address
    PersonOf,   \* who signs in as an upstream identity
    Bootstrap,  \* addresses the deployments name as break-glass administrator
    BootName,   \* the local part of each
    SlotEmail,  \* addresses of the validation identities, by username
    Invitation, \* rows of invitations
    Request,    \* Entra callbacks in flight
    None

Slot == DOMAIN SlotEmail

Role == {"developer", "admin"}

\* A row of users, with two fields no column holds: whom the account was made
\* for, and the invitation it came from.
Row == [email : Email, verified : BOOLEAN, pass : BOOLEAN,
        oid : Oid \cup {None}, gid : Gid \cup {None}, role : Role,
        disabled : BOOLEAN, validation : BOOLEAN,
        person : Person, via : Invitation \cup {None}]

\* A row of invitations: its columns, whether its link reached somebody, what
\* the request that made it has still to do or was answered, and whether that
\* request tried to revoke it and could not.
Invite == [email : Email, role : Role, accepted : BOOLEAN, revoked : BOOLEAN,
           expired : BOOLEAN, delivered : BOOLEAN, lapsed : BOOLEAN,
           sender : {"sending", "withdrawing", "sent", "withdrawn", "gone"}]

ASSUME PeopleAssumption ==
    /\ OwnerOf \in [Email -> Person]
    /\ PersonOf \in [Oid \cup Gid -> Person]

ASSUME DeploymentAssumption ==
    /\ Bootstrap \subseteq Email
    /\ BootName \in [Bootstrap -> Name]
    /\ Slot \subseteq Name
    /\ SlotEmail \in [Slot -> Email]
    /\ \A s, t \in Slot : SlotEmail[s] = SlotEmail[t] => s = t

ASSUME NoneAssumption == None \notin Oid \cup Gid \cup Invitation \cup Row \cup Invite

VARIABLES
    users,   \* users, by username
    invites, \* invitations, each with how far the request that made it came
    entra    \* the Entra callbacks

accountVars == <<users, invites, entra>>

Idle == [step |-> "idle"]

\* What an ID token says of an identity's address: verified only if its email
\* claim is, never if the address is its preferred username.
Claim == {c \in [oid : Oid, email : Email, verified : BOOLEAN] :
             c.verified => OwnerOf[c.email] = PersonOf[c.oid]}

Pending == [step : {"linking", "creating"}, claim : Claim]

AccountInit ==
    /\ users = [n \in Name |-> None]
    /\ invites = [i \in Invitation |-> None]
    /\ entra = [p \in Request |-> Idle]

-----------------------------------------------------------------------------
\* The table and its unique indexes

Users == {n \in Name : users[n] # None}

\* No other row has the row's address or its upstream identity.
Unique(n, row) ==
    \A m \in Users \ {n} :
        /\ users[m].email # row.email
        /\ row.oid # None => users[m].oid # row.oid
        /\ row.gid # None => users[m].gid # row.gid

Put(n, row) == Unique(n, row) /\ users' = [users EXCEPT ![n] = row]

InsertUser(n, row) == users[n] = None /\ Put(n, row)

\* The columns of a new account that has no credential yet.
Account(e, verified, role, person) ==
    [email |-> e, verified |-> verified, pass |-> FALSE, oid |-> None, gid |-> None,
     role |-> role, disabled |-> FALSE, validation |-> FALSE,
     person |-> person, via |-> None]

-----------------------------------------------------------------------------
\* Administrators and the deployment

\* createUser: the administrator vouches for the address.
CreatePasswordUser(n, e, role) ==
    /\ InsertUser(n, [Account(e, TRUE, role, OwnerOf[e]) EXCEPT !.pass = TRUE])
    /\ UNCHANGED <<invites, entra>>

\* The row ON CONFLICT updates, unless it is a validation identity.
Promotable_Any(n, e) == n \in Users /\ users[n].email = e
Promotable(n, e) == n \in Users /\ users[n].email = e /\ ~users[n].validation

\* Creates the break-glass administrator or gives the account that has its
\* address the role, the password and a verified address; disabled it stays.
EnsureBootstrapAdmin(e) ==
    /\ \/ InsertUser(BootName[e],
                     [Account(e, TRUE, "admin", OwnerOf[e]) EXCEPT !.pass = TRUE])
       \/ \E n \in Name :
             /\ Promotable(n, e)
             /\ users' = [users EXCEPT ![n].role = "admin", ![n].pass = TRUE,
                                       ![n].verified = TRUE]
    /\ UNCHANGED <<invites, entra>>

\* The row a validation identity has after a start: a new one, or its own with
\* every credential taken away again.
Provisioned(s) ==
    IF users[s] = None
    THEN [Account(SlotEmail[s], TRUE, "developer", OwnerOf[SlotEmail[s]])
             EXCEPT !.validation = TRUE]
    ELSE [users[s] EXCEPT !.email = SlotEmail[s], !.verified = TRUE, !.pass = FALSE,
                          !.oid = None, !.gid = None, !.role = "developer",
                          !.disabled = FALSE]

\* One transaction for the whole pool; a username or an address that somebody
\* else has makes it fail.
EnsureValidationUsers_TakesOver ==
    /\ \A s \in Slot : \A n \in Users \ Slot : users[n].email # SlotEmail[s]
    /\ users' = [n \in Name |-> IF n \in Slot THEN Provisioned(n) ELSE users[n]]
    /\ UNCHANGED <<invites, entra>>
EnsureValidationUsers ==
    /\ \A s \in Slot : users[s] # None => users[s].validation
    /\ \A s \in Slot : \A n \in Users \ Slot : users[n].email # SlotEmail[s]
    /\ users' = [n \in Name |-> IF n \in Slot THEN Provisioned(n) ELSE users[n]]
    /\ UNCHANGED <<invites, entra>>

\* disableUser refuses a validation identity.
Disable(n) ==
    /\ n \in Users /\ ~users[n].validation
    /\ users' = [users EXCEPT ![n].disabled = TRUE]
    /\ UNCHANGED <<invites, entra>>

Enable(n) ==
    /\ n \in Users
    /\ users' = [users EXCEPT ![n].disabled = FALSE]
    /\ UNCHANGED <<invites, entra>>

-----------------------------------------------------------------------------
\* Invitations

Open(i) == invites[i] # None /\ ~invites[i].accepted /\ ~invites[i].revoked

\* createInvitation, first statement.
CreateInvitation(i, e, role) ==
    /\ invites[i] = None
    /\ invites' = [invites EXCEPT ![i] =
          [email |-> e, role |-> role, accepted |-> FALSE, revoked |-> FALSE,
           expired |-> FALSE, delivered |-> FALSE, lapsed |-> FALSE,
           sender |-> "sending"]]
    /\ UNCHANGED <<users, entra>>

\* The mail service took the mail; or it did not answer that it did, and the
\* mail arrives or not.
SendInvitation(i) ==
    /\ invites[i] # None /\ invites[i].sender = "sending"
    /\ \/ invites' = [invites EXCEPT ![i].sender = "sent", ![i].delivered = TRUE]
       \/ \E arrives \in BOOLEAN :
             invites' = [invites EXCEPT ![i].sender = "withdrawing",
                                        ![i].delivered = arrives]
    /\ UNCHANGED <<users, entra>>

\* createInvitation takes an unsent invitation back.  Whether that worked is
\* only logged: the caller is told that it was withdrawn.
WithdrawUnsent(i) ==
    /\ invites[i] # None /\ invites[i].sender = "withdrawing"
    /\ \/ invites' = [invites EXCEPT ![i].sender = "withdrawn",
                                     ![i].revoked = @ \/ Open(i)]
       \/ invites' = [invites EXCEPT ![i].sender = "withdrawn", ![i].lapsed = TRUE]
    /\ UNCHANGED <<users, entra>>

\* The request, or its process, ends before it has an answer.
SenderLeaves(i) ==
    /\ invites[i] # None /\ invites[i].sender \in {"sending", "withdrawing"}
    /\ invites' = [invites EXCEPT ![i].sender = "gone"]
    /\ UNCHANGED <<users, entra>>

\* The claim of AcceptInvitation.
Claimable_Revoked(i) == invites[i] # None /\ ~invites[i].accepted /\ ~invites[i].expired
Claimable(i) == Open(i) /\ ~invites[i].expired

\* Claims the invitation and creates its account in one transaction: a
\* username or an address that is taken rolls the claim back.
AcceptInvitation(i, n) ==
    /\ Claimable(i) /\ invites[i].delivered
    /\ InsertUser(n, [Account(invites[i].email, TRUE, invites[i].role,
                              OwnerOf[invites[i].email])
                         EXCEPT !.pass = TRUE, !.via = i])
    /\ invites' = [invites EXCEPT ![i].accepted = TRUE]
    /\ UNCHANGED entra

\* An administrator's revokeInvitation; an expired invitation can be revoked.
RevokeInvitation(i) ==
    /\ Open(i)
    /\ invites' = [invites EXCEPT ![i].revoked = TRUE]
    /\ UNCHANGED <<users, entra>>

ExpireInvitation(i) ==
    /\ invites[i] # None /\ ~invites[i].expired
    /\ invites' = [invites EXCEPT ![i].expired = TRUE]
    /\ UNCHANGED <<users, entra>>

-----------------------------------------------------------------------------
\* Sign-ins that find or create an account

\* The primary verified address GitHub may report for an account.
Reported_Empty(g) == {e \in Email : OwnerOf[e] = PersonOf[g]} \cup {None}
Reported(g) == {e \in Email : OwnerOf[e] = PersonOf[g]}

\* An account keeps its address when GitHub reports none; a new one needs one.
\* The role is what the access rules of GitHubAccess give.  A new account takes
\* any free name: the login, or github-ID when that is taken.
FindOrCreateGitHubUser(g, role) ==
    /\ \/ \E n \in Users :
             /\ users[n].gid = g /\ ~users[n].disabled
             /\ \E e \in {users[n].email} \cup Reported(g) :
                   Put(n, [users[n] EXCEPT !.role = role, !.email = e, !.verified = TRUE])
       \/ /\ \A n \in Users : users[n].gid # g
          /\ \E n \in Name, e \in Reported(g) :
                InsertUser(n, [Account(e, TRUE, role, PersonOf[g]) EXCEPT !.gid = g])
    /\ UNCHANGED <<invites, entra>>

\* An address that changes is verified only if the claim is.
Reverified_Kept(row, claim) == row.verified \/ claim.verified
Reverified(row, claim) ==
    IF row.email = claim.email THEN row.verified \/ claim.verified ELSE claim.verified

\* FindOrCreateEntraUser, first statement: the account that has the identity
\* takes over the claim's address, a disabled one too, which is then refused.
\* An address that another account has ends the sign-in with an error.
FindEntraUser(p, claim) ==
    /\ entra[p] = Idle
    /\ \/ /\ \E n \in Users :
                /\ users[n].oid = claim.oid
                /\ Put(n, [users[n] EXCEPT !.email = claim.email,
                                           !.verified = Reverified(users[n], claim)])
          /\ UNCHANGED entra
       \/ /\ \A n \in Users : users[n].oid # claim.oid
          /\ entra' = [entra EXCEPT ![p] = [step |-> "linking", claim |-> claim]]
          /\ UNCHANGED users
    /\ UNCHANGED invites

\* The account an identity may be linked to by its address.
Linkable_Unverified(n, claim) ==
    /\ n \in Users /\ users[n].email = claim.email /\ users[n].verified
    /\ users[n].oid = None /\ users[n].gid = None
    /\ ~users[n].disabled /\ ~users[n].validation
Linkable(n, claim) ==
    /\ n \in Users /\ users[n].email = claim.email
    /\ claim.verified /\ users[n].verified
    /\ users[n].oid = None /\ users[n].gid = None
    /\ ~users[n].disabled /\ ~users[n].validation

\* Second statement.  An identity that another account has got meanwhile ends
\* the sign-in with an error: EntraFails.
LinkEntraUser(p) ==
    /\ entra[p].step = "linking"
    /\ LET claim == entra[p].claim IN
       \/ \E n \in Name :
             /\ Linkable(n, claim)
             /\ Put(n, [users[n] EXCEPT !.oid = claim.oid])
             /\ entra' = [entra EXCEPT ![p] = Idle]
       \/ /\ \A n \in Name : ~Linkable(n, claim)
          /\ entra' = [entra EXCEPT ![p].step = "creating"]
          /\ UNCHANGED users
    /\ UNCHANGED invites

\* Third statement.
CreateEntraUser(p, n) ==
    /\ entra[p].step = "creating"
    /\ LET claim == entra[p].claim IN
       InsertUser(n, [Account(claim.email, claim.verified, "developer",
                              PersonOf[claim.oid]) EXCEPT !.oid = claim.oid])
    /\ entra' = [entra EXCEPT ![p] = Idle]
    /\ UNCHANGED invites

\* A statement fails, or the browser leaves.
EntraFails(p) ==
    /\ entra[p] # Idle
    /\ entra' = [entra EXCEPT ![p] = Idle]
    /\ UNCHANGED <<users, invites>>

-----------------------------------------------------------------------------
\* Every operation but Disable, which also ends sessions.
Administer ==
    \/ \E n \in Name, e \in Email, role \in Role : CreatePasswordUser(n, e, role)
    \/ \E e \in Bootstrap : EnsureBootstrapAdmin(e)
    \/ EnsureValidationUsers
    \/ \E n \in Name : Enable(n)

Invitations ==
    \E i \in Invitation :
        \/ \E e \in Email, role \in Role : CreateInvitation(i, e, role)
        \/ SendInvitation(i)
        \/ WithdrawUnsent(i)
        \/ SenderLeaves(i)
        \/ \E n \in Name : AcceptInvitation(i, n)
        \/ RevokeInvitation(i)
        \/ ExpireInvitation(i)

Federated ==
    \/ \E g \in Gid, role \in Role : FindOrCreateGitHubUser(g, role)
    \/ \E p \in Request :
          \/ \E claim \in Claim : FindEntraUser(p, claim)
          \/ LinkEntraUser(p)
          \/ \E n \in Name : CreateEntraUser(p, n)
          \/ EntraFails(p)

AccountStep == Administer \/ Invitations \/ Federated

AccountSpec ==
    AccountInit /\ [][AccountStep \/ \E n \in Name : Disable(n)]_accountVars

-----------------------------------------------------------------------------
\* Every variable holds a value of its type.
AccountTypeOK ==
    /\ users \in [Name -> Row \cup {None}]
    /\ invites \in [Invitation -> Invite \cup {None}]
    /\ entra \in [Request -> {Idle} \cup Pending]

\* An Entra identity signs in to no account but one that was made for its
\* person: an account is linked by its address only when both sides verified
\* it (FindOrCreateEntraUser; docs/architecture.md:38).
LinkedToItsOwner ==
    \A n \in Users : users[n].oid # None => PersonOf[users[n].oid] = users[n].person

\* A verified address is its account's person's, whatever the order of
\* sign-ins, address changes and restarts: applications that trust
\* email_verified may find a person by it.  Excepted are the addresses the
\* deployment names, which it attests itself (docs/architecture.md:41).
VerifiedIsVouched ==
    \A n \in Users :
        users[n].verified /\ users[n].email \notin Bootstrap
            => OwnerOf[users[n].email] = users[n].person

\* A validation identity never gets another way in, another role or a disabled
\* state, although starts, sign-ins and administrators work by addresses that
\* may be its own (EnsureValidationUsers; "no administrative privileges").
ValidationApart ==
    \A n \in Users : users[n].validation =>
        /\ users[n].role = "developer" /\ ~users[n].disabled
        /\ ~users[n].pass /\ users[n].oid = None /\ users[n].gid = None

\* An invitation makes one account or none: it is accepted exactly when the
\* account exists, a revocation that was reported is final, and a caller who
\* was told that an invitation was withdrawn finds it revoked, unless the
\* link was used first or the revocation itself failed (AcceptInvitation,
\* RevokeInvitation, createInvitation; docs/api.md:67).
InvitationsSettle ==
    \A i \in Invitation :
        /\ \A m, n \in Users : users[m].via = i /\ users[n].via = i => m = n
        /\ invites[i] # None =>
              /\ invites[i].accepted <=> \E n \in Users : users[n].via = i
              /\ ~(invites[i].accepted /\ invites[i].revoked)
              /\ invites[i].sender = "withdrawn" /\ ~invites[i].lapsed =>
                    invites[i].revoked \/ invites[i].accepted

\* An account stays its person's: no start, sign-in or administrator removes an
\* account, takes an upstream identity away from it or puts another in its
\* place, although sign-ins that found no account for theirs link it later, and
\* starts reset the accounts they provision by name (FindOrCreateEntraUser,
\* FindOrCreateGitHubUser, EnsureValidationUsers).
IdentitiesStay ==
    [][\A n \in Users :
          /\ n \in Users'
          /\ users[n].oid # None => users'[n].oid = users[n].oid
          /\ users[n].gid # None => users'[n].gid = users[n].gid]_accountVars
=============================================================================
