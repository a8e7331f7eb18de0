--------------------------- MODULE AccountsProofs ---------------------------
(***************************************************************************)
(* Proofs about module Accounts.                                           *)
(*                                                                         *)
(* VerifiedIsVouched is not inductive: what an Entra sign-in may link      *)
(* depends on rows whose address nobody but their person can have set.     *)
(* The inductive invariant is AccountInv.  Its heart is RowOK: an account  *)
(* without an Entra identity still has an address of its person, so that   *)
(* linking by a verified address finds the right person; one with an Entra *)
(* identity may have any address, but then not a verified one.             *)
(***************************************************************************)
EXTENDS Accounts, TLAPS

RowOK(n, row) ==
    /\ row.oid = None => OwnerOf[row.email] = row.person
    /\ row.oid # None => PersonOf[row.oid] = row.person /\ row.gid = None
    /\ row.gid # None => PersonOf[row.gid] = row.person
    /\ row.verified /\ row.email \notin Bootstrap => OwnerOf[row.email] = row.person
    /\ row.validation => n \in Slot /\ row.email = SlotEmail[n]
    /\ row.validation =>
          /\ row.role = "developer" /\ ~row.disabled
          /\ ~row.pass /\ row.oid = None /\ row.gid = None

RowsOK == \A n \in Users : RowOK(n, users[n])

\* The invitation of each username's account.
Origin == [n \in Name |-> IF users[n] = None THEN None ELSE users[n].via]

\* InvitationsSettle by origins; an account's invitation exists.
SettledInvite(i) ==
    /\ \A m, n \in Name : Origin[m] = i /\ Origin[n] = i => m = n
    /\ invites[i] = None => \A n \in Name : Origin[n] # i
    /\ invites[i] # None =>
          /\ invites[i].accepted <=> \E n \in Name : Origin[n] = i
          /\ ~(invites[i].accepted /\ invites[i].revoked)
          /\ invites[i].sender = "withdrawn" /\ ~invites[i].lapsed =>
                invites[i].revoked \/ invites[i].accepted

Settled == \A i \in Invitation : SettledInvite(i)

AccountInv == AccountTypeOK /\ RowsOK /\ Settled

AnyAccountStep == AccountStep \/ \E n \in Name : Disable(n)

-----------------------------------------------------------------------------
\* Rows

\* What the constants' assumptions say of the values used below.
LEMMA ConstantTypes ==
    /\ \A e \in Email : OwnerOf[e] \in Person
    /\ \A o \in Oid : PersonOf[o] \in Person
    /\ \A g \in Gid : PersonOf[g] \in Person
    /\ \A e \in Bootstrap : e \in Email /\ BootName[e] \in Name
    /\ \A s \in Slot : s \in Name /\ SlotEmail[s] \in Email
BY PeopleAssumption, DeploymentAssumption

\* The row of a username that has one.
LEMMA UserIsRow ==
    ASSUME AccountTypeOK, NEW n \in Users
    PROVE  n \in Name /\ users[n] \in Row /\ users[n] # None
BY DEF Users, AccountTypeOK

\* One row written leaves the table well typed.
LEMMA WrittenRow ==
    ASSUME AccountTypeOK, NEW n \in Name, NEW row \in Row,
           users' = [users EXCEPT ![n] = row]
    PROVE  users' \in [Name -> Row \cup {None}]
BY DEF AccountTypeOK

-----------------------------------------------------------------------------
\* Type correctness

\* Every operation of administrators and of a start keeps the types.
LEMMA AdministerTypes ==
    AccountTypeOK /\ (Administer \/ \E n \in Name : Disable(n)) => AccountTypeOK'
<1> SUFFICES ASSUME AccountTypeOK, Administer \/ \E n \in Name : Disable(n)
             PROVE  AccountTypeOK'
    OBVIOUS
<1> USE ConstantTypes
<1>1. UNCHANGED <<invites, entra>>
    BY DEF Administer, CreatePasswordUser, EnsureBootstrapAdmin, EnsureValidationUsers,
           Enable, Disable
<1>2. users' \in [Name -> Row \cup {None}]
    <2>1. ASSUME NEW n \in Name, NEW e \in Email, NEW role \in Role,
                 CreatePasswordUser(n, e, role)
          PROVE  users' \in [Name -> Row \cup {None}]
        <3> DEFINE row == [Account(e, TRUE, role, OwnerOf[e]) EXCEPT !.pass = TRUE]
        <3>1. row \in Row
            BY DEF Account, Row
        <3>2. users' = [users EXCEPT ![n] = row]
            BY <2>1 DEF CreatePasswordUser, InsertUser, Put
        <3> QED
            BY <3>1, <3>2, WrittenRow
    <2>2. ASSUME NEW e \in Bootstrap, EnsureBootstrapAdmin(e)
          PROVE  users' \in [Name -> Row \cup {None}]
        <3> DEFINE row == [Account(e, TRUE, "admin", OwnerOf[e]) EXCEPT !.pass = TRUE]
        <3>1. "admin" \in Role /\ row \in Row
            BY DEF Account, Row, Role
        <3>2. CASE InsertUser(BootName[e], row)
            BY <3>1, <3>2, WrittenRow DEF InsertUser, Put
        <3>3. CASE \E n \in Name :
                     /\ Promotable(n, e)
                     /\ users' = [users EXCEPT ![n].role = "admin", ![n].pass = TRUE,
                                               ![n].verified = TRUE]
            <4>1. PICK n \in Name :
                     /\ Promotable(n, e)
                     /\ users' = [users EXCEPT ![n].role = "admin", ![n].pass = TRUE,
                                               ![n].verified = TRUE]
                BY <3>3
            <4> DEFINE new == [users[n] EXCEPT !.role = "admin", !.pass = TRUE,
                                               !.verified = TRUE]
            <4>2. new \in Row
                BY <3>1, <4>1, UserIsRow DEF Promotable, Row
            <4>3. users' = [users EXCEPT ![n] = new]
                BY <4>1 DEF AccountTypeOK
            <4> QED
                BY <4>2, <4>3, WrittenRow
        <3> QED
            BY <2>2, <3>2, <3>3 DEF EnsureBootstrapAdmin
    <2>3. CASE EnsureValidationUsers
        <3>1. \A s \in Slot : Provisioned(s) \in Row
            <4> TAKE s \in Slot
            <4>1. "developer" \in Role
                BY DEF Role
            <4>2. CASE users[s] = None
                BY <4>1, <4>2 DEF Provisioned, Account, Row
            <4>3. CASE users[s] # None
                <5>1. users[s] \in Row
                    BY <4>3, UserIsRow DEF Users
                <5> QED
                    BY <4>1, <4>3, <5>1 DEF Provisioned, Row
            <4> QED
                BY <4>2, <4>3
        <3> QED
            BY <2>3, <3>1 DEF EnsureValidationUsers, AccountTypeOK
    <2>4. ASSUME NEW n \in Name, Enable(n) \/ Disable(n)
          PROVE  users' \in [Name -> Row \cup {None}]
        <3>1. PICK d \in BOOLEAN : users' = [users EXCEPT ![n].disabled = d] /\ n \in Users
            BY <2>4 DEF Enable, Disable
        <3> DEFINE new == [users[n] EXCEPT !.disabled = d]
        <3>2. new \in Row
            BY <3>1, UserIsRow DEF Row
        <3>3. users' = [users EXCEPT ![n] = new]
            BY <3>1 DEF AccountTypeOK
        <3> QED
            BY <3>2, <3>3, WrittenRow
    <2> QED
        BY <2>1, <2>2, <2>3, <2>4 DEF Administer
<1> QED
    BY <1>1, <1>2 DEF AccountTypeOK

\* Every operation on invitations keeps the types.
LEMMA InvitationTypes ==
    AccountTypeOK /\ Invitations => AccountTypeOK'
<1> SUFFICES ASSUME AccountTypeOK, NEW i \in Invitation,
                 \/ \E e \in Email, role \in Role : CreateInvitation(i, e, role)
                 \/ SendInvitation(i)
                 \/ WithdrawUnsent(i)
                 \/ SenderLeaves(i)
                 \/ \E n \in Name : AcceptInvitation(i, n)
                 \/ RevokeInvitation(i)
                 \/ ExpireInvitation(i)
             PROVE  AccountTypeOK'
    BY DEF Invitations
<1> USE ConstantTypes
<1>1. CASE \E e \in Email, role \in Role : CreateInvitation(i, e, role)
    BY <1>1 DEF CreateInvitation, AccountTypeOK, Invite
<1>2. CASE SendInvitation(i)
    BY <1>2 DEF SendInvitation, AccountTypeOK, Invite
<1>3. CASE WithdrawUnsent(i)
    <2>1. invites[i] \in Invite
        BY <1>3 DEF WithdrawUnsent, AccountTypeOK
    <2>2. PICK r \in BOOLEAN, l \in BOOLEAN :
             invites' = [invites EXCEPT ![i] = [invites[i] EXCEPT !.sender = "withdrawn",
                                                   !.revoked = r, !.lapsed = l]]
        <3>1. CASE invites' = [invites EXCEPT ![i].sender = "withdrawn",
                                              ![i].revoked = @ \/ Open(i)]
            <4> DEFINE r == invites[i].revoked \/ Open(i)
            <4>1. r \in BOOLEAN
                OBVIOUS
            <4>2. invites' = [invites EXCEPT ![i] = [invites[i] EXCEPT !.sender = "withdrawn",
                                   !.revoked = r, !.lapsed = invites[i].lapsed]]
                BY <2>1, <3>1 DEF Invite, AccountTypeOK
            <4>3. invites[i].lapsed \in BOOLEAN
                BY <2>1 DEF Invite
            <4> QED
                BY <4>1, <4>2, <4>3
        <3>2. CASE invites' = [invites EXCEPT ![i].sender = "withdrawn", ![i].lapsed = TRUE]
            <4>1. invites' = [invites EXCEPT ![i] = [invites[i] EXCEPT !.sender = "withdrawn",
                                   !.revoked = invites[i].revoked, !.lapsed = TRUE]]
                BY <2>1, <3>2 DEF Invite, AccountTypeOK
            <4>2. invites[i].revoked \in BOOLEAN
                BY <2>1 DEF Invite
            <4> QED
                BY <4>1, <4>2
        <3> QED
            BY <1>3, <3>1, <3>2 DEF WithdrawUnsent
    <2> QED
        BY <1>3, <2>1, <2>2 DEF WithdrawUnsent, AccountTypeOK, Invite
<1>4. CASE SenderLeaves(i)
    BY <1>4 DEF SenderLeaves, AccountTypeOK, Invite
<1>5. CASE RevokeInvitation(i)
    BY <1>5 DEF RevokeInvitation, Open, AccountTypeOK, Invite
<1>6. CASE ExpireInvitation(i)
    BY <1>6 DEF ExpireInvitation, AccountTypeOK, Invite
<1>7. ASSUME NEW n \in Name, AcceptInvitation(i, n)
      PROVE  AccountTypeOK'
    <2> DEFINE row == [Account(invites[i].email, TRUE, invites[i].role,
                               OwnerOf[invites[i].email]) EXCEPT !.pass = TRUE, !.via = i]
    <2>1. invites[i] \in Invite
        BY <1>7 DEF AcceptInvitation, Claimable, Open, AccountTypeOK
    <2>2. row \in Row
        BY <2>1 DEF Account, Invite, Row
    <2>3. users' \in [Name -> Row \cup {None}]
        BY <1>7, <2>2, WrittenRow DEF AcceptInvitation, InsertUser, Put
    <2>4. invites' \in [Invitation -> Invite \cup {None}]
        BY <1>7, <2>1 DEF AcceptInvitation, Invite, AccountTypeOK
    <2> QED
        BY <1>7, <2>3, <2>4 DEF AcceptInvitation, AccountTypeOK
<1> QED
    BY <1>1, <1>2, <1>3, <1>4, <1>5, <1>6, <1>7

\* A claim of an ID token has its parts.
LEMMA ClaimParts ==
    ASSUME NEW claim \in Claim
    PROVE  /\ claim.oid \in Oid /\ claim.oid # None
           /\ claim.email \in Email /\ claim.verified \in BOOLEAN
           /\ claim.verified => OwnerOf[claim.email] = PersonOf[claim.oid]
BY NoneAssumption DEF Claim

\* A callback that is under way holds a claim.
LEMMA PendingClaim ==
    ASSUME AccountTypeOK, NEW p \in Request, entra[p].step \in {"linking", "creating"}
    PROVE  entra[p] \in Pending /\ entra[p].claim \in Claim
BY DEF AccountTypeOK, Idle, Pending

\* The address of an account that a GitHub sign-in finds stays an address.
LEMMA GitHubTypes ==
    ASSUME AccountTypeOK, NEW g \in Gid, NEW role \in Role, FindOrCreateGitHubUser(g, role)
    PROVE  AccountTypeOK'
<1> USE ConstantTypes
<1>1. ASSUME NEW n \in Users, NEW e \in {users[n].email} \cup Reported(g),
             Put(n, [users[n] EXCEPT !.role = role, !.email = e, !.verified = TRUE])
      PROVE  users' \in [Name -> Row \cup {None}]
    <2> DEFINE new == [users[n] EXCEPT !.role = role, !.email = e, !.verified = TRUE]
    <2>1. new \in Row
        BY <1>1, UserIsRow DEF Row, Reported
    <2> QED
        BY <1>1, <2>1, UserIsRow, WrittenRow DEF Put
<1>2. ASSUME NEW n \in Name, NEW e \in Reported(g),
             InsertUser(n, [Account(e, TRUE, role, PersonOf[g]) EXCEPT !.gid = g])
      PROVE  users' \in [Name -> Row \cup {None}]
    <2> DEFINE new == [Account(e, TRUE, role, PersonOf[g]) EXCEPT !.gid = g]
    <2>1. new \in Row
        BY DEF Account, Row, Reported
    <2> QED
        BY <1>2, <2>1, WrittenRow DEF InsertUser, Put
<1> QED
    BY <1>1, <1>2 DEF FindOrCreateGitHubUser, AccountTypeOK

\* The statements of an Entra sign-in keep the types.
LEMMA EntraTypes ==
    ASSUME AccountTypeOK, NEW p \in Request,
           \/ \E claim \in Claim : FindEntraUser(p, claim)
           \/ LinkEntraUser(p)
           \/ \E n \in Name : CreateEntraUser(p, n)
           \/ EntraFails(p)
    PROVE  AccountTypeOK'
<1> USE ConstantTypes
<1>1. ASSUME NEW claim \in Claim, FindEntraUser(p, claim)
      PROVE  AccountTypeOK'
    <2>1. ASSUME NEW n \in Users,
                 Put(n, [users[n] EXCEPT !.email = claim.email,
                                         !.verified = Reverified(users[n], claim)])
          PROVE  users' \in [Name -> Row \cup {None}]
        <3> DEFINE new == [users[n] EXCEPT !.email = claim.email,
                                           !.verified = Reverified(users[n], claim)]
        <3>1. Reverified(users[n], claim) \in BOOLEAN
            BY ClaimParts, UserIsRow DEF Reverified, Row
        <3>2. new \in Row
            BY <3>1, ClaimParts, UserIsRow DEF Row
        <3> QED
            BY <2>1, <3>2, UserIsRow, WrittenRow DEF Put
    <2>2. [step |-> "linking", claim |-> claim] \in Pending
        BY DEF Pending
    <2> QED
        BY <1>1, <2>1, <2>2 DEF FindEntraUser, AccountTypeOK
<1>2. CASE LinkEntraUser(p)
    <2>1. entra[p] \in Pending /\ entra[p].claim \in Claim
        BY <1>2, PendingClaim DEF LinkEntraUser
    <2>2. ASSUME NEW n \in Name, Linkable(n, entra[p].claim),
                 Put(n, [users[n] EXCEPT !.oid = entra[p].claim.oid])
          PROVE  users' \in [Name -> Row \cup {None}]
        <3> DEFINE new == [users[n] EXCEPT !.oid = entra[p].claim.oid]
        <3>1. new \in Row
            BY <2>1, <2>2, ClaimParts, UserIsRow DEF Row, Linkable
        <3> QED
            BY <2>2, <3>1, WrittenRow DEF Put
    <2>3. [entra[p] EXCEPT !.step = "creating"] \in Pending
        BY <2>1 DEF Pending
    <2> QED
        BY <1>2, <2>2, <2>3 DEF LinkEntraUser, AccountTypeOK
<1>3. ASSUME NEW n \in Name, CreateEntraUser(p, n)
      PROVE  AccountTypeOK'
    <2>1. entra[p].claim \in Claim
        BY <1>3, PendingClaim DEF CreateEntraUser
    <2> DEFINE claim == entra[p].claim
               new == [Account(claim.email, claim.verified, "developer",
                               PersonOf[claim.oid]) EXCEPT !.oid = claim.oid]
    <2>2. new \in Row
        BY <2>1, ClaimParts DEF Account, Row, Role
    <2>3. users' \in [Name -> Row \cup {None}]
        BY <1>3, <2>2, WrittenRow DEF CreateEntraUser, InsertUser, Put
    <2> QED
        BY <1>3, <2>3 DEF CreateEntraUser, AccountTypeOK
<1>4. CASE EntraFails(p)
    BY <1>4 DEF EntraFails, AccountTypeOK
<1> QED
    BY <1>1, <1>2, <1>3, <1>4

\* Every step keeps the types.
LEMMA AccountTypes ==
    AccountTypeOK /\ [AnyAccountStep]_accountVars => AccountTypeOK'
<1>1. AccountTypeOK /\ Federated => AccountTypeOK'
    BY GitHubTypes, EntraTypes DEF Federated
<1>2. AccountTypeOK /\ UNCHANGED accountVars => AccountTypeOK'
    BY DEF AccountTypeOK, accountVars
<1> QED
    BY <1>1, <1>2, AdministerTypes, InvitationTypes DEF AnyAccountStep, AccountStep

-----------------------------------------------------------------------------
\* Rows stay in order, and accounts keep the invitation they came from

\* A row in order, written, leaves all rows in order; only its own origin can
\* change.
LEMMA WrittenInOrder ==
    ASSUME AccountTypeOK, RowsOK, NEW n \in Name, NEW row \in Row, RowOK(n, row),
           users' = [users EXCEPT ![n] = row]
    PROVE  RowsOK' /\ Origin' = [Origin EXCEPT ![n] = row.via]
<1>1. row # None
    BY NoneAssumption
<1>2. users' \in [Name -> Row \cup {None}] /\ users'[n] = row
    BY DEF AccountTypeOK
<1>3. \A m \in Name : m # n => users'[m] = users[m]
    BY DEF AccountTypeOK
<1>4. RowsOK'
    <2> SUFFICES ASSUME NEW m \in Name, users'[m] # None
                 PROVE  RowOK(m, users'[m])
        BY DEF RowsOK, Users, RowOK
    <2>1. CASE m = n
        BY <1>2, <2>1
    <2>2. CASE m # n
        BY <1>3, <2>2 DEF RowsOK, Users
    <2> QED
        BY <2>1, <2>2
<1>5. Origin' = [Origin EXCEPT ![n] = row.via]
    BY <1>1, <1>2, <1>3 DEF Origin
<1> QED
    BY <1>4, <1>5

\* A row written over itself, or over none with no invitation.
LEMMA SameOrigin ==
    ASSUME AccountTypeOK, RowsOK, NEW n \in Name, NEW row \in Row, RowOK(n, row),
           users' = [users EXCEPT ![n] = row],
           row.via = Origin[n]
    PROVE  RowsOK' /\ Origin' = Origin
<1>1. RowsOK' /\ Origin' = [Origin EXCEPT ![n] = Origin[n]]
    BY WrittenInOrder
<1>2. [Origin EXCEPT ![n] = Origin[n]] = Origin
    BY DEF Origin
<1> QED
    BY <1>1, <1>2

\* The row of an account is in order and has the account's origin.
LEMMA UserInOrder ==
    ASSUME AccountTypeOK, RowsOK, NEW n \in Users
    PROVE  RowOK(n, users[n]) /\ users[n].via = Origin[n]
BY DEF RowsOK, Origin, Users

\* A username without an account has no origin.
LEMMA NobodyOrigin ==
    ASSUME NEW n \in Name, users[n] = None
    PROVE  Origin[n] = None
BY DEF Origin

\* Operations of administrators and of a start.
LEMMA AdministerRows ==
    AccountTypeOK /\ RowsOK /\ (Administer \/ \E n \in Name : Disable(n))
        => RowsOK' /\ Origin' = Origin
<1> SUFFICES ASSUME AccountTypeOK, RowsOK, Administer \/ \E n \in Name : Disable(n)
             PROVE  RowsOK' /\ Origin' = Origin
    OBVIOUS
<1> USE ConstantTypes
<1>1. ASSUME NEW n \in Name, NEW e \in Email, NEW role \in Role,
             CreatePasswordUser(n, e, role)
      PROVE  RowsOK' /\ Origin' = Origin
    <2> DEFINE row == [Account(e, TRUE, role, OwnerOf[e]) EXCEPT !.pass = TRUE]
    <2>1. row \in Row /\ row.via = None /\ RowOK(n, row)
        BY DEF Account, Row, RowOK
    <2>2. users[n] = None /\ users' = [users EXCEPT ![n] = row]
        BY <1>1 DEF CreatePasswordUser, InsertUser, Put
    <2> QED
        BY <2>1, <2>2, NobodyOrigin, SameOrigin
<1>2. ASSUME NEW e \in Bootstrap, EnsureBootstrapAdmin(e)
      PROVE  RowsOK' /\ Origin' = Origin
    <2> DEFINE row == [Account(e, TRUE, "admin", OwnerOf[e]) EXCEPT !.pass = TRUE]
    <2>1. row \in Row /\ row.via = None /\ RowOK(BootName[e], row)
        BY DEF Account, Row, RowOK, Role
    <2>2. CASE InsertUser(BootName[e], row)
        <3>1. users[BootName[e]] = None /\ users' = [users EXCEPT ![BootName[e]] = row]
            BY <2>2 DEF InsertUser, Put
        <3> QED
            BY <2>1, <3>1, NobodyOrigin, SameOrigin
    <2>3. ASSUME NEW n \in Name, Promotable(n, e),
                 users' = [users EXCEPT ![n].role = "admin", ![n].pass = TRUE,
                                        ![n].verified = TRUE]
          PROVE  RowsOK' /\ Origin' = Origin
        <3> DEFINE new == [users[n] EXCEPT !.role = "admin", !.pass = TRUE,
                                           !.verified = TRUE]
        <3>1. n \in Users /\ users[n] \in Row
            BY <2>3, UserIsRow DEF Promotable
        <3>2. new \in Row /\ new.via = users[n].via
            BY <3>1 DEF Row, Role
        <3>3. RowOK(n, new)
            BY <2>3, <3>1, UserInOrder DEF RowOK, Row, Promotable
        <3>4. users' = [users EXCEPT ![n] = new]
            BY <2>3 DEF AccountTypeOK
        <3> QED
            BY <3>1, <3>2, <3>3, <3>4, UserInOrder, SameOrigin
    <2> QED
        BY <1>2, <2>2, <2>3 DEF EnsureBootstrapAdmin
<1>3. CASE EnsureValidationUsers
    <2>1. ASSUME NEW s \in Slot
          PROVE  /\ Provisioned(s) \in Row /\ RowOK(s, Provisioned(s))
                 /\ Provisioned(s).via = Origin[s]
        <3>1. CASE users[s] = None
            <4>1. Provisioned(s) =
                      [Account(SlotEmail[s], TRUE, "developer", OwnerOf[SlotEmail[s]])
                          EXCEPT !.validation = TRUE]
                BY <3>1 DEF Provisioned
            <4>2. Provisioned(s) \in Row /\ Provisioned(s).via = None
                BY <4>1 DEF Account, Row, Role
            <4>3. RowOK(s, Provisioned(s))
                BY <4>1 DEF Account, RowOK
            <4> QED
                BY <3>1, <4>2, <4>3, NobodyOrigin
        <3>2. CASE users[s] # None
            <4>1. s \in Users /\ users[s].validation /\ users[s] \in Row
                BY <1>3, <3>2, UserIsRow DEF EnsureValidationUsers, Users
            <4>2. Provisioned(s) =
                      [users[s] EXCEPT !.email = SlotEmail[s], !.verified = TRUE,
                          !.pass = FALSE, !.oid = None, !.gid = None,
                          !.role = "developer", !.disabled = FALSE]
                BY <3>2 DEF Provisioned
            <4>3. Provisioned(s) \in Row /\ Provisioned(s).via = users[s].via
                BY <4>1, <4>2 DEF Row, Role
            <4>4. OwnerOf[SlotEmail[s]] = users[s].person
                BY <4>1, UserInOrder DEF RowOK
            <4>5. RowOK(s, Provisioned(s))
                BY <4>1, <4>2, <4>4 DEF RowOK, Row
            <4> QED
                BY <4>1, <4>3, <4>5, UserInOrder
        <3> QED
            BY <3>1, <3>2
    <2>2. \A n \in Name : users'[n] = IF n \in Slot THEN Provisioned(n) ELSE users[n]
        BY <1>3 DEF EnsureValidationUsers
    <2>3. RowsOK'
        <3> SUFFICES ASSUME NEW n \in Name, users'[n] # None
                     PROVE  RowOK(n, users'[n])
            BY DEF RowsOK, Users, RowOK
        <3>1. CASE n \in Slot
            BY <2>1, <2>2, <3>1
        <3>2. CASE n \notin Slot
            BY <2>2, <3>2 DEF RowsOK, Users
        <3> QED
            BY <3>1, <3>2
    <2>4. ASSUME NEW n \in Name
          PROVE  (IF users'[n] = None THEN None ELSE users'[n].via) = Origin[n]
        <3>1. CASE n \in Slot
            BY <2>1, <2>2, <3>1, NoneAssumption
        <3>2. CASE n \notin Slot
            BY <2>2, <3>2 DEF Origin
        <3> QED
            BY <3>1, <3>2
    <2>5. Origin' = Origin
        BY <2>4 DEF Origin
    <2> QED
        BY <2>3, <2>5
<1>4. ASSUME NEW n \in Name, Enable(n) \/ Disable(n)
      PROVE  RowsOK' /\ Origin' = Origin
    <2>1. PICK d \in BOOLEAN : /\ users' = [users EXCEPT ![n].disabled = d] /\ n \in Users
                               /\ d => ~users[n].validation
        BY <1>4 DEF Enable, Disable
    <2> DEFINE new == [users[n] EXCEPT !.disabled = d]
    <2>2. users[n] \in Row
        BY <2>1, UserIsRow
    <2>3. new \in Row /\ new.via = users[n].via
        BY <2>2 DEF Row
    <2>4. RowOK(n, new)
        BY <2>1, <2>2, UserInOrder DEF RowOK, Row
    <2>5. users' = [users EXCEPT ![n] = new]
        BY <2>1 DEF AccountTypeOK
    <2> QED
        BY <2>1, <2>3, <2>4, <2>5, UserInOrder, SameOrigin
<1> QED
    BY <1>1, <1>2, <1>3, <1>4 DEF Administer

\* GitHub sign-ins.
LEMMA GitHubRows ==
    ASSUME AccountTypeOK, RowsOK,
           NEW g \in Gid, NEW role \in Role, FindOrCreateGitHubUser(g, role)
    PROVE  RowsOK' /\ Origin' = Origin
<1> USE ConstantTypes
<1>0. g # None
    BY NoneAssumption
<1>1. ASSUME NEW n \in Users, users[n].gid = g,
             NEW e \in {users[n].email} \cup Reported(g),
             Put(n, [users[n] EXCEPT !.role = role, !.email = e, !.verified = TRUE])
      PROVE  RowsOK' /\ Origin' = Origin
    <2> DEFINE new == [users[n] EXCEPT !.role = role, !.email = e, !.verified = TRUE]
    <2>1. n \in Name /\ users[n] \in Row
        BY UserIsRow
    <2>2. new \in Row /\ new.via = users[n].via
        BY <2>1 DEF Row, Reported
    <2>3. RowOK(n, users[n])
        BY UserInOrder
    <2>4. OwnerOf[e] = users[n].person
        BY <1>0, <1>1, <2>3 DEF RowOK, Reported
    <2>5. RowOK(n, new)
        BY <1>0, <1>1, <2>1, <2>3, <2>4 DEF RowOK, Row
    <2> QED
        BY <1>1, <2>1, <2>2, <2>5, UserInOrder, SameOrigin DEF Put
<1>2. ASSUME NEW n \in Name, NEW e \in Reported(g),
             InsertUser(n, [Account(e, TRUE, role, PersonOf[g]) EXCEPT !.gid = g])
      PROVE  RowsOK' /\ Origin' = Origin
    <2> DEFINE new == [Account(e, TRUE, role, PersonOf[g]) EXCEPT !.gid = g]
    <2>1. new \in Row /\ new.via = None /\ RowOK(n, new)
        BY DEF Account, Row, Reported, RowOK
    <2>2. users[n] = None /\ users' = [users EXCEPT ![n] = new]
        BY <1>2 DEF InsertUser, Put
    <2> QED
        BY <2>1, <2>2, NobodyOrigin, SameOrigin
<1> QED
    BY <1>1, <1>2 DEF FindOrCreateGitHubUser

\* Entra sign-ins, whatever happened between their statements.
LEMMA EntraRows ==
    ASSUME AccountTypeOK, RowsOK, NEW p \in Request,
           \/ \E claim \in Claim : FindEntraUser(p, claim)
           \/ LinkEntraUser(p)
           \/ \E n \in Name : CreateEntraUser(p, n)
           \/ EntraFails(p)
    PROVE  RowsOK' /\ Origin' = Origin
<1> USE ConstantTypes
<1>0. UNCHANGED users => RowsOK' /\ Origin' = Origin
    BY DEF RowsOK, Users, Origin, RowOK
<1>1. ASSUME NEW claim \in Claim, FindEntraUser(p, claim)
      PROVE  RowsOK' /\ Origin' = Origin
    <2>1. ASSUME NEW n \in Users, users[n].oid = claim.oid,
                 Put(n, [users[n] EXCEPT !.email = claim.email,
                                         !.verified = Reverified(users[n], claim)])
          PROVE  RowsOK' /\ Origin' = Origin
        <3> DEFINE v == Reverified(users[n], claim)
                   new == [users[n] EXCEPT !.email = claim.email, !.verified = v]
        <3>1. n \in Name /\ users[n] \in Row /\ RowOK(n, users[n])
            BY UserIsRow, UserInOrder
        <3>2. v \in BOOLEAN
            BY <3>1, ClaimParts DEF Reverified, Row
        <3>3. new \in Row /\ new.via = users[n].via
            BY <3>1, <3>2, ClaimParts DEF Row
        <3>4. /\ users[n].oid # None
              /\ PersonOf[claim.oid] = users[n].person
              /\ claim.verified => OwnerOf[claim.email] = users[n].person
            BY <2>1, <3>1, ClaimParts DEF RowOK
        <3>5. v /\ claim.email \notin Bootstrap => OwnerOf[claim.email] = users[n].person
            BY <3>1, <3>4 DEF Reverified, RowOK
        <3>6. ~users[n].validation
            BY <3>1, <3>4 DEF RowOK
        <3>7. /\ new.oid = users[n].oid /\ new.email = claim.email /\ new.verified = v
              /\ new.person = users[n].person /\ new.gid = users[n].gid
              /\ new.validation = users[n].validation
            BY <3>1 DEF Row
        <3> HIDE DEF v, new
        <3>8. RowOK(n, new)
            BY <3>1, <3>4, <3>5, <3>6, <3>7 DEF RowOK
        <3>9. users' = [users EXCEPT ![n] = new]
            BY <2>1 DEF Put, v, new
        <3> QED
            BY <3>1, <3>3, <3>8, <3>9, UserInOrder, SameOrigin
    <2> QED
        BY <1>0, <1>1, <2>1 DEF FindEntraUser
<1>2. CASE LinkEntraUser(p)
    <2>1. entra[p].claim \in Claim
        BY <1>2, PendingClaim DEF LinkEntraUser
    <2>2. ASSUME NEW n \in Name, Linkable(n, entra[p].claim),
                 Put(n, [users[n] EXCEPT !.oid = entra[p].claim.oid])
          PROVE  RowsOK' /\ Origin' = Origin
        <3> DEFINE new == [users[n] EXCEPT !.oid = entra[p].claim.oid]
        <3>1. n \in Users /\ users[n] \in Row /\ RowOK(n, users[n])
            BY <2>2, UserIsRow, UserInOrder DEF Linkable
        <3>2. new \in Row /\ new.via = users[n].via
            BY <2>1, <3>1, ClaimParts DEF Row
        <3>3. PersonOf[entra[p].claim.oid] = users[n].person
            BY <2>1, <2>2, <3>1, ClaimParts DEF Linkable, RowOK
        <3>4. RowOK(n, new)
            BY <2>1, <2>2, <3>1, <3>3, ClaimParts DEF RowOK, Row, Linkable
        <3> QED
            BY <2>2, <3>1, <3>2, <3>4, UserInOrder, SameOrigin DEF Put
    <2> QED
        BY <1>0, <1>2, <2>2 DEF LinkEntraUser
<1>3. ASSUME NEW n \in Name, CreateEntraUser(p, n)
      PROVE  RowsOK' /\ Origin' = Origin
    <2>1. entra[p].claim \in Claim
        BY <1>3, PendingClaim DEF CreateEntraUser
    <2> DEFINE claim == entra[p].claim
               new == [Account(claim.email, claim.verified, "developer",
                               PersonOf[claim.oid]) EXCEPT !.oid = claim.oid]
    <2>2. new \in Row /\ new.via = None
        BY <2>1, ClaimParts DEF Account, Row, Role
    <2>3. RowOK(n, new)
        BY <2>1, ClaimParts DEF Account, RowOK
    <2>4. users[n] = None /\ users' = [users EXCEPT ![n] = new]
        BY <1>3 DEF CreateEntraUser, InsertUser, Put
    <2> QED
        BY <2>2, <2>3, <2>4, NobodyOrigin, SameOrigin
<1>4. CASE EntraFails(p)
    BY <1>0, <1>4 DEF EntraFails
<1> QED
    BY <1>1, <1>2, <1>3, <1>4

\* The account an invitation makes is in order and the only one whose origin
\* the step changes.
LEMMA AcceptRows ==
    ASSUME AccountTypeOK, RowsOK, NEW i \in Invitation, NEW n \in Name,
           AcceptInvitation(i, n)
    PROVE  RowsOK' /\ Origin[n] = None /\ Origin' = [Origin EXCEPT ![n] = i]
<1> USE ConstantTypes
<1> DEFINE new == [Account(invites[i].email, TRUE, invites[i].role,
                           OwnerOf[invites[i].email]) EXCEPT !.pass = TRUE, !.via = i]
<1>1. invites[i] \in Invite
    BY DEF AcceptInvitation, Claimable, Open, AccountTypeOK
<1>2. new \in Row /\ new.via = i
    BY <1>1 DEF Account, Invite, Row
<1>3. RowOK(n, new)
    BY <1>1 DEF Account, Invite, RowOK
<1>4. users[n] = None /\ users' = [users EXCEPT ![n] = new]
    BY DEF AcceptInvitation, InsertUser, Put
<1> QED
    BY <1>2, <1>3, <1>4, NobodyOrigin, WrittenInOrder

-----------------------------------------------------------------------------
\* Invitations

\* Only the invitations and the origins matter.
LEMMA SettledUnchanged ==
    ASSUME Settled, Origin' = Origin, UNCHANGED invites
    PROVE  Settled'
BY DEF Settled, SettledInvite

\* A change of one invitation concerns only that one.
LEMMA OneInvite ==
    ASSUME AccountTypeOK, Settled, NEW i \in Invitation, NEW row,
           Origin' = Origin, invites' = [invites EXCEPT ![i] = row], SettledInvite(i)'
    PROVE  Settled'
<1> SUFFICES ASSUME NEW j \in Invitation, j # i
             PROVE  SettledInvite(j)'
    BY DEF Settled
<1>1. invites'[j] = invites[j]
    BY DEF AccountTypeOK
<1> QED
    BY <1>1 DEF Settled, SettledInvite

\* Every operation on invitations keeps them settled.
LEMMA InvitationSettles ==
    AccountInv /\ Invitations => RowsOK' /\ Settled'
<1> SUFFICES ASSUME AccountInv, NEW i \in Invitation,
                 \/ \E e \in Email, role \in Role : CreateInvitation(i, e, role)
                 \/ SendInvitation(i)
                 \/ WithdrawUnsent(i)
                 \/ SenderLeaves(i)
                 \/ \E n \in Name : AcceptInvitation(i, n)
                 \/ RevokeInvitation(i)
                 \/ ExpireInvitation(i)
             PROVE  RowsOK' /\ Settled'
    BY DEF Invitations
<1>0. AccountTypeOK /\ RowsOK /\ Settled /\ SettledInvite(i)
    BY DEF AccountInv, Settled
<1>a. UNCHANGED users => RowsOK' /\ Origin' = Origin
    BY <1>0 DEF RowsOK, Users, Origin, RowOK
<1>b. invites[i] # None => invites[i] \in Invite
    BY <1>0 DEF AccountTypeOK
<1>1. ASSUME NEW e \in Email, NEW role \in Role, CreateInvitation(i, e, role)
      PROVE  RowsOK' /\ Settled'
    <2> DEFINE row == [email |-> e, role |-> role, accepted |-> FALSE, revoked |-> FALSE,
                       expired |-> FALSE, delivered |-> FALSE, lapsed |-> FALSE,
                       sender |-> "sending"]
    <2>1. /\ Origin' = Origin /\ RowsOK' /\ invites' = [invites EXCEPT ![i] = row]
          /\ invites[i] = None
        BY <1>1, <1>a DEF CreateInvitation
    <2>2. invites'[i] = row /\ row \in Invite
        BY <1>0, <2>1 DEF AccountTypeOK, Invite
    <2>3. SettledInvite(i)'
        BY <1>0, <2>1, <2>2 DEF SettledInvite
    <2> QED
        BY <1>0, <2>1, <2>3, OneInvite
<1>2. CASE SendInvitation(i)
    <2>1. PICK snd \in {"sent", "withdrawing"}, arrives \in BOOLEAN :
             invites' = [invites EXCEPT ![i].sender = snd, ![i].delivered = arrives]
        BY <1>2 DEF SendInvitation
    <2> DEFINE row == [invites[i] EXCEPT !.sender = snd, !.delivered = arrives]
    <2>2. Origin' = Origin /\ RowsOK' /\ invites[i] \in Invite
        BY <1>2, <1>a, <1>b DEF SendInvitation
    <2>3. invites' = [invites EXCEPT ![i] = row]
        BY <1>0, <2>1 DEF AccountTypeOK
    <2>4. /\ invites'[i] # None /\ invites'[i].accepted = invites[i].accepted
          /\ invites'[i].revoked = invites[i].revoked /\ invites'[i].sender = snd
        <3>1. row \in Invite /\ invites'[i] = row
            BY <1>0, <2>2, <2>3 DEF Invite, AccountTypeOK
        <3> QED
            BY <2>2, <3>1, NoneAssumption DEF Invite
    <2>5. SettledInvite(i)'
        BY <1>0, <1>2, <2>2, <2>4 DEF SettledInvite, SendInvitation
    <2> QED
        BY <1>0, <2>2, <2>3, <2>5, OneInvite
<1>3. CASE WithdrawUnsent(i)
    <2>1. Origin' = Origin /\ RowsOK' /\ invites[i] \in Invite /\ invites[i] # None
        BY <1>3, <1>a, <1>b DEF WithdrawUnsent
    <2>2. CASE invites' = [invites EXCEPT ![i].sender = "withdrawn",
                                          ![i].revoked = @ \/ Open(i)]
        <3> DEFINE r == invites[i].revoked \/ Open(i)
                   row == [invites[i] EXCEPT !.sender = "withdrawn", !.revoked = r]
        <3>1. r \in BOOLEAN
            OBVIOUS
        <3>2. invites' = [invites EXCEPT ![i] = row]
            BY <1>0, <2>2 DEF AccountTypeOK
        <3>3. row \in Invite /\ invites'[i] = row
            BY <1>0, <2>1, <3>1, <3>2 DEF Invite, AccountTypeOK
        <3>4. /\ invites'[i] # None /\ invites'[i].accepted = invites[i].accepted
              /\ invites'[i].revoked = r
            BY <2>1, <3>3, NoneAssumption DEF Invite
        <3>5. r \/ invites[i].accepted
            BY <2>1 DEF Open
        <3>6. ~(invites[i].accepted /\ r)
            BY <1>0, <2>1 DEF Open, SettledInvite
        <3> HIDE DEF r, row
        <3>7. SettledInvite(i)'
            BY <1>0, <2>1, <3>4, <3>5, <3>6 DEF SettledInvite
        <3> QED
            BY <1>0, <2>1, <3>2, <3>7, OneInvite
    <2>3. CASE invites' = [invites EXCEPT ![i].sender = "withdrawn", ![i].lapsed = TRUE]
        <3> DEFINE row == [invites[i] EXCEPT !.sender = "withdrawn", !.lapsed = TRUE]
        <3>1. invites' = [invites EXCEPT ![i] = row]
            BY <1>0, <2>3 DEF AccountTypeOK
        <3>2. row \in Invite /\ invites'[i] = row
            BY <1>0, <2>1, <3>1 DEF Invite, AccountTypeOK
        <3>3. /\ invites'[i] # None /\ invites'[i].accepted = invites[i].accepted
              /\ invites'[i].revoked = invites[i].revoked /\ invites'[i].lapsed
            BY <2>1, <3>2, NoneAssumption DEF Invite
        <3>4. SettledInvite(i)'
            BY <1>0, <2>1, <3>3 DEF SettledInvite
        <3> QED
            BY <1>0, <2>1, <3>1, <3>4, OneInvite
    <2> QED
        BY <1>3, <2>2, <2>3 DEF WithdrawUnsent
<1>4. CASE SenderLeaves(i)
    <2> DEFINE row == [invites[i] EXCEPT !.sender = "gone"]
    <2>1. Origin' = Origin /\ RowsOK' /\ invites[i] \in Invite /\ invites[i] # None
        BY <1>4, <1>a, <1>b DEF SenderLeaves
    <2>2. invites' = [invites EXCEPT ![i] = row]
        BY <1>0, <1>4 DEF AccountTypeOK, SenderLeaves
    <2>3. row \in Invite /\ invites'[i] = row
        BY <1>0, <2>1, <2>2 DEF Invite, AccountTypeOK
    <2>4. /\ invites'[i] # None /\ invites'[i].accepted = invites[i].accepted
          /\ invites'[i].revoked = invites[i].revoked /\ invites'[i].sender = "gone"
        BY <2>1, <2>3, NoneAssumption DEF Invite
    <2>5. SettledInvite(i)'
        BY <1>0, <2>1, <2>4 DEF SettledInvite
    <2> QED
        BY <1>0, <2>1, <2>2, <2>5, OneInvite
<1>5. CASE RevokeInvitation(i)
    <2> DEFINE row == [invites[i] EXCEPT !.revoked = TRUE]
    <2>1. /\ Origin' = Origin /\ RowsOK' /\ invites[i] \in Invite /\ invites[i] # None
          /\ ~invites[i].accepted
        BY <1>5, <1>a, <1>b DEF RevokeInvitation, Open
    <2>2. invites' = [invites EXCEPT ![i] = row]
        BY <1>0, <1>5 DEF AccountTypeOK, RevokeInvitation
    <2>3. row \in Invite /\ invites'[i] = row
        BY <1>0, <2>1, <2>2 DEF Invite, AccountTypeOK
    <2>4. /\ invites'[i] # None /\ invites'[i].accepted = invites[i].accepted
          /\ invites'[i].revoked
        BY <2>1, <2>3, NoneAssumption DEF Invite
    <2>5. SettledInvite(i)'
        BY <1>0, <2>1, <2>4 DEF SettledInvite
    <2> QED
        BY <1>0, <2>1, <2>2, <2>5, OneInvite
<1>6. CASE ExpireInvitation(i)
    <2> DEFINE row == [invites[i] EXCEPT !.expired = TRUE]
    <2>1. Origin' = Origin /\ RowsOK' /\ invites[i] \in Invite /\ invites[i] # None
        BY <1>6, <1>a, <1>b DEF ExpireInvitation
    <2>2. invites' = [invites EXCEPT ![i] = row]
        BY <1>0, <1>6 DEF AccountTypeOK, ExpireInvitation
    <2>3. row \in Invite /\ invites'[i] = row
        BY <1>0, <2>1, <2>2 DEF Invite, AccountTypeOK
    <2>4. /\ invites'[i] # None /\ invites'[i].accepted = invites[i].accepted
          /\ invites'[i].revoked = invites[i].revoked
          /\ invites'[i].sender = invites[i].sender
          /\ invites'[i].lapsed = invites[i].lapsed
        BY <2>1, <2>3, NoneAssumption DEF Invite
    <2>5. SettledInvite(i)'
        BY <1>0, <2>1, <2>4 DEF SettledInvite
    <2> QED
        BY <1>0, <2>1, <2>2, <2>5, OneInvite
<1>7. ASSUME NEW n \in Name, AcceptInvitation(i, n)
      PROVE  RowsOK' /\ Settled'
    <2> DEFINE row == [invites[i] EXCEPT !.accepted = TRUE]
    <2>1. RowsOK' /\ Origin[n] = None /\ Origin' = [Origin EXCEPT ![n] = i]
        BY <1>0, <1>7, AcceptRows
    <2>2. /\ invites[i] \in Invite /\ invites[i] # None
          /\ ~invites[i].accepted /\ ~invites[i].revoked
        BY <1>7, <1>b DEF AcceptInvitation, Claimable, Open
    <2>3. row \in Invite /\ invites'[i] = row
        BY <1>0, <1>7, <2>2 DEF Invite, AccountTypeOK, AcceptInvitation
    <2>4. /\ invites'[i] # None /\ invites'[i].accepted
          /\ invites'[i].revoked = invites[i].revoked
        BY <2>2, <2>3, NoneAssumption DEF Invite
    <2>5. Origin'[n] = i /\ \A m \in Name : m # n => Origin'[m] = Origin[m]
        BY <2>1 DEF Origin
    <2>6. \A m \in Name : Origin[m] # i
        BY <1>0, <2>2 DEF SettledInvite
    <2>7. SettledInvite(i)'
        BY <2>2, <2>4, <2>5, <2>6 DEF SettledInvite
    <2>8. ASSUME NEW j \in Invitation, j # i
          PROVE  SettledInvite(j)'
        <3>1. invites'[j] = invites[j] /\ SettledInvite(j)
            BY <1>0, <1>7, <2>8 DEF AccountTypeOK, AcceptInvitation, Settled
        <3>2. \A m \in Name : Origin'[m] = j <=> Origin[m] = j
            BY <2>1, <2>5, <2>8, NoneAssumption
        <3> QED
            BY <3>1, <3>2 DEF SettledInvite
    <2> QED
        BY <2>1, <2>7, <2>8 DEF Settled
<1> QED
    BY <1>1, <1>2, <1>3, <1>4, <1>5, <1>6, <1>7

-----------------------------------------------------------------------------
\* The inductive invariant and what it implies

\* No accounts, no invitations.
LEMMA AccountInvHoldsFirst == AccountInit => AccountInv
<1> SUFFICES ASSUME AccountInit
             PROVE  AccountInv
    OBVIOUS
<1>1. AccountTypeOK
    BY DEF AccountInit, AccountTypeOK
<1>2. RowsOK
    BY DEF AccountInit, RowsOK, Users
<1>3. Settled
    BY NoneAssumption DEF AccountInit, Settled, SettledInvite, Origin
<1> QED
    BY <1>1, <1>2, <1>3 DEF AccountInv

\* Every step keeps the inductive invariant.
LEMMA AccountInvIsKept ==
    AccountInv /\ [AnyAccountStep]_accountVars => AccountInv'
<1> SUFFICES ASSUME AccountInv, [AnyAccountStep]_accountVars
             PROVE  AccountInv'
    OBVIOUS
<1>0. AccountTypeOK /\ RowsOK /\ Settled
    BY DEF AccountInv
<1>1. AccountTypeOK'
    BY <1>0, AccountTypes
<1>2. CASE Administer \/ \E n \in Name : Disable(n)
    <2>1. UNCHANGED invites
        BY <1>2 DEF Administer, CreatePasswordUser, EnsureBootstrapAdmin,
               EnsureValidationUsers, Enable, Disable
    <2> QED
        BY <1>0, <1>1, <1>2, <2>1, AdministerRows, SettledUnchanged DEF AccountInv
<1>3. CASE Invitations
    BY <1>1, <1>3, InvitationSettles DEF AccountInv
<1>4. CASE Federated
    <2>1. UNCHANGED invites
        BY <1>4 DEF Federated, FindOrCreateGitHubUser, FindEntraUser, LinkEntraUser,
               CreateEntraUser, EntraFails
    <2>2. RowsOK' /\ Origin' = Origin
        BY <1>0, <1>4, GitHubRows, EntraRows DEF Federated
    <2> QED
        BY <1>0, <1>1, <2>1, <2>2, SettledUnchanged DEF AccountInv
<1>5. CASE UNCHANGED accountVars
    <2>1. RowsOK' /\ Origin' = Origin /\ UNCHANGED invites
        BY <1>0, <1>5 DEF accountVars, RowsOK, Users, Origin, RowOK
    <2> QED
        BY <1>0, <1>1, <2>1, SettledUnchanged DEF AccountInv
<1> QED
    BY <1>2, <1>3, <1>4, <1>5 DEF AnyAccountStep, AccountStep

\* The inductive invariant implies the properties.
LEMMA AccountInvSuffices ==
    AccountInv => /\ AccountTypeOK /\ LinkedToItsOwner /\ VerifiedIsVouched
                  /\ ValidationApart /\ InvitationsSettle
<1> SUFFICES ASSUME AccountInv
             PROVE  /\ AccountTypeOK /\ LinkedToItsOwner /\ VerifiedIsVouched
                    /\ ValidationApart /\ InvitationsSettle
    OBVIOUS
<1>1. AccountTypeOK /\ RowsOK /\ Settled
    BY DEF AccountInv
<1>2. LinkedToItsOwner /\ VerifiedIsVouched /\ ValidationApart
    BY <1>1 DEF RowsOK, RowOK, LinkedToItsOwner, VerifiedIsVouched, ValidationApart
<1>3. \A n \in Name, i \in Invitation :
         Origin[n] = i <=> n \in Users /\ users[n].via = i
    BY NoneAssumption DEF Origin, Users
<1>4. InvitationsSettle
    <2> SUFFICES ASSUME NEW i \in Invitation
                 PROVE  /\ \A m, n \in Users :
                              users[m].via = i /\ users[n].via = i => m = n
                        /\ invites[i] # None =>
                              /\ invites[i].accepted <=> \E n \in Users : users[n].via = i
                              /\ ~(invites[i].accepted /\ invites[i].revoked)
                              /\ invites[i].sender = "withdrawn" /\ ~invites[i].lapsed =>
                                    invites[i].revoked \/ invites[i].accepted
        BY DEF InvitationsSettle
    <2>1. SettledInvite(i)
        BY <1>1 DEF Settled
    <2>2. \A n \in Users : n \in Name
        BY DEF Users
    <2> QED
        BY <1>3, <2>1, <2>2 DEF SettledInvite
<1> QED
    BY <1>1, <1>2, <1>4

\* The inductive invariant holds in every reachable state.
LEMMA AccountInvariance == AccountSpec => []AccountInv
<1>1. AccountInit => AccountInv
    BY AccountInvHoldsFirst
<1>2. AccountInv /\ [AccountStep \/ \E n \in Name : Disable(n)]_accountVars => AccountInv'
    BY AccountInvIsKept DEF AnyAccountStep
<1> QED
    BY <1>1, <1>2, PTL DEF AccountSpec

\* Accounts, invitations and callbacks keep their types.
THEOREM AccountsAreTyped == AccountSpec => []AccountTypeOK
BY AccountInvariance, AccountInvSuffices, PTL

\* An Entra identity signs in to nobody else's account, whatever overtakes the
\* three statements of its sign-in.
THEOREM EntraIdentitiesAreSafe == AccountSpec => []LinkedToItsOwner
BY AccountInvariance, AccountInvSuffices, PTL

\* A verified address is its account's person's or one the deployment attests.
THEOREM VerifiedAddressesAreVouched == AccountSpec => []VerifiedIsVouched
BY AccountInvariance, AccountInvSuffices, PTL

\* Validation identities get no credential, role or disabled state.
THEOREM ValidationIdentitiesStayApart == AccountSpec => []ValidationApart
BY AccountInvariance, AccountInvSuffices, PTL

\* An invitation makes one account or none, and withdrawn ones make none.
THEOREM InvitationsAreSettled == AccountSpec => []InvitationsSettle
BY AccountInvariance, AccountInvSuffices, PTL

-----------------------------------------------------------------------------
\* Accounts stay, and stay with the upstream identities they have

\* A row that takes the place of another has its upstream identities.
Inherits(old, new) ==
    /\ old.oid # None => new.oid = old.oid
    /\ old.gid # None => new.gid = old.gid

\* What IdentitiesStay asks of a step.
AllStay == \A n \in Users :
    /\ n \in Users'
    /\ users[n].oid # None => users'[n].oid = users[n].oid
    /\ users[n].gid # None => users'[n].gid = users[n].gid

\* A row written in the place of none, or of one whose identities it inherits,
\* takes nothing from anybody.
LEMMA WrittenStays ==
    ASSUME AccountTypeOK, NEW n \in Name, NEW row \in Row,
           users' = [users EXCEPT ![n] = row],
           n \in Users => Inherits(users[n], row)
    PROVE  AllStay
<1>1. row # None
    BY NoneAssumption
<1>2. users'[n] = row /\ \A m \in Name : m # n => users'[m] = users[m]
    BY DEF AccountTypeOK
<1> SUFFICES ASSUME NEW m \in Users
             PROVE  /\ m \in Users'
                    /\ users[m].oid # None => users'[m].oid = users[m].oid
                    /\ users[m].gid # None => users'[m].gid = users[m].gid
    BY DEF AllStay
<1>3. m \in Name /\ users[m] # None
    BY DEF Users
<1>4. CASE m = n
    BY <1>1, <1>2, <1>3, <1>4 DEF Inherits, Users
<1>5. CASE m # n
    BY <1>2, <1>3, <1>5 DEF Users
<1> QED
    BY <1>4, <1>5

\* A new account takes nothing from anybody.
LEMMA InsertedStays ==
    ASSUME AccountTypeOK, NEW n \in Name, NEW row \in Row, InsertUser(n, row)
    PROVE  AllStay
BY WrittenStays DEF InsertUser, Put, Users

\* Administrators and starts: a start resets none but validation identities,
\* which have no identity to lose.
LEMMA AdministerStays ==
    AccountInv /\ (Administer \/ \E n \in Name : Disable(n)) => AllStay
<1> SUFFICES ASSUME AccountInv, Administer \/ \E n \in Name : Disable(n)
             PROVE  AllStay
    OBVIOUS
<1> USE ConstantTypes
<1>0. AccountTypeOK /\ RowsOK
    BY DEF AccountInv
<1>1. ASSUME NEW n \in Name, NEW e \in Email, NEW role \in Role,
             CreatePasswordUser(n, e, role)
      PROVE  AllStay
    <2> DEFINE row == [Account(e, TRUE, role, OwnerOf[e]) EXCEPT !.pass = TRUE]
    <2>1. row \in Row
        BY DEF Account, Row
    <2>2. InsertUser(n, row)
        BY <1>1 DEF CreatePasswordUser
    <2> HIDE DEF row
    <2> QED
        BY <1>0, <2>1, <2>2, InsertedStays
<1>2. ASSUME NEW e \in Bootstrap, EnsureBootstrapAdmin(e)
      PROVE  AllStay
    <2> DEFINE row == [Account(e, TRUE, "admin", OwnerOf[e]) EXCEPT !.pass = TRUE]
    <2>1. row \in Row
        BY DEF Account, Row, Role
    <2>2. CASE InsertUser(BootName[e], row)
        <3> HIDE DEF row
        <3> QED
            BY <1>0, <2>1, <2>2, InsertedStays
    <2>3. ASSUME NEW n \in Name, Promotable(n, e),
                 users' = [users EXCEPT ![n].role = "admin", ![n].pass = TRUE,
                                        ![n].verified = TRUE]
          PROVE  AllStay
        <3> DEFINE new == [users[n] EXCEPT !.role = "admin", !.pass = TRUE,
                                           !.verified = TRUE]
        <3>1. users[n] \in Row
            BY <1>0, <2>3, UserIsRow DEF Promotable
        <3>2. new \in Row /\ Inherits(users[n], new)
            BY <3>1 DEF Row, Role, Inherits
        <3>3. users' = [users EXCEPT ![n] = new]
            BY <1>0, <2>3 DEF AccountTypeOK
        <3> HIDE DEF new
        <3> QED
            BY <1>0, <3>2, <3>3, WrittenStays
    <2> QED
        BY <1>2, <2>2, <2>3 DEF EnsureBootstrapAdmin
<1>3. CASE EnsureValidationUsers
    <2> SUFFICES ASSUME NEW n \in Users
                 PROVE  /\ n \in Users'
                        /\ users[n].oid # None => users'[n].oid = users[n].oid
                        /\ users[n].gid # None => users'[n].gid = users[n].gid
        BY DEF AllStay
    <2>1. /\ n \in Name /\ users[n] # None /\ users[n] \in Row
          /\ users'[n] = IF n \in Slot THEN Provisioned(n) ELSE users[n]
        BY <1>0, <1>3, UserIsRow DEF EnsureValidationUsers
    <2>2. CASE n \in Slot
        <3>1. users[n].oid = None /\ users[n].gid = None
            BY <1>0, <1>3, <2>1, <2>2 DEF EnsureValidationUsers, RowsOK, RowOK
        <3>2. Provisioned(n) \in Row
            BY <2>1, <2>2 DEF Provisioned, Row, Role
        <3> QED
            BY <2>1, <2>2, <3>1, <3>2, NoneAssumption DEF Users
    <2>3. CASE n \notin Slot
        BY <2>1, <2>3 DEF Users
    <2> QED
        BY <2>2, <2>3
<1>4. ASSUME NEW n \in Name, Enable(n) \/ Disable(n)
      PROVE  AllStay
    <2>1. PICK d \in BOOLEAN : users' = [users EXCEPT ![n].disabled = d] /\ n \in Users
        BY <1>4 DEF Enable, Disable
    <2> DEFINE new == [users[n] EXCEPT !.disabled = d]
    <2>2. users[n] \in Row
        BY <1>0, <2>1, UserIsRow
    <2>3. new \in Row /\ Inherits(users[n], new)
        BY <2>2 DEF Row, Inherits
    <2>4. users' = [users EXCEPT ![n] = new]
        BY <1>0, <2>1 DEF AccountTypeOK
    <2> HIDE DEF new
    <2> QED
        BY <1>0, <2>3, <2>4, WrittenStays
<1> QED
    BY <1>1, <1>2, <1>3, <1>4 DEF Administer

\* Invitations touch no account but the one they make.
LEMMA InvitationsStay ==
    AccountInv /\ Invitations => AllStay
<1> SUFFICES ASSUME AccountInv, Invitations
             PROVE  AllStay
    OBVIOUS
<1> USE ConstantTypes
<1>0. AccountTypeOK
    BY DEF AccountInv
<1>1. ASSUME NEW i \in Invitation, NEW n \in Name, AcceptInvitation(i, n)
      PROVE  AllStay
    <2> DEFINE new == [Account(invites[i].email, TRUE, invites[i].role,
                               OwnerOf[invites[i].email]) EXCEPT !.pass = TRUE, !.via = i]
    <2>1. invites[i] \in Invite
        BY <1>0, <1>1 DEF AcceptInvitation, Claimable, Open, AccountTypeOK
    <2>2. new \in Row /\ InsertUser(n, new)
        BY <1>1, <2>1 DEF Account, Invite, Row, AcceptInvitation
    <2> HIDE DEF new
    <2> QED
        BY <1>0, <2>2, InsertedStays
<1>2. CASE UNCHANGED users
    BY <1>2 DEF AllStay, Users
<1> QED
    BY <1>1, <1>2 DEF Invitations, CreateInvitation, SendInvitation, WithdrawUnsent,
           SenderLeaves, RevokeInvitation, ExpireInvitation

\* Sign-ins link an identity to an account that has none, and change nothing of
\* one they find but its address and its role.
LEMMA FederatedStays ==
    AccountInv /\ Federated => AllStay
<1> SUFFICES ASSUME AccountInv, Federated
             PROVE  AllStay
    OBVIOUS
<1> USE ConstantTypes
<1>0. AccountTypeOK
    BY DEF AccountInv
<1>a. CASE UNCHANGED users
    BY <1>a DEF AllStay, Users
<1>1. ASSUME NEW g \in Gid, NEW role \in Role, NEW n \in Users,
             NEW e \in {users[n].email} \cup Reported(g),
             Put(n, [users[n] EXCEPT !.role = role, !.email = e, !.verified = TRUE])
      PROVE  AllStay
    <2> DEFINE new == [users[n] EXCEPT !.role = role, !.email = e, !.verified = TRUE]
    <2>1. n \in Name /\ users[n] \in Row
        BY <1>0, UserIsRow
    <2>2. new \in Row /\ Inherits(users[n], new)
        BY <2>1 DEF Row, Reported, Inherits
    <2> HIDE DEF new
    <2> QED
        BY <1>0, <1>1, <2>1, <2>2, WrittenStays DEF Put, new
<1>2. ASSUME NEW g \in Gid, NEW role \in Role, NEW n \in Name, NEW e \in Reported(g),
             InsertUser(n, [Account(e, TRUE, role, PersonOf[g]) EXCEPT !.gid = g])
      PROVE  AllStay
    <2> DEFINE new == [Account(e, TRUE, role, PersonOf[g]) EXCEPT !.gid = g]
    <2>1. new \in Row /\ InsertUser(n, new)
        BY <1>2 DEF Account, Row, Reported
    <2> HIDE DEF new
    <2> QED
        BY <1>0, <2>1, InsertedStays
<1>3. ASSUME NEW p \in Request, NEW claim \in Claim, FindEntraUser(p, claim)
      PROVE  AllStay
    <2>1. ASSUME NEW n \in Users,
                 Put(n, [users[n] EXCEPT !.email = claim.email,
                                         !.verified = Reverified(users[n], claim)])
          PROVE  AllStay
        <3> DEFINE v == Reverified(users[n], claim)
                   new == [users[n] EXCEPT !.email = claim.email, !.verified = v]
        <3>1. n \in Name /\ users[n] \in Row
            BY <1>0, UserIsRow
        <3>2. v \in BOOLEAN
            BY <3>1, ClaimParts DEF Reverified, Row
        <3>3. users' = [users EXCEPT ![n] = new]
            BY <2>1 DEF Put
        <3> HIDE DEF v
        <3>4. new \in Row /\ Inherits(users[n], new)
            BY <3>1, <3>2, ClaimParts DEF Row, Inherits
        <3> HIDE DEF new
        <3> QED
            BY <1>0, <3>1, <3>3, <3>4, WrittenStays
    <2> QED
        BY <1>a, <1>3, <2>1 DEF FindEntraUser
<1>4. ASSUME NEW p \in Request, LinkEntraUser(p)
      PROVE  AllStay
    <2>1. entra[p].claim \in Claim
        BY <1>0, <1>4, PendingClaim DEF LinkEntraUser
    <2>2. ASSUME NEW n \in Name, Linkable(n, entra[p].claim),
                 Put(n, [users[n] EXCEPT !.oid = entra[p].claim.oid])
          PROVE  AllStay
        <3> DEFINE new == [users[n] EXCEPT !.oid = entra[p].claim.oid]
        <3>1. n \in Users /\ users[n] \in Row /\ users[n].oid = None
            BY <1>0, <2>2, UserIsRow DEF Linkable
        <3>2. new \in Row /\ Inherits(users[n], new)
            BY <2>1, <3>1, ClaimParts DEF Row, Inherits
        <3>3. users' = [users EXCEPT ![n] = new]
            BY <2>2 DEF Put
        <3> HIDE DEF new
        <3> QED
            BY <1>0, <3>2, <3>3, WrittenStays
    <2> QED
        BY <1>a, <1>4, <2>2 DEF LinkEntraUser
<1>5. ASSUME NEW p \in Request, NEW n \in Name, CreateEntraUser(p, n)
      PROVE  AllStay
    <2>1. entra[p].claim \in Claim
        BY <1>0, <1>5, PendingClaim DEF CreateEntraUser
    <2> DEFINE claim == entra[p].claim
               new == [Account(claim.email, claim.verified, "developer",
                               PersonOf[claim.oid]) EXCEPT !.oid = claim.oid]
    <2>2. new \in Row /\ InsertUser(n, new)
        BY <1>5, <2>1, ClaimParts DEF Account, Row, Role, CreateEntraUser
    <2> HIDE DEF new
    <2> QED
        BY <1>0, <2>2, InsertedStays
<1>6. ASSUME NEW p \in Request, EntraFails(p)
      PROVE  AllStay
    BY <1>a, <1>6 DEF EntraFails
<1>7. ASSUME NEW g \in Gid, NEW role \in Role, FindOrCreateGitHubUser(g, role)
      PROVE  AllStay
    BY <1>1, <1>2, <1>7 DEF FindOrCreateGitHubUser
<1> QED
    BY <1>3, <1>4, <1>5, <1>6, <1>7 DEF Federated

\* An account stays its person's: accounts are never lost and never lose or
\* change an upstream identity, whatever sign-ins and starts interleave.
THEOREM AccountsStayTheirPersons == AccountSpec => IdentitiesStay
<1>1. AccountInv /\ [AnyAccountStep]_accountVars =>
         [\A n \in Users :
             /\ n \in Users'
             /\ users[n].oid # None => users'[n].oid = users[n].oid
             /\ users[n].gid # None => users'[n].gid = users[n].gid]_accountVars
    BY AdministerStays, InvitationsStay, FederatedStays
       DEF AnyAccountStep, AccountStep, AllStay
<1>2. AccountInv /\ [AccountStep \/ \E n \in Name : Disable(n)]_accountVars =>
         [\A n \in Users :
             /\ n \in Users'
             /\ users[n].oid # None => users'[n].oid = users[n].oid
             /\ users[n].gid # None => users'[n].gid = users[n].gid]_accountVars
    BY <1>1 DEF AnyAccountStep
<1> QED
    BY <1>2, AccountInvariance, PTL DEF AccountSpec, IdentitiesStay
=============================================================================
