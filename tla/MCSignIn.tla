------------------------------ MODULE MCSignIn ------------------------------
(* Two people and the deployment's validation identity.  The second address *)
(* is a break-glass administrator's in one deployment, the validation       *)
(* identity's in another.                                                   *)
EXTENDS SignIn, TLC

CONSTANTS ann, bob, annMail, bobMail, bobOid, annGid, local, slot

Owners == annMail :> ann @@ bobMail :> bob

Identities == bobOid :> bob @@ annGid :> ann

BootNames == bobMail :> local

Slots == slot :> bobMail

\* The two halves are explored one at a time.  Sign-ins: on no account or one.
Quiet ==
    /\ \A i \in Invitation : invites[i] = None
    /\ \A p \in Request : entra[p] = Idle
    /\ Cardinality(Users) <= 1
    /\ \A n \in Users : users[n].email = annMail /\ users[n].role = "developer"

\* Accounts: without sign-ins, and of an invitation and a callback at once only
\* those about the same address.
Unused ==
    /\ \A a \in Attempt : attempts[a] = Idle
    /\ \A f \in Failure : failures[f] = None
    /\ \A s \in Session : sessions[s] = None
    /\ absolute = CHOOSE life \in Lifetime : TRUE
    /\ \/ \A i \in Invitation : invites[i] = None
       \/ \A p \in Request : entra[p] = Idle
       \/ \E p \in Request :
             /\ \A r \in Request \ {p} : entra[r] = Idle
             /\ \A i \in Invitation :
                   /\ invites[i].email = entra[p].claim.email
                   /\ invites[i].role = "developer"

OneHalf == Quiet \/ Unused

Processes == Permutations(Request) \cup Permutations(Attempt) \cup Permutations(Failure)
=============================================================================
