------------------------------- MODULE SignIn -------------------------------
(***************************************************************************)
(* Password sign-in and its throttle, the sessions that sign-ins start and *)
(* the session policy that limits them, on the accounts of module          *)
(* Accounts.                                                               *)
(*                                                                         *)
(* The throttle has no state of its own: it counts the failures in the     *)
(* audit record.  Counting them, checking the password and recording the   *)
(* outcome are three steps of one request, and so are the reading of the   *)
(* policy and the insertion of the session.  A recorded failure leaves the *)
(* fifteen-minute window at any time later than it was recorded.           *)
(***************************************************************************)
EXTENDS Accounts, Integers

CONSTANTS
    Address,    \* remote addresses
    NoAddress,  \* a request whose address is not known
    Attempt,    \* sign-in requests in flight
    Failure,    \* sign_in.failed events within the window (more than the
                \* limits and the requests in flight let it hold)
    PerName,    \* PasswordFailuresPerUsername
    PerAddress, \* PasswordFailuresPerAddress
    Session,    \* browser sessions held at once
    Lifetime    \* absolute lifetimes a policy may have

Guess == [name : Name, address : Address \cup {NoAddress}]

ASSUME LimitsAssumption ==
    /\ PerName \in Nat \ {0} /\ PerAddress \in Nat \ {0}
    /\ Lifetime \subseteq Nat
    /\ IsFiniteSet(Attempt) /\ IsFiniteSet(Failure)

ASSUME FreshAssumption ==
    /\ NoAddress \notin Address
    /\ None \notin Guess
    /\ None \notin [name : Name, life : Nat, late : BOOLEAN]

VARIABLES
    attempts,   \* what each request does next
    failures,   \* the sign_in.failed events within the window
    absolute,   \* session_policy: the absolute lifetime of a session
    sessions    \* the unrevoked rows of sessions

signInVars == <<attempts, failures, absolute, sessions>>
vars == <<accountVars, signInVars>>

\* A password that is to be checked, or whose refusal is to be recorded.
Guessing == [step : {"checking", "refused"}, name : Name, address : Address \cup {NoAddress}]

\* A person who is to get a session.
Admitted == [step : {"admitted"}, name : Name]

\* CreateSession between the policy it read and its transaction; overtaken is
\* history: the policy has changed since.
Starting == [step : {"starting"}, name : Name, life : Lifetime, overtaken : BOOLEAN]

\* Browser sessions by the time from their creation to their expiry; late is
\* history: a session inserted after its policy changed, and no change since.
Browser == [name : Name, life : Lifetime, late : BOOLEAN]

Init ==
    /\ AccountInit
    /\ attempts = [a \in Attempt |-> Idle]
    /\ failures = [f \in Failure |-> None]
    /\ absolute \in Lifetime
    /\ sessions = [s \in Session |-> None]

Goto(a, work) == attempts' = [attempts EXCEPT ![a] = work]

-----------------------------------------------------------------------------
\* Passwords

FailuresOf(n) == {f \in Failure : failures[f] # None /\ failures[f].name = n}

\* An event without an address counts against no address.
FailuresFrom(d) ==
    {f \in Failure : failures[f] # None /\ failures[f].address = d /\ d # NoAddress}

\* PasswordSignInThrottled
Throttled_Late(n, d) ==
    \/ Cardinality(FailuresOf(n)) > PerName
    \/ Cardinality(FailuresFrom(d)) > PerAddress
Throttled(n, d) ==
    \/ Cardinality(FailuresOf(n)) >= PerName
    \/ Cardinality(FailuresFrom(d)) >= PerAddress

\* passwordLogin: a throttled attempt is refused unchecked and not counted.
PasswordLogin(a, n, d) ==
    /\ attempts[a] = Idle
    /\ ~Throttled(n, d)
    /\ Goto(a, [step |-> "checking", name |-> n, address |-> d])
    /\ UNCHANGED <<failures, absolute, sessions>>

\* A local password the sign-in may be checked against.
HasPassword(n) ==
    n \in Users /\ ~users[n].validation /\ ~users[n].disabled /\ users[n].pass

\* AuthenticatePassword: an unknown name, a failing store, an account without a
\* password and a wrong password are failures, a disabled account is not.
AuthenticatePassword(a) ==
    /\ attempts[a].step = "checking"
    /\ LET n == attempts[a].name IN
       \/ Goto(a, [attempts[a] EXCEPT !.step = "refused"])
       \/ n \in Users /\ users[n].disabled /\ Goto(a, Idle)
       \/ HasPassword(n) /\ Goto(a, [step |-> "admitted", name |-> n])
    /\ UNCHANGED <<failures, absolute, sessions>>

\* recordSignIn: an event that cannot be written is lost, and only logged.
RecordFailure(a) ==
    /\ attempts[a].step = "refused"
    /\ \/ \E f \in Failure :
             /\ failures[f] = None
             /\ failures' = [failures EXCEPT ![f] =
                   [name |-> attempts[a].name, address |-> attempts[a].address]]
       \/ UNCHANGED failures
    /\ Goto(a, Idle)
    /\ UNCHANGED <<absolute, sessions>>

\* The event is older than PasswordFailureWindow.
LeaveWindow(f) ==
    /\ failures[f] # None
    /\ failures' = [failures EXCEPT ![f] = None]
    /\ UNCHANGED <<attempts, absolute, sessions>>

-----------------------------------------------------------------------------
\* Sessions

\* A GitHub, Entra or invitation sign-in, or a validator's bootstrap link,
\* found its account.
OtherSignIn(a, n) ==
    /\ attempts[a] = Idle
    /\ n \in Users /\ ~users[n].disabled
    /\ users[n].oid # None \/ users[n].gid # None \/ users[n].via # None \/ users[n].validation
    /\ Goto(a, [step |-> "admitted", name |-> n])
    /\ UNCHANGED <<failures, absolute, sessions>>

\* CreateSession reads the policy before its transaction.
ReadPolicy(a) ==
    /\ attempts[a].step = "admitted"
    /\ Goto(a, [step |-> "starting", name |-> attempts[a].name, life |-> absolute,
                overtaken |-> FALSE])
    /\ UNCHANGED <<failures, absolute, sessions>>

\* The transaction of CreateSession: lockActiveUser and the insertion.
InsertSession(a, s) ==
    /\ attempts[a].step = "starting"
    /\ sessions[s] = None
    /\ attempts[a].name \in Users /\ ~users[attempts[a].name].disabled
    /\ sessions' = [sessions EXCEPT ![s] =
          [name |-> attempts[a].name, life |-> attempts[a].life,
           late |-> attempts[a].overtaken]]
    /\ Goto(a, Idle)
    /\ UNCHANGED <<failures, absolute>>

\* The request ends, or a statement of it fails.
Leave(a) ==
    /\ attempts[a] # Idle
    /\ Goto(a, Idle)
    /\ UNCHANGED <<failures, absolute, sessions>>

\* A session is revoked or deleted.
EndSession(s) ==
    /\ sessions[s] # None
    /\ sessions' = [sessions EXCEPT ![s] = None]
    /\ UNCHANGED <<attempts, failures, absolute>>

\* UPDATE sessions SET expires_at ... WHERE expires_at > ...
Limited_Never(life, limit) == life
Limited_Reset(life, limit) == limit
Limited_Again(life, limit) == life + limit
Limited(life, limit) == IF life > limit THEN limit ELSE life

\* UpdateSessionPolicy: the policy and the sessions that exist, in one
\* transaction.
UpdateSessionPolicy(limit) ==
    /\ absolute' = limit
    /\ sessions' = [s \in Session |->
          IF sessions[s] = None THEN None
          ELSE [sessions[s] EXCEPT !.life = Limited(@, limit), !.late = FALSE]]
    /\ attempts' = [a \in Attempt |->
          IF attempts[a].step = "starting" THEN [attempts[a] EXCEPT !.overtaken = TRUE]
          ELSE attempts[a]]
    /\ UNCHANGED failures

\* disableUser ends the account's sessions in the transaction that disables it.
DisableUser(n) ==
    /\ Disable(n)
    /\ sessions' = [s \in Session |->
          IF sessions[s] # None /\ sessions[s].name = n THEN None ELSE sessions[s]]
    /\ UNCHANGED <<attempts, failures, absolute>>

-----------------------------------------------------------------------------
SignInStep ==
    \/ \E a \in Attempt :
          \/ \E n \in Name, d \in Address \cup {NoAddress} : PasswordLogin(a, n, d)
          \/ AuthenticatePassword(a)
          \/ RecordFailure(a)
          \/ \E n \in Name : OtherSignIn(a, n)
          \/ ReadPolicy(a)
          \/ \E s \in Session : InsertSession(a, s)
          \/ Leave(a)
    \/ \E f \in Failure : LeaveWindow(f)
    \/ \E s \in Session : EndSession(s)
    \/ \E limit \in Lifetime : UpdateSessionPolicy(limit)

Next ==
    \/ AccountStep /\ UNCHANGED signInVars
    \/ \E n \in Name : DisableUser(n)
    \/ SignInStep /\ UNCHANGED accountVars

Spec == Init /\ [][Next]_vars

-----------------------------------------------------------------------------
\* Every variable of the sign-ins holds a value of its type.
TypeOK ==
    /\ attempts \in [Attempt -> {Idle} \cup Guessing \cup Admitted \cup Starting]
    /\ failures \in [Failure -> Guess \cup {None}]
    /\ absolute \in Lifetime
    /\ sessions \in [Session -> Browser \cup {None}]

Checked(a) == attempts[a].step \in {"checking", "refused"}

\* However requests overlap, a username and an address get at most as many
\* wrong passwords checked within the window as the limit allows plus one for
\* each other request that was in flight when the last was admitted.  A
\* refusal that could not be recorded is not counted
\* (PasswordSignInThrottled, passwordLogin; docs/architecture.md:51).
GuessesBounded ==
    /\ \A n \in Name :
          Cardinality(FailuresOf(n))
              + Cardinality({a \in Attempt : Checked(a) /\ attempts[a].name = n})
            <= PerName + Cardinality(Attempt) - 1
    /\ \A d \in Address :
          Cardinality(FailuresFrom(d))
              + Cardinality({a \in Attempt : Checked(a) /\ attempts[a].address = d})
            <= PerAddress + Cardinality(Attempt) - 1

\* No session outlives the policy in force: a shorter lifetime reaches the
\* sessions that exist, although sign-ins are under way.  Excepted is a session
\* whose request had read the earlier policy and inserted it after the change
\* (UpdateSessionPolicy: "must not leave month-old sessions valid under the old
\* limit").
PolicyReachesSessions ==
    \A s \in Session :
        sessions[s] # None => sessions[s].life <= absolute \/ sessions[s].late

\* No step gives a session that exists a later expiry (UpdateSessionPolicy: "A
\* longer one never extends them").
LifetimesOnlyShrink ==
    [][\A s \in Session :
          sessions[s] # None /\ sessions'[s] # None =>
              sessions'[s].life <= sessions[s].life]_vars
=============================================================================
