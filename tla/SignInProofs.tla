---------------------------- MODULE SignInProofs ----------------------------
(***************************************************************************)
(* Proofs about module SignIn.  Its accounts are those of module Accounts, *)
(* so that what AccountsProofs shows of them holds here too.               *)
(*                                                                         *)
(* PolicyReachesSessions is not inductive by itself: it needs that a       *)
(* request whose policy has not changed since it read it holds a lifetime  *)
(* within that policy (Timely).  GuessesBounded is inductive: a request is *)
(* admitted only below the limit, and a refusal is recorded in exchange    *)
(* for the request that met it.                                            *)
(***************************************************************************)
EXTENDS SignIn, AccountsProofs, FiniteSetTheorems

-----------------------------------------------------------------------------
\* The accounts

\* Sign-ins and sessions only read the accounts; a disabling that ends sessions
\* is one of Accounts.
LEMMA AccountsStep == [Next]_vars => [AccountStep \/ \E n \in Name : Disable(n)]_accountVars
BY DEF Next, DisableUser, vars, accountVars

\* The system keeps what module Accounts promises.
THEOREM SignInsKeepAccounts == Spec => AccountSpec
<1>1. Init => AccountInit
    BY DEF Init
<1> QED
    BY <1>1, AccountsStep, PTL DEF Spec, AccountSpec

-----------------------------------------------------------------------------
\* Type correctness

\* The step of a request tells what it holds.
LEMMA AttemptKinds ==
    ASSUME TypeOK, NEW a \in Attempt
    PROVE  /\ attempts[a].step \in {"checking", "refused"} => attempts[a] \in Guessing
           /\ attempts[a].step = "admitted" => attempts[a] \in Admitted
           /\ attempts[a].step = "starting" => attempts[a] \in Starting
BY DEF TypeOK, Idle, Guessing, Admitted, Starting

\* What a request may do next.
Work == {Idle} \cup Guessing \cup Admitted \cup Starting

\* A request that goes on to well-typed work leaves the requests well typed.
LEMMA GotoTypes ==
    ASSUME TypeOK, NEW a \in Attempt, NEW work \in Work, Goto(a, work)
    PROVE  attempts' \in [Attempt -> Work]
BY DEF TypeOK, Goto, Work

\* The shorter of two lifetimes is one of them.
LEMMA LimitedLifetime ==
    ASSUME NEW life \in Lifetime, NEW limit \in Lifetime
    PROVE  Limited(life, limit) \in Lifetime /\ Limited(life, limit) <= limit
           /\ Limited(life, limit) <= life
BY LimitsAssumption DEF Limited

\* The steps of one request keep the types.
LEMMA AttemptTypes ==
    ASSUME TypeOK, NEW a \in Attempt,
           \/ \E n \in Name, d \in Address \cup {NoAddress} : PasswordLogin(a, n, d)
           \/ AuthenticatePassword(a)
           \/ RecordFailure(a)
           \/ \E n \in Name : OtherSignIn(a, n)
           \/ ReadPolicy(a)
           \/ \E s \in Session : InsertSession(a, s)
           \/ Leave(a)
    PROVE  TypeOK'
<1>0. Idle \in Work
    BY DEF Work
<1>1. ASSUME NEW n \in Name, NEW d \in Address \cup {NoAddress}, PasswordLogin(a, n, d)
      PROVE  TypeOK'
    <2>1. [step |-> "checking", name |-> n, address |-> d] \in Work
        BY DEF Work, Guessing
    <2>2. attempts' \in [Attempt -> Work]
        BY <1>1, <2>1, GotoTypes DEF PasswordLogin
    <2> QED
        BY <1>1, <2>2 DEF PasswordLogin, TypeOK, Work
<1>2. CASE AuthenticatePassword(a)
    <2>1. attempts[a] \in Guessing
        BY <1>2, AttemptKinds DEF AuthenticatePassword
    <2>2. [attempts[a] EXCEPT !.step = "refused"] \in Work
        BY <2>1 DEF Guessing, Work
    <2>3. [step |-> "admitted", name |-> attempts[a].name] \in Work
        BY <2>1 DEF Guessing, Admitted, Work
    <2>4. attempts' \in [Attempt -> Work]
        BY <1>0, <1>2, <2>2, <2>3, GotoTypes DEF AuthenticatePassword
    <2> QED
        BY <1>2, <2>4 DEF AuthenticatePassword, TypeOK, Work
<1>3. CASE RecordFailure(a)
    <2>1. attempts[a] \in Guessing
        BY <1>3, AttemptKinds DEF RecordFailure
    <2>2. [name |-> attempts[a].name, address |-> attempts[a].address] \in Guess
        BY <2>1 DEF Guessing, Guess
    <2>3. failures' \in [Failure -> Guess \cup {None}]
        BY <1>3, <2>2 DEF RecordFailure, TypeOK
    <2>4. attempts' \in [Attempt -> Work]
        BY <1>0, <1>3, GotoTypes DEF RecordFailure
    <2> QED
        BY <1>3, <2>3, <2>4 DEF RecordFailure, TypeOK, Work
<1>4. ASSUME NEW n \in Name, OtherSignIn(a, n)
      PROVE  TypeOK'
    <2>1. [step |-> "admitted", name |-> n] \in Work
        BY DEF Work, Admitted
    <2>2. attempts' \in [Attempt -> Work]
        BY <1>4, <2>1, GotoTypes DEF OtherSignIn
    <2> QED
        BY <1>4, <2>2 DEF OtherSignIn, TypeOK, Work
<1>5. CASE ReadPolicy(a)
    <2>1. attempts[a] \in Admitted
        BY <1>5, AttemptKinds DEF ReadPolicy
    <2>2. [step |-> "starting", name |-> attempts[a].name, life |-> absolute,
           overtaken |-> FALSE] \in Work
        BY <2>1 DEF Work, Admitted, Starting, TypeOK
    <2>3. attempts' \in [Attempt -> Work]
        BY <1>5, <2>2, GotoTypes DEF ReadPolicy
    <2> QED
        BY <1>5, <2>3 DEF ReadPolicy, TypeOK, Work
<1>6. ASSUME NEW s \in Session, InsertSession(a, s)
      PROVE  TypeOK'
    <2>1. attempts[a] \in Starting
        BY <1>6, AttemptKinds DEF InsertSession
    <2>2. [name |-> attempts[a].name, life |-> attempts[a].life,
           late |-> attempts[a].overtaken] \in Browser
        BY <2>1 DEF Starting, Browser
    <2>3. attempts' \in [Attempt -> Work]
        BY <1>0, <1>6, GotoTypes DEF InsertSession
    <2> QED
        BY <1>6, <2>2, <2>3 DEF InsertSession, TypeOK, Work
<1>7. CASE Leave(a)
    <2>1. attempts' \in [Attempt -> Work]
        BY <1>0, <1>7, GotoTypes DEF Leave
    <2> QED
        BY <1>7, <2>1 DEF Leave, TypeOK, Work
<1> QED
    BY <1>1, <1>2, <1>3, <1>4, <1>5, <1>6, <1>7

\* A change of the policy keeps the types.
LEMMA PolicyTypes ==
    ASSUME TypeOK, NEW limit \in Lifetime, UpdateSessionPolicy(limit)
    PROVE  TypeOK'
<1>1. ASSUME NEW s \in Session, sessions[s] # None
      PROVE  [sessions[s] EXCEPT !.life = Limited(@, limit), !.late = FALSE] \in Browser
    <2>1. sessions[s] \in Browser
        BY <1>1 DEF TypeOK
    <2>2. Limited(sessions[s].life, limit) \in Lifetime
        BY <2>1, LimitedLifetime DEF Browser
    <2> QED
        BY <2>1, <2>2 DEF Browser
<1>2. ASSUME NEW a \in Attempt, attempts[a].step = "starting"
      PROVE  [attempts[a] EXCEPT !.overtaken = TRUE] \in Starting
    BY <1>2, AttemptKinds DEF Starting
<1> QED
    BY <1>1, <1>2 DEF UpdateSessionPolicy, TypeOK

\* Every step keeps the types.
LEMMA SignInTypes == TypeOK /\ [Next]_vars => TypeOK'
<1> SUFFICES ASSUME TypeOK, [Next]_vars
             PROVE  TypeOK'
    OBVIOUS
<1>1. CASE UNCHANGED signInVars
    BY <1>1 DEF signInVars, TypeOK
<1>2. CASE \E n \in Name : DisableUser(n)
    BY <1>2 DEF DisableUser, TypeOK
<1>3. CASE SignInStep
    <2>1. CASE \E f \in Failure : LeaveWindow(f)
        BY <2>1 DEF LeaveWindow, TypeOK
    <2>2. CASE \E s \in Session : EndSession(s)
        BY <2>2 DEF EndSession, TypeOK
    <2> QED
        BY <1>3, <2>1, <2>2, AttemptTypes, PolicyTypes DEF SignInStep
<1> QED
    BY <1>1, <1>2, <1>3 DEF Next, vars

\* Requests, failures, the policy and sessions keep their types.
THEOREM SignInsAreTyped == Spec => []TypeOK
<1>1. Init => TypeOK
    BY DEF Init, TypeOK
<1> QED
    BY <1>1, SignInTypes, PTL DEF Spec

-----------------------------------------------------------------------------
\* The session policy

\* A request whose policy has not changed since holds a lifetime within it.
Timely ==
    \A a \in Attempt :
        attempts[a].step = "starting" /\ ~attempts[a].overtaken => attempts[a].life <= absolute

PolicyInv == TypeOK /\ Timely /\ PolicyReachesSessions

\* Steps that change neither the policy nor the sessions, and start nothing.
LEMMA PolicyUntouched ==
    ASSUME PolicyInv, UNCHANGED absolute,
           \A a \in Attempt : attempts'[a] = attempts[a] \/ attempts'[a].step # "starting",
           \A s \in Session : sessions'[s] = sessions[s] \/ sessions'[s] = None
    PROVE  Timely' /\ PolicyReachesSessions'
BY DEF PolicyInv, Timely, PolicyReachesSessions

\* Every step keeps the policy's invariant.
LEMMA PolicyInvIsKept == PolicyInv /\ [Next]_vars => PolicyInv'
<1> SUFFICES ASSUME PolicyInv, [Next]_vars
             PROVE  Timely' /\ PolicyReachesSessions'
    BY SignInTypes DEF PolicyInv
<1>0. TypeOK /\ Timely /\ PolicyReachesSessions
    BY DEF PolicyInv
<1>1. CASE UNCHANGED signInVars
    BY <1>1, PolicyUntouched DEF signInVars
<1>2. CASE \E n \in Name : DisableUser(n)
    BY <1>2, PolicyUntouched DEF DisableUser
<1>3. ASSUME NEW a \in Attempt,
             \/ \E n \in Name, d \in Address \cup {NoAddress} : PasswordLogin(a, n, d)
             \/ AuthenticatePassword(a)
             \/ RecordFailure(a)
             \/ \E n \in Name : OtherSignIn(a, n)
             \/ Leave(a)
      PROVE  Timely' /\ PolicyReachesSessions'
    <2>1. UNCHANGED <<absolute, sessions>>
        BY <1>3 DEF PasswordLogin, AuthenticatePassword, RecordFailure, OtherSignIn, Leave
    <2>2. \E work : Goto(a, work) /\ work.step # "starting"
        <3>1. ASSUME NEW n \in Name, NEW d \in Address \cup {NoAddress},
                     PasswordLogin(a, n, d)
              PROVE  \E work : Goto(a, work) /\ work.step # "starting"
            <4>1. Goto(a, [step |-> "checking", name |-> n, address |-> d])
                BY <3>1 DEF PasswordLogin
            <4> QED
                BY <4>1
        <3>2. CASE AuthenticatePassword(a)
            <4>1. attempts[a] \in Guessing
                BY <1>0, <3>2, AttemptKinds DEF AuthenticatePassword
            <4>2. \/ Goto(a, [attempts[a] EXCEPT !.step = "refused"])
                  \/ Goto(a, Idle)
                  \/ Goto(a, [step |-> "admitted", name |-> attempts[a].name])
                BY <3>2 DEF AuthenticatePassword
            <4>3. /\ [attempts[a] EXCEPT !.step = "refused"].step # "starting"
                  /\ Idle.step # "starting"
                  /\ [step |-> "admitted", name |-> attempts[a].name].step # "starting"
                BY <4>1 DEF Guessing, Idle
            <4> QED
                BY <4>2, <4>3
        <3>3. CASE RecordFailure(a) \/ Leave(a)
            <4>1. Goto(a, Idle) /\ Idle.step # "starting"
                BY <3>3 DEF RecordFailure, Leave, Idle
            <4> QED
                BY <4>1
        <3>4. ASSUME NEW n \in Name, OtherSignIn(a, n)
              PROVE  \E work : Goto(a, work) /\ work.step # "starting"
            <4>1. Goto(a, [step |-> "admitted", name |-> n])
                BY <3>4 DEF OtherSignIn
            <4> QED
                BY <4>1
        <3> QED
            BY <1>3, <3>1, <3>2, <3>3, <3>4
    <2>3. \A b \in Attempt : attempts'[b] = attempts[b] \/ attempts'[b].step # "starting"
        BY <1>0, <2>2 DEF Goto, TypeOK
    <2> QED
        BY <2>1, <2>3, PolicyUntouched
<1>4. ASSUME NEW a \in Attempt, ReadPolicy(a)
      PROVE  Timely' /\ PolicyReachesSessions'
    <2>1. \A b \in Attempt : b # a => attempts'[b] = attempts[b]
        BY <1>0, <1>4 DEF ReadPolicy, Goto, TypeOK
    <2>2. attempts'[a].life = absolute /\ absolute \in Nat
        BY <1>0, <1>4, LimitsAssumption DEF ReadPolicy, Goto, TypeOK
    <2> QED
        BY <1>0, <1>4, <2>1, <2>2 DEF ReadPolicy, Timely, PolicyReachesSessions
<1>5. ASSUME NEW a \in Attempt, NEW s \in Session, InsertSession(a, s)
      PROVE  Timely' /\ PolicyReachesSessions'
    <2>1. \A b \in Attempt : attempts'[b] = attempts[b] \/ attempts'[b].step # "starting"
        BY <1>0, <1>5 DEF InsertSession, Goto, TypeOK, Idle
    <2>2. /\ sessions'[s].life = attempts[a].life
          /\ sessions'[s].late = attempts[a].overtaken
          /\ \A t \in Session : t # s => sessions'[t] = sessions[t]
        BY <1>0, <1>5 DEF InsertSession, TypeOK
    <2>3. attempts[a].life <= absolute \/ attempts[a].overtaken
        BY <1>0, <1>5 DEF InsertSession, Timely
    <2> QED
        BY <1>0, <1>5, <2>1, <2>2, <2>3 DEF InsertSession, Timely, PolicyReachesSessions
<1>6. CASE \E f \in Failure : LeaveWindow(f)
    BY <1>6, PolicyUntouched DEF LeaveWindow
<1>7. ASSUME NEW s \in Session, EndSession(s)
      PROVE  Timely' /\ PolicyReachesSessions'
    BY <1>0, <1>7, PolicyUntouched DEF EndSession, TypeOK
<1>8. ASSUME NEW limit \in Lifetime, UpdateSessionPolicy(limit)
      PROVE  Timely' /\ PolicyReachesSessions'
    <2>1. Timely'
        <3> SUFFICES ASSUME NEW a \in Attempt, attempts'[a].step = "starting"
                     PROVE  attempts'[a].overtaken
            BY DEF Timely
        <3>1. CASE attempts[a].step = "starting"
            <4>1. attempts[a] \in Starting
                BY <1>0, <3>1, AttemptKinds
            <4>2. attempts'[a] = [attempts[a] EXCEPT !.overtaken = TRUE]
                BY <1>8, <3>1 DEF UpdateSessionPolicy
            <4> QED
                BY <4>1, <4>2 DEF Starting
        <3>2. CASE attempts[a].step # "starting"
            BY <1>8, <3>2 DEF UpdateSessionPolicy
        <3> QED
            BY <3>1, <3>2
    <2>2. PolicyReachesSessions'
        <3> SUFFICES ASSUME NEW s \in Session, sessions'[s] # None
                     PROVE  sessions'[s].life <= absolute'
            BY DEF PolicyReachesSessions
        <3>1. sessions[s] # None /\ absolute' = limit /\ sessions'[s] =
                  [sessions[s] EXCEPT !.life = Limited(@, limit), !.late = FALSE]
            BY <1>8 DEF UpdateSessionPolicy
        <3>2. sessions[s] \in Browser
            BY <1>0, <3>1 DEF TypeOK
        <3>3. sessions'[s].life = Limited(sessions[s].life, limit)
            BY <3>1, <3>2 DEF Browser
        <3> QED
            BY <3>1, <3>2, <3>3, LimitedLifetime DEF Browser
    <2> QED
        BY <2>1, <2>2
<1> QED
    BY <1>1, <1>2, <1>3, <1>4, <1>5, <1>6, <1>7, <1>8 DEF Next, SignInStep, vars

\* No session outlives the policy in force but one whose sign-in had read an
\* earlier policy.
THEOREM PolicyReachesEverySession == Spec => []PolicyReachesSessions
<1>1. Init => PolicyInv
    BY DEF Init, PolicyInv, TypeOK, Timely, PolicyReachesSessions, Idle
<1>2. PolicyInv => PolicyReachesSessions
    BY DEF PolicyInv
<1> QED
    BY <1>1, <1>2, PolicyInvIsKept, PTL DEF Spec

\* No step gives a session that exists a later expiry.
LEMMA StepsOnlyShrink ==
    ASSUME TypeOK, [Next]_vars, NEW s \in Session, sessions[s] # None, sessions'[s] # None
    PROVE  sessions'[s].life <= sessions[s].life
<1>0. sessions[s] \in Browser /\ sessions[s].life \in Lifetime /\ sessions[s].life \in Nat
    BY LimitsAssumption DEF TypeOK, Browser
<1>1. CASE sessions'[s] = sessions[s]
    BY <1>0, <1>1
<1>2. ASSUME NEW limit \in Lifetime, UpdateSessionPolicy(limit)
      PROVE  sessions'[s].life <= sessions[s].life
    <2>1. sessions'[s] = [sessions[s] EXCEPT !.life = Limited(@, limit), !.late = FALSE]
        BY <1>2 DEF UpdateSessionPolicy
    <2>2. sessions'[s].life = Limited(sessions[s].life, limit)
        BY <1>0, <2>1 DEF Browser
    <2> QED
        BY <1>0, <2>2, LimitedLifetime
<1>3. CASE UNCHANGED sessions
    BY <1>1, <1>3
<1>4. CASE \E n \in Name : DisableUser(n)
    BY <1>1, <1>4 DEF DisableUser
<1>5. CASE \E t \in Session : EndSession(t)
    BY <1>1, <1>5 DEF EndSession, TypeOK
<1>6. ASSUME NEW a \in Attempt, NEW t \in Session, InsertSession(a, t)
      PROVE  sessions'[s].life <= sessions[s].life
    <2>1. t # s
        BY <1>6 DEF InsertSession
    <2> QED
        BY <1>1, <1>6, <2>1 DEF InsertSession, TypeOK
<1> QED
    BY <1>2, <1>3, <1>4, <1>5, <1>6
       DEF Next, SignInStep, vars, signInVars, PasswordLogin, AuthenticatePassword,
           RecordFailure, OtherSignIn, ReadPolicy, Leave, LeaveWindow

\* A session's expiry never moves away.
THEOREM LifetimesNeverGrow == Spec => LifetimesOnlyShrink
<1>1. TypeOK /\ [Next]_vars =>
          [\A s \in Session : sessions[s] # None /\ sessions'[s] # None =>
                sessions'[s].life <= sessions[s].life]_vars
    BY StepsOnlyShrink
<1> QED
    BY <1>1, SignInsAreTyped, PTL DEF Spec, LifetimesOnlyShrink

-----------------------------------------------------------------------------
\* The throttle

\* The requests that may yet add a failure of a username, or of an address.
FlightOf(n) == {a \in Attempt : Checked(a) /\ attempts[a].name = n}
FlightFrom(d) == {a \in Attempt : Checked(a) /\ attempts[a].address = d}

Bounded(F, C, limit) == Cardinality(F) + Cardinality(C) <= limit + Cardinality(Attempt) - 1

\* Fewer failures and fewer requests keep the bound.
LEMMA BoundedShrinks ==
    ASSUME NEW F, NEW C, NEW G, NEW D, NEW limit \in Nat,
           F \subseteq Failure, C \subseteq Attempt, G \subseteq F, D \subseteq C,
           Bounded(F, C, limit)
    PROVE  Bounded(G, D, limit)
<1>1. IsFiniteSet(F) /\ IsFiniteSet(C)
    BY FS_Subset, LimitsAssumption
<1>2. /\ Cardinality(G) <= Cardinality(F) /\ IsFiniteSet(G)
      /\ Cardinality(D) <= Cardinality(C) /\ IsFiniteSet(D)
    BY <1>1, FS_Subset
<1>3. /\ Cardinality(F) \in Nat /\ Cardinality(C) \in Nat /\ Cardinality(G) \in Nat
      /\ Cardinality(D) \in Nat /\ Cardinality(Attempt) \in Nat
    BY <1>1, <1>2, FS_CardinalityType, LimitsAssumption
<1> QED
    BY <1>2, <1>3 DEF Bounded

\* A request that becomes a recorded failure keeps the bound.
LEMMA BoundedMoves ==
    ASSUME NEW F, NEW C, NEW D, NEW f, NEW a, NEW limit \in Nat,
           F \subseteq Failure, C \subseteq Attempt, a \in C, D \subseteq C \ {a},
           Bounded(F, C, limit)
    PROVE  Bounded(F \cup {f}, D, limit)
<1>1. IsFiniteSet(F) /\ IsFiniteSet(C)
    BY FS_Subset, LimitsAssumption
<1>2. Cardinality(F \cup {f}) <= Cardinality(F) + 1 /\ Cardinality(F \cup {f}) \in Nat
    <2>1. /\ IsFiniteSet(F \cup {f})
          /\ Cardinality(F \cup {f}) = IF f \in F THEN Cardinality(F) ELSE Cardinality(F) + 1
        BY <1>1, FS_AddElement
    <2>2. Cardinality(F) \in Nat /\ Cardinality(F \cup {f}) \in Nat
        BY <1>1, <2>1, FS_CardinalityType
    <2> QED
        BY <2>1, <2>2
<1>3. Cardinality(C \ {a}) = Cardinality(C) - 1 /\ IsFiniteSet(C \ {a})
    BY <1>1, FS_RemoveElement
<1>4. Cardinality(D) <= Cardinality(C \ {a}) /\ IsFiniteSet(D)
    BY <1>3, FS_Subset
<1>5. /\ Cardinality(F) \in Nat /\ Cardinality(C) \in Nat
      /\ Cardinality(D) \in Nat /\ Cardinality(Attempt) \in Nat
    BY <1>1, <1>4, FS_CardinalityType, LimitsAssumption
<1> QED
    BY <1>2, <1>3, <1>4, <1>5 DEF Bounded

\* A request that is admitted below the limit keeps the bound, whoever else is
\* in flight.
LEMMA BoundedAdmits ==
    ASSUME NEW F, NEW D, NEW limit \in Nat, F \subseteq Failure, D \subseteq Attempt,
           ~(Cardinality(F) >= limit)
    PROVE  Bounded(F, D, limit)
<1>1. Cardinality(F) \in Nat
    BY FS_Subset, FS_CardinalityType, LimitsAssumption
<1>2. /\ Cardinality(D) <= Cardinality(Attempt)
      /\ Cardinality(D) \in Nat /\ Cardinality(Attempt) \in Nat
    BY FS_Subset, FS_CardinalityType, LimitsAssumption
<1> QED
    BY <1>1, <1>2 DEF Bounded

\* Failures and requests in flight are what they are counted as.
LEMMA FlightSets ==
    /\ \A n : FailuresOf(n) \subseteq Failure /\ FlightOf(n) \subseteq Attempt
    /\ \A d : FailuresFrom(d) \subseteq Failure /\ FlightFrom(d) \subseteq Attempt
    /\ GuessesBounded <=>
          /\ \A n \in Name : Bounded(FailuresOf(n), FlightOf(n), PerName)
          /\ \A d \in Address : Bounded(FailuresFrom(d), FlightFrom(d), PerAddress)
BY DEF FailuresOf, FailuresFrom, FlightOf, FlightFrom, GuessesBounded, Bounded

\* The same of the next state.
LEMMA FlightSetsNext ==
    /\ \A n : FailuresOf(n)' \subseteq Failure /\ FlightOf(n)' \subseteq Attempt
    /\ \A d : FailuresFrom(d)' \subseteq Failure /\ FlightFrom(d)' \subseteq Attempt
    /\ GuessesBounded' <=>
          /\ \A n \in Name : Bounded(FailuresOf(n)', FlightOf(n)', PerName)
          /\ \A d \in Address : Bounded(FailuresFrom(d)', FlightFrom(d)', PerAddress)
BY DEF FailuresOf, FailuresFrom, FlightOf, FlightFrom, GuessesBounded, Bounded

\* A request that is in flight afterwards was in flight before, for the same
\* username and from the same address.
NoneAdmitted ==
    \A a \in Attempt : Checked(a)' =>
        /\ Checked(a)
        /\ attempts'[a].name = attempts[a].name
        /\ attempts'[a].address = attempts[a].address

\* No failure is recorded.
NoneRecorded == \A f \in Failure : failures'[f] = failures[f] \/ failures'[f] = None

\* A step that admits and records nothing keeps the bounds.
LEMMA NothingAdded ==
    ASSUME GuessesBounded, NoneAdmitted, NoneRecorded
    PROVE  GuessesBounded'
<1>0. PerName \in Nat /\ PerAddress \in Nat
    BY LimitsAssumption
<1>1. ASSUME NEW n \in Name
      PROVE  Bounded(FailuresOf(n)', FlightOf(n)', PerName)
    <2>1. FailuresOf(n)' \subseteq FailuresOf(n)
        BY DEF NoneRecorded, FailuresOf
    <2>2. FlightOf(n)' \subseteq FlightOf(n)
        BY DEF NoneAdmitted, FlightOf
    <2> QED
        BY <1>0, <2>1, <2>2, FlightSets, BoundedShrinks
<1>2. ASSUME NEW d \in Address
      PROVE  Bounded(FailuresFrom(d)', FlightFrom(d)', PerAddress)
    <2>1. FailuresFrom(d)' \subseteq FailuresFrom(d)
        BY DEF NoneRecorded, FailuresFrom
    <2>2. FlightFrom(d)' \subseteq FlightFrom(d)
        BY DEF NoneAdmitted, FlightFrom
    <2> QED
        BY <1>0, <2>1, <2>2, FlightSets, BoundedShrinks
<1> QED
    BY <1>1, <1>2, FlightSetsNext

\* An attempt below both limits is admitted.
LEMMA LoginKeepsBounds ==
    ASSUME TypeOK, GuessesBounded, NEW a \in Attempt, NEW n \in Name,
           NEW d \in Address \cup {NoAddress}, PasswordLogin(a, n, d)
    PROVE  GuessesBounded'
<1>0. PerName \in Nat /\ PerAddress \in Nat
    BY LimitsAssumption
<1>1. /\ ~(Cardinality(FailuresOf(n)) >= PerName)
      /\ ~(Cardinality(FailuresFrom(d)) >= PerAddress)
    BY DEF PasswordLogin, Throttled
<1>2. /\ \A m : FailuresOf(m)' = FailuresOf(m)
      /\ \A c : FailuresFrom(c)' = FailuresFrom(c)
    BY DEF PasswordLogin, FailuresOf, FailuresFrom
<1>3. /\ \A b \in Attempt : b # a => attempts'[b] = attempts[b]
      /\ attempts'[a].name = n /\ attempts'[a].address = d
    BY DEF PasswordLogin, Goto, TypeOK
<1>4. ASSUME NEW m \in Name
      PROVE  Bounded(FailuresOf(m)', FlightOf(m)', PerName)
    <2>1. CASE m = n
        BY <1>0, <1>1, <1>2, <2>1, FlightSets, FlightSetsNext, BoundedAdmits
    <2>2. CASE m # n
        <3>1. FlightOf(m)' \subseteq FlightOf(m)
            BY <1>3, <2>2 DEF FlightOf, Checked
        <3> QED
            BY <1>0, <1>2, <3>1, FlightSets, BoundedShrinks
    <2> QED
        BY <2>1, <2>2
<1>5. ASSUME NEW c \in Address
      PROVE  Bounded(FailuresFrom(c)', FlightFrom(c)', PerAddress)
    <2>1. CASE c = d
        BY <1>0, <1>1, <1>2, <2>1, FlightSets, FlightSetsNext, BoundedAdmits
    <2>2. CASE c # d
        <3>1. FlightFrom(c)' \subseteq FlightFrom(c)
            BY <1>3, <2>2 DEF FlightFrom, Checked
        <3> QED
            BY <1>0, <1>2, <3>1, FlightSets, BoundedShrinks
    <2> QED
        BY <2>1, <2>2
<1> QED
    BY <1>4, <1>5, FlightSetsNext

\* A refusal is recorded and its request ends.
LEMMA RecordKeepsBounds ==
    ASSUME TypeOK, GuessesBounded, NEW a \in Attempt, RecordFailure(a)
    PROVE  GuessesBounded'
<1>0. PerName \in Nat /\ PerAddress \in Nat
    BY LimitsAssumption
<1>1. /\ \A b \in Attempt : b # a => attempts'[b] = attempts[b]
      /\ ~Checked(a)' /\ Checked(a)
    BY DEF RecordFailure, Goto, TypeOK, Checked, Idle
<1>2. NoneAdmitted
    BY <1>1 DEF NoneAdmitted, Checked
<1>3. CASE UNCHANGED failures
    BY <1>2, <1>3, NothingAdded DEF NoneRecorded
<1>4. ASSUME NEW f \in Failure, failures[f] = None,
             failures' = [failures EXCEPT ![f] =
                 [name |-> attempts[a].name, address |-> attempts[a].address]]
      PROVE  GuessesBounded'
    <2>1. /\ \A g \in Failure : g # f => failures'[g] = failures[g]
          /\ failures'[f].name = attempts[a].name
          /\ failures'[f].address = attempts[a].address
        BY <1>4 DEF TypeOK
    <2>2. ASSUME NEW n \in Name
          PROVE  Bounded(FailuresOf(n)', FlightOf(n)', PerName)
        <3>1. CASE n = attempts[a].name
            <4>1. a \in FlightOf(n) /\ FlightOf(n)' \subseteq FlightOf(n) \ {a}
                BY <1>1, <3>1 DEF FlightOf, Checked
            <4>2. FailuresOf(n)' \subseteq FailuresOf(n) \cup {f}
                BY <2>1 DEF FailuresOf
            <4>3. Bounded(FailuresOf(n) \cup {f}, FlightOf(n)', PerName)
                BY <1>0, <4>1, FlightSets, BoundedMoves
            <4>4. FailuresOf(n) \cup {f} \subseteq Failure
                BY FlightSets
            <4> QED
                BY <1>0, <4>2, <4>3, <4>4, FlightSetsNext, BoundedShrinks
        <3>2. CASE n # attempts[a].name
            <4>1. FailuresOf(n)' \subseteq FailuresOf(n)
                BY <2>1, <3>2 DEF FailuresOf
            <4>2. FlightOf(n)' \subseteq FlightOf(n)
                BY <1>1 DEF FlightOf, Checked
            <4> QED
                BY <1>0, <4>1, <4>2, FlightSets, BoundedShrinks
        <3> QED
            BY <3>1, <3>2
    <2>3. ASSUME NEW d \in Address
          PROVE  Bounded(FailuresFrom(d)', FlightFrom(d)', PerAddress)
        <3>1. CASE d = attempts[a].address
            <4>1. a \in FlightFrom(d) /\ FlightFrom(d)' \subseteq FlightFrom(d) \ {a}
                BY <1>1, <3>1 DEF FlightFrom, Checked
            <4>2. FailuresFrom(d)' \subseteq FailuresFrom(d) \cup {f}
                BY <2>1 DEF FailuresFrom
            <4>3. Bounded(FailuresFrom(d) \cup {f}, FlightFrom(d)', PerAddress)
                BY <1>0, <4>1, FlightSets, BoundedMoves
            <4>4. FailuresFrom(d) \cup {f} \subseteq Failure
                BY FlightSets
            <4> QED
                BY <1>0, <4>2, <4>3, <4>4, FlightSetsNext, BoundedShrinks
        <3>2. CASE d # attempts[a].address
            <4>1. FailuresFrom(d)' \subseteq FailuresFrom(d)
                BY <2>1, <3>2 DEF FailuresFrom
            <4>2. FlightFrom(d)' \subseteq FlightFrom(d)
                BY <1>1 DEF FlightFrom, Checked
            <4> QED
                BY <1>0, <4>1, <4>2, FlightSets, BoundedShrinks
        <3> QED
            BY <3>1, <3>2
    <2> QED
        BY <2>2, <2>3, FlightSetsNext
<1> QED
    BY <1>3, <1>4 DEF RecordFailure

\* Every step keeps the bounds.
LEMMA BoundsAreKept == TypeOK /\ GuessesBounded /\ [Next]_vars => GuessesBounded'
<1> SUFFICES ASSUME TypeOK, GuessesBounded, [Next]_vars
             PROVE  GuessesBounded'
    OBVIOUS
<1>1. CASE UNCHANGED <<attempts, failures>>
    <2>1. NoneAdmitted /\ NoneRecorded
        BY <1>1 DEF NoneAdmitted, NoneRecorded, Checked
    <2> QED
        BY <2>1, NothingAdded
<1>2. ASSUME NEW a \in Attempt,
             \/ AuthenticatePassword(a)
             \/ \E n \in Name : OtherSignIn(a, n)
             \/ ReadPolicy(a)
             \/ \E s \in Session : InsertSession(a, s)
             \/ Leave(a)
      PROVE  GuessesBounded'
    <2>1. NoneRecorded
        BY <1>2 DEF NoneRecorded, AuthenticatePassword, OtherSignIn, ReadPolicy,
                    InsertSession, Leave
    <2>2. \A b \in Attempt : b # a => attempts'[b] = attempts[b]
        BY <1>2 DEF AuthenticatePassword, OtherSignIn, ReadPolicy, InsertSession, Leave,
                    Goto, TypeOK
    <2>3. \/ /\ Checked(a) /\ attempts'[a].name = attempts[a].name
             /\ attempts'[a].address = attempts[a].address
          \/ ~Checked(a)'
        <3>1. CASE AuthenticatePassword(a)
            <4>1. attempts[a] \in Guessing /\ Checked(a)
                BY <3>1, AttemptKinds DEF AuthenticatePassword, Checked
            <4>2. CASE Goto(a, [attempts[a] EXCEPT !.step = "refused"])
                BY <4>1, <4>2 DEF Goto, TypeOK, Guessing
            <4>3. CASE Goto(a, Idle)
                BY <4>3 DEF Goto, TypeOK, Checked, Idle
            <4>4. CASE Goto(a, [step |-> "admitted", name |-> attempts[a].name])
                BY <4>4 DEF Goto, TypeOK, Checked
            <4> QED
                BY <3>1, <4>2, <4>3, <4>4 DEF AuthenticatePassword
        <3>2. CASE ~AuthenticatePassword(a)
            BY <1>2, <3>2 DEF OtherSignIn, ReadPolicy, InsertSession, Leave, Goto, TypeOK,
                              Checked, Idle
        <3> QED
            BY <3>1, <3>2
    <2>4. NoneAdmitted
        BY <2>2, <2>3 DEF NoneAdmitted, Checked
    <2> QED
        BY <2>1, <2>4, NothingAdded
<1>3. CASE \E f \in Failure : LeaveWindow(f)
    <2>1. NoneAdmitted /\ NoneRecorded
        BY <1>3 DEF LeaveWindow, NoneAdmitted, NoneRecorded, Checked, TypeOK
    <2> QED
        BY <2>1, NothingAdded
<1>4. ASSUME NEW limit \in Lifetime, UpdateSessionPolicy(limit)
      PROVE  GuessesBounded'
    <2>1. NoneRecorded
        BY <1>4 DEF UpdateSessionPolicy, NoneRecorded
    <2>2. ASSUME NEW a \in Attempt
          PROVE  attempts'[a] = attempts[a] \/ ~Checked(a)'
        <3>1. CASE attempts[a].step = "starting"
            <4>1. attempts[a] \in Starting
                BY <3>1, AttemptKinds
            <4>2. attempts'[a] = [attempts[a] EXCEPT !.overtaken = TRUE]
                BY <1>4, <3>1 DEF UpdateSessionPolicy
            <4>3. attempts'[a].step = "starting"
                BY <4>1, <4>2 DEF Starting
            <4> QED
                BY <4>3 DEF Checked
        <3>2. CASE attempts[a].step # "starting"
            BY <1>4, <3>2 DEF UpdateSessionPolicy
        <3> QED
            BY <3>1, <3>2
    <2>3. NoneAdmitted
        BY <2>2 DEF NoneAdmitted, Checked
    <2> QED
        BY <2>1, <2>3, NothingAdded
<1> QED
    BY <1>1, <1>2, <1>3, <1>4, LoginKeepsBounds, RecordKeepsBounds
       DEF Next, SignInStep, DisableUser, EndSession, vars, signInVars

\* A username and an address get no more wrong passwords checked than the limit
\* and the requests in flight allow.
THEOREM GuessesAreBounded == Spec => []GuessesBounded
<1>1. Init => TypeOK /\ GuessesBounded
    <2> SUFFICES ASSUME Init
                 PROVE  TypeOK /\ GuessesBounded
        OBVIOUS
    <2>1. TypeOK
        BY DEF Init, TypeOK
    <2>2. /\ \A n : FailuresOf(n) = {} /\ FlightOf(n) = {}
          /\ \A d : FailuresFrom(d) = {} /\ FlightFrom(d) = {}
        BY DEF Init, FailuresOf, FailuresFrom, FlightOf, FlightFrom, Checked, Idle
    <2>3. \A limit \in Nat \ {0} : Bounded({}, {}, limit)
        <3>1. Cardinality({}) = 0 /\ Cardinality(Attempt) \in Nat
            BY FS_EmptySet, FS_CardinalityType, LimitsAssumption
        <3> QED
            BY <3>1 DEF Bounded
    <2> QED
        BY <2>1, <2>2, <2>3, FlightSets, LimitsAssumption
<1>2. TypeOK /\ GuessesBounded /\ [Next]_vars => TypeOK' /\ GuessesBounded'
    BY SignInTypes, BoundsAreKept
<1> QED
    BY <1>1, <1>2, PTL DEF Spec
=============================================================================
