---------------------------- MODULE SingleLogout ----------------------------
(***************************************************************************)
(* What Shauth promises of signing out, as if the browser sessions and the *)
(* applications behind them were in one place: a logout ends every session *)
(* of its account or, when the session that asked was over before, none; a *)
(* logout that was asked for is never dropped and is completed once; and   *)
(* sessions are reported as ended only when no application is signed in    *)
(* under them, which none ever is again.  GlobalLogout implements this     *)
(* with provider sessions, durable grants, leases, retries and handlers    *)
(* that die.                                                               *)
(***************************************************************************)
CONSTANTS User, Session, Grant, None

VARIABLES
  off,       \* disabled accounts
  owner,     \* the account of a browser session
  over,      \* browser sessions that have ended
  pending,   \* logouts that were asked for and are not completed
  ends,      \* the browser sessions such a logout ended
  reported,  \* browser sessions reported as ended everywhere
  signedIn   \* browser sessions under which some application is signed in

vars == <<off, owner, over, pending, ends, reported, signedIn>>

Init ==
  /\ off = {} /\ over = {} /\ pending = {} /\ reported = {} /\ signedIn = {}
  /\ owner = [s \in Session |-> None]
  /\ ends = [g \in Grant |-> {}]

SessionsOf(u) == {s \in Session : owner[s] = u}

\* Somebody signs in to an account that is enabled.
Open(s, u) ==
  /\ owner[s] = None /\ u \notin off
  /\ owner' = [owner EXCEPT ![s] = u]
  /\ UNCHANGED <<off, over, pending, ends, reported, signedIn>>

\* Applications sign in and out, under no session that was reported as ended.
Browse ==
  /\ signedIn' \in SUBSET ({s \in Session : owner[s] # None} \ reported)
  /\ UNCHANGED <<off, owner, over, pending, ends, reported>>

\* Sessions of one account end.
End(u, S) ==
  /\ S \subseteq SessionsOf(u)
  /\ over' = over \cup S
  /\ UNCHANGED <<off, owner, pending, ends, reported, signedIn>>

\* A logout of an account no application of which is signed in.
SignOut(u) ==
  /\ signedIn \cap (SessionsOf(u) \ over) = {}
  /\ over' = over \cup SessionsOf(u)
  /\ reported' = reported \cup (SessionsOf(u) \ over)
  /\ UNCHANGED <<off, owner, pending, ends, signedIn>>

\* A logout that has to reach applications first.
Ask(g, u, S) ==
  /\ g \notin pending
  /\ S \in {{}, SessionsOf(u) \ over}
  /\ over' = over \cup S
  /\ pending' = pending \cup {g}
  /\ ends' = [ends EXCEPT ![g] = S]
  /\ UNCHANGED <<off, owner, reported, signedIn>>

Complete(g) ==
  /\ g \in pending
  /\ signedIn \cap ends[g] = {}
  /\ reported' = reported \cup ends[g]
  /\ pending' = pending \ {g}
  /\ ends' = [ends EXCEPT ![g] = {}]
  /\ UNCHANGED <<off, owner, over, signedIn>>

\* An administrator's revocation is reported.
Report(S) ==
  /\ S \subseteq over
  /\ signedIn' \in SUBSET (signedIn \ S)
  /\ reported' = reported \cup S
  /\ UNCHANGED <<off, owner, over, pending, ends>>

Disable(u) ==
  /\ off' = off \cup {u}
  /\ over' = over \cup SessionsOf(u)
  /\ UNCHANGED <<owner, pending, ends, reported, signedIn>>

Enable(u) ==
  /\ off' = off \ {u}
  /\ UNCHANGED <<owner, over, pending, ends, reported, signedIn>>

Next ==
  \/ \E u \in User :
       \/ \E s \in Session : Open(s, u)
       \/ \E S \in SUBSET Session : End(u, S) \/ \E g \in Grant : Ask(g, u, S)
       \/ SignOut(u) \/ Disable(u) \/ Enable(u)
  \/ \E g \in Grant : Complete(g)
  \/ \E S \in SUBSET Session : Report(S)
  \/ Browse

Spec == Init /\ [][Next]_vars
=============================================================================
