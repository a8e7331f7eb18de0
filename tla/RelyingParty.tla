---------------------------- MODULE RelyingParty ----------------------------
(***************************************************************************)
(* What global logout needs of an application: a provider session it was   *)
(* told to log out is logged out for good.  Gateway implements this with   *)
(* tombstones that expire, callbacks that are under way and deliveries     *)
(* that are repeated; GlobalLogout relies on it.                           *)
(***************************************************************************)
CONSTANT Sid            \* the provider's sessions

VARIABLES session,      \* those with a session at the application
          out           \* those the application was told to log out

Init == session = {} /\ out = {}

\* Somebody signs in, under a provider session that was not logged out.
Establish(s) == s \notin out /\ session' = session \cup {s} /\ UNCHANGED out

\* Sessions end: by their expiry, by the person, or by being replaced.
End == session' \in SUBSET session /\ UNCHANGED out

LogOut(s) == session' = session \ {s} /\ out' = out \cup {s}

Next == End \/ \E s \in Sid : Establish(s) \/ LogOut(s)

Spec == Init /\ [][Next]_<<session, out>>
=============================================================================
