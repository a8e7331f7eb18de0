--------------------------- MODULE MCGitHubAccess ---------------------------
(* A user rule recorded before IDs were kept, and a rule of any kind that   *)
(* is yet to be created.                                                    *)
EXTENDS GitHubAccess, TLC

CONSTANTS l1, r1, r2

Old == [kind |-> "user", target |-> l1, id |-> NoUser, role |-> "developer"]

Seeded == {(r1 :> Unmade) @@ (r2 :> Old)}

Alike == Permutations(SignIn) \cup Permutations(User)
=============================================================================
