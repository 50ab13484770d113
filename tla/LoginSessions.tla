---------------------------- MODULE LoginSessions ----------------------------
(***************************************************************************)
(* What the token core promises about login sessions, without tokens,      *)
(* stores or goroutines (spec.md sections 3, 4.2 and 4.3): a sign-in adds  *)
(* one fresh live session; a session is revoked only when another session  *)
(* of the same account conflicts with it under the account's login limit;  *)
(* a session leaves the live set only once it has expired.                 *)
(***************************************************************************)
EXTENDS Naturals

CONSTANTS
    Users, Platforms, LoginLimit, SessionIds, Expiries, MaxTime

VARIABLES
    sessions,  \* sessions[id]: user, platform and expiry of an issued session
    live,      \* ids whose access token is in the live token set
    revoked,   \* ids on the blacklist
    now

vars == <<sessions, live, revoked, now>>

Issued == DOMAIN sessions

\* Sessions a and b of one account may not both stay logged in.
Conflict(a, b) ==
    /\ sessions[a].user = sessions[b].user
    /\ \/ LoginLimit[sessions[a].user] = "ONLY_ONE"
       \/ /\ LoginLimit[sessions[a].user] = "PLATFORM_ONE"
          /\ sessions[a].platform = sessions[b].platform

Init ==
    /\ sessions = [id \in {} |-> {}]
    /\ live = {}
    /\ revoked = {}
    /\ now = 0

\* A sign-in issues a fresh session that is live at once.
Login(id, u, p, exp) ==
    /\ id \in SessionIds \ Issued
    /\ sessions' = [i \in Issued \cup {id} |->
                      IF i = id THEN [user |-> u, platform |-> p, exp |-> exp]
                      ELSE sessions[i]]
    /\ live' = live \cup {id}
    /\ UNCHANGED <<revoked, now>>

\* Revocation of sessions that each conflict with another issued session.
Revoke(R) ==
    /\ R # {}
    /\ R \subseteq Issued
    /\ \A r \in R : \E o \in Issued \ {r} : Conflict(r, o)
    /\ revoked' = revoked \cup R
    /\ UNCHANGED <<sessions, live, now>>

\* Expired sessions leave the live set.
Forget(F) ==
    /\ F # {}
    /\ F \subseteq live
    /\ \A f \in F : sessions[f].exp <= now
    /\ live' = live \ F
    /\ UNCHANGED <<sessions, revoked, now>>

Tick ==
    /\ now < MaxTime
    /\ now' = now + 1
    /\ UNCHANGED <<sessions, live, revoked>>

Next ==
    \/ \E id \in SessionIds, u \in Users, p \in Platforms, exp \in Expiries :
          Login(id, u, p, exp)
    \/ \E R \in SUBSET SessionIds : Revoke(R)
    \/ \E F \in SUBSET SessionIds : Forget(F)
    \/ Tick

Spec == Init /\ [][Next]_vars

=============================================================================
