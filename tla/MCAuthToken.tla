---------------------------- MODULE MCAuthToken ----------------------------
(* Instances of AuthToken for TLC: accounts and platforms are model values. *)
EXTENDS AuthToken, TLC

CONSTANTS u1, u2, p1, p2

\* u1 may hold one session in all; u2 is UNLIMITED.
LimitOnlyOne == [u \in Users |-> IF u = u1 THEN ONLY_ONE ELSE UNLIMITED]

\* u1 may hold one session per platform.
LimitPlatformOne == [u \in Users |-> IF u = u1 THEN PLATFORM_ONE ELSE UNLIMITED]

\* Schedule restriction: every checkLoginLimit goroutine finishes before
\* the clock ticks or the next sign-in starts, i.e. goroutines are prompt
\* relative to the token lifetimes. Used to show a violation needs no
\* goroutine delayed across an access TTL.
PromptGoroutines ==
    (now' # now \/ Len(signs') # Len(signs)) =>
        \A n \in 1..Len(signs) : signs[n].pc \in {"sign_failed", "done"}

=============================================================================
