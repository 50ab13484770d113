------------------------------ MODULE AuthToken ------------------------------
(***************************************************************************)
(* authRepo of src/auth/auth_token.pkg.go: SignToken, the goroutine it     *)
(* starts (afterSignToken = checkLoginLimit then deleteExpireTokens) and   *)
(* VerifyToken, over the token store (TokenManger, whose code is not in    *)
(* src/ and is modelled from the contract of spec.md section 6).           *)
(*                                                                         *)
(* Every store call is one atomic step; the steps of one background task   *)
(* interleave freely with other sign-ins, other tasks and verifications.   *)
(* Token ids are sign numbers: sign n issues access id <<"access", n>>     *)
(* and refresh id <<"refresh", n>>.                                        *)
(***************************************************************************)
EXTENDS Naturals, Sequences, FiniteSets, FiniteSetsExt

CONSTANTS
    Users,                 \* values of Payload.UserIdentifier()
    Platforms,             \* values of Payload.LoginPlatform
    LoginLimit,            \* [Users -> LimitKinds]: the account's Payload.LoginLimit
    MaxSigns,              \* number of SignToken calls (bounds token ids)
    AccessTTL,             \* authClaims.ExpiresAt - issue time
    RefreshTTL,            \* refreshClaims.ExpiresAt - issue time
    MaxTime,               \* bound of the clock
    MaxStoreFailures,      \* bound on store calls that return an error
    CtxCancelledOnReturn,  \* the ctx given to SignToken ends when the request returns
    RefreshKeyedByTokenID, \* the store keys every item by its TokenID field
    VerifiedKinds          \* the kinds of claims callers pass to VerifyToken

UNLIMITED    == "UNLIMITED"
ONLY_ONE     == "ONLY_ONE"
PLATFORM_ONE == "PLATFORM_ONE"
LimitKinds   == {UNLIMITED, ONLY_ONE, PLATFORM_ONE}

ASSUME /\ LoginLimit \in [Users -> LimitKinds]
       /\ MaxSigns \in Nat \ {0}
       /\ AccessTTL \in Nat \ {0} /\ RefreshTTL \in Nat /\ AccessTTL < RefreshTTL
       /\ MaxTime \in Nat /\ MaxStoreFailures \in Nat
       /\ CtxCancelledOnReturn \in BOOLEAN /\ RefreshKeyedByTokenID \in BOOLEAN
       /\ VerifiedKinds \subseteq {"access", "refresh"}

SignIds    == 1..MaxSigns
AccessKey(n)  == <<"access", n>>
RefreshKey(n) == <<"refresh", n>>
Keys       == {AccessKey(n) : n \in SignIds} \cup {RefreshKey(n) : n \in SignIds}
\* The claims VerifyToken is given: those of an access token, or those
\* DecodeRefreshToken returns for the refresh token of the same sign.
TokenKinds == {"access", "refresh"}
TokenKey(n, kind) == IF kind = "access" THEN AccessKey(n) ELSE RefreshKey(n)
Times      == 0..(MaxTime + RefreshTTL)

\* TokenItem: the Payload is abstracted to the user and the login platform.
Items == [TokenID : Keys, RefreshTokenID : Keys, ExpiredAt : Times,
          IsRefreshToken : BOOLEAN, User : Users, Platform : Platforms]

\* Control points of one SignToken call and of the goroutine it starts.
TaskPcs == {"sign_failed", "check", "add_blacklist", "add_limit",
            "prune_read", "prune_delete", "done"}

VARIABLES
    tokens,     \* tokens[u]: the user's token set (GetAllTokens)
    blacklist,  \* store keys added by AddBlacklist (IsBlacklist)
    limits,     \* items added by AddLoginLimit
    now,        \* time.Now().Unix()
    signs,      \* signs[n]: SignToken call n and its background task
    verify,     \* one VerifyToken call: control point, token, last result
    failures    \* store calls that have failed so far

vars == <<tokens, blacklist, limits, now, signs, verify, failures>>

-----------------------------------------------------------------------------
(* The token store contract (spec.md section 6).                           *)

\* The key under which the store files an item. The refresh item carries
\* its sibling's id as TokenID; checkLoginLimit finds it under its own id.
StoreKey(item) ==
    IF item.IsRefreshToken /\ ~RefreshKeyedByTokenID
    THEN item.RefreshTokenID ELSE item.TokenID

StoredKeys(set) == {StoreKey(i) : i \in set}

\* An upsert of one item: it replaces the item filed under the same key.
Upsert(set, item) == {i \in set : StoreKey(i) # StoreKey(item)} \cup {item}

\* SaveTokens writes the items in order as one call.
SaveTokens(set, acc, ref) == Upsert(Upsert(set, acc), ref)

\* DeleteTokens removes the fields of the given items.
DeleteTokens(set, del) == {i \in set : StoreKey(i) \notin StoredKeys(del)}

-----------------------------------------------------------------------------
(* Steps of authRepo.                                                      *)

Claim(n) == signs[n]

\* Fault variant of IsLimit: platforms are not compared.
IsLimitAnyPlatform(limit, platform, item) == limit \in {ONLY_ONE, PLATFORM_ONE}

\* The isLimit switch of checkLoginLimit for one access item of the snapshot.
IsLimit(limit, platform, item) ==
    \/ limit = ONLY_ONE
    \/ limit = PLATFORM_ONE /\ platform = item.Platform

\* Fault variant of LimitList: the refresh-token test is inverted.
LimitListRefreshOnly(n, all) ==
    {i \in all : /\ i.IsRefreshToken
                 /\ i.TokenID # AccessKey(n)
                 /\ IsLimit(LoginLimit[Claim(n).user], Claim(n).platform, i)}

\* The access items the loop of checkLoginLimit puts on both lists.
LimitList(n, all) ==
    {i \in all : /\ ~i.IsRefreshToken
                 /\ i.TokenID # AccessKey(n)
                 /\ IsLimit(LoginLimit[Claim(n).user], Claim(n).platform, i)}

\* Fault variant of BlackList: the sibling refresh item is not added.
BlackListNoSibling(n, all) == LimitList(n, all)

\* The blacklist: the limit list and each sibling found in the snapshot.
BlackList(n, all) ==
    LimitList(n, all) \cup
        {s \in all : \E i \in LimitList(n, all) : StoreKey(s) = i.RefreshTokenID}

\* Fault variant of IsExpired: an item is pruned one second early.
IsExpiredEarly(item, nowUnix) == ~(item.ExpiredAt > nowUnix + 1)

\* deleteExpireTokens keeps an item when ExpiredAt > nowUnix.
IsExpired(item, nowUnix) == ~(item.ExpiredAt > nowUnix)

ExpireList(all, nowUnix) == {i \in all : IsExpired(i, nowUnix)}

\* Outcomes of a store call made with the ctx of task n.
Outcomes(n) ==
    IF signs[n].ctxDone THEN {"ctx_canceled"}
    ELSE {"ok"} \cup (IF failures < MaxStoreFailures THEN {"error"} ELSE {})

\* Only store errors count against the bound; a cancelled ctx always fails.
Failed(o) == failures' = IF o = "error" THEN failures + 1 ELSE failures

SetPc(n, pc) == [signs EXCEPT ![n].pc = pc]

NoTask == [user |-> CHOOSE u \in Users : TRUE, platform |-> CHOOSE p \in Platforms : TRUE,
           exp |-> 0, rexp |-> 0, pc |-> "sign_failed", ctxDone |-> TRUE, blist |-> {}, llist |-> {},
           expireList |-> {}, limitCall |-> "none"]

Init ==
    /\ tokens = [u \in Users |-> {}]
    /\ blacklist = {}
    /\ limits = {}
    /\ now = 0
    /\ signs = <<>>
    /\ verify = [pc |-> "idle", tok |-> 0, kind |-> "access", res |-> "none"]
    /\ failures = 0

\* Fault variant of AccessItem: ExpiredAt taken from the issue time.
AccessItemIssuedAt(n, u, p) ==
    [TokenID |-> AccessKey(n), RefreshTokenID |-> RefreshKey(n),
     ExpiredAt |-> now, IsRefreshToken |-> FALSE, User |-> u, Platform |-> p]

\* The two cross-linked TokenItems of sign n.
AccessItem(n, u, p) ==
    [TokenID |-> AccessKey(n), RefreshTokenID |-> RefreshKey(n),
     ExpiredAt |-> now + AccessTTL, IsRefreshToken |-> FALSE, User |-> u, Platform |-> p]

\* Fault variant of RefreshItem: the refresh expiry counts from the access expiry.
RefreshItemFromAccessExpiry(n, u, p) ==
    [AccessItem(n, u, p) EXCEPT !.ExpiredAt = @ + RefreshTTL, !.IsRefreshToken = TRUE]

RefreshItem(n, u, p) ==
    [AccessItem(n, u, p) EXCEPT !.ExpiredAt = now + RefreshTTL, !.IsRefreshToken = TRUE]

\* SignToken: a fresh id, the two cross-linked items written by one
\* SaveTokens; on success the goroutine running afterSignToken starts.
SignToken(u, p) ==
    LET n   == Len(signs) + 1
        acc == AccessItem(n, u, p)
        ref == RefreshItem(n, u, p)
        call == [NoTask EXCEPT !.user = u, !.platform = p, !.exp = now + AccessTTL,
                               !.rexp = now + RefreshTTL, !.ctxDone = FALSE]
    IN
    /\ Len(signs) < MaxSigns
    /\ \/ /\ failures < MaxStoreFailures
          /\ signs' = Append(signs, call)
          /\ failures' = failures + 1
          /\ UNCHANGED tokens
       \/ /\ tokens' = [tokens EXCEPT ![u] = SaveTokens(@, acc, ref)]
          /\ signs' = Append(signs, [call EXCEPT !.pc = "check"])
          /\ UNCHANGED failures
    /\ UNCHANGED <<blacklist, limits, now, verify>>

\* The request that called SignToken returns and its ctx is cancelled.
RequestReturn(n) ==
    /\ CtxCancelledOnReturn
    /\ signs[n].pc \notin {"sign_failed", "done"}
    /\ ~signs[n].ctxDone
    /\ signs' = [signs EXCEPT ![n].ctxDone = TRUE]
    /\ UNCHANGED <<tokens, blacklist, limits, now, verify, failures>>

\* checkLoginLimit returns at once for an UNLIMITED account.
CheckLoginLimitUnlimited(n) ==
    /\ signs[n].pc = "check"
    /\ LoginLimit[signs[n].user] = UNLIMITED
    /\ signs' = SetPc(n, "prune_read")
    /\ UNCHANGED <<tokens, blacklist, limits, now, verify, failures>>

\* checkLoginLimit: GetAllTokens, then the loop building both lists.
CheckLoginLimitRead(n) ==
    /\ signs[n].pc = "check"
    /\ LoginLimit[signs[n].user] # UNLIMITED
    /\ \E o \in Outcomes(n) :
          /\ signs' = IF o = "ok"
                      THEN LET all == tokens[signs[n].user] IN
                           [signs EXCEPT ![n].pc = "add_blacklist",
                                         ![n].blist = BlackList(n, all),
                                         ![n].llist = LimitList(n, all),
                                         ![n].limitCall =
                                            IF LimitList(n, all) = {} THEN "none"
                                            ELSE "pending"]
                      ELSE SetPc(n, "prune_read")
          /\ Failed(o)
    /\ UNCHANGED <<tokens, blacklist, limits, now, verify>>

\* AddBlacklist; on error checkLoginLimit returns before AddLoginLimit.
CheckLoginLimitAddBlacklist(n) ==
    /\ signs[n].pc = "add_blacklist"
    /\ \E o \in Outcomes(n) :
          /\ blacklist' = IF o = "ok" THEN blacklist \cup StoredKeys(signs[n].blist)
                          ELSE blacklist
          /\ signs' = IF o = "ok"
                      THEN [signs EXCEPT ![n].pc = "add_limit", ![n].blist = {}]
                      ELSE [signs EXCEPT ![n].pc = "prune_read", ![n].blist = {},
                                         ![n].llist = {}]
          /\ Failed(o)
    /\ UNCHANGED <<tokens, limits, now, verify>>

\* AddLoginLimit, the last call of checkLoginLimit.
CheckLoginLimitAddLimit(n) ==
    /\ signs[n].pc = "add_limit"
    /\ \E o \in Outcomes(n) :
          /\ limits' = IF o = "ok" THEN limits \cup signs[n].llist ELSE limits
          /\ signs' = [signs EXCEPT ![n].pc = "prune_read", ![n].llist = {},
                                     ![n].limitCall = o]
          /\ Failed(o)
    /\ UNCHANGED <<tokens, blacklist, now, verify>>

\* deleteExpireTokens: nowUnix, GetAllTokens and the expired subset.
DeleteExpireTokensRead(n) ==
    /\ signs[n].pc = "prune_read"
    /\ \E o \in Outcomes(n) :
          /\ signs' = IF o = "ok"
                      THEN [signs EXCEPT ![n].pc = "prune_delete",
                               ![n].expireList = ExpireList(tokens[signs[n].user], now)]
                      ELSE SetPc(n, "done")
          /\ Failed(o)
    /\ UNCHANGED <<tokens, blacklist, limits, now, verify>>

\* deleteExpireTokens: one DeleteTokens of the whole expired subset.
DeleteExpireTokensDelete(n) ==
    /\ signs[n].pc = "prune_delete"
    /\ \E o \in Outcomes(n) :
          /\ tokens' = IF o = "ok"
                       THEN [tokens EXCEPT ![signs[n].user] =
                                DeleteTokens(@, signs[n].expireList)]
                       ELSE tokens
          /\ signs' = [signs EXCEPT ![n].pc = "done", ![n].expireList = {}]
          /\ Failed(o)
    /\ UNCHANGED <<blacklist, limits, now, verify>>

\* Outcomes of a store call made with a verifying request's own ctx.
VerifyOutcomes == {"ok"} \cup (IF failures < MaxStoreFailures THEN {"error"} ELSE {})

\* DecodeAccessToken (and the hook's jwt parse): the signature of an issued
\* token checks, so the result is claims.Valid, ExpiresAt after now. The
\* expiry is in whole seconds, so with now = time.Now().Unix() this is
\* now < exp.
DecodeAccessToken(n) == now < signs[n].exp

\* DecodeRefreshToken: decryption and decoding of an issued token succeed;
\* claims.Valid checks the refresh claims' expiry. No store is read.
DecodeRefreshToken(n) == now < signs[n].rexp

\* Token kind of sign n is decoded and VerifyToken reads IsBlacklist for
\* the claims' ID.
VerifyTokenBlacklist(n, kind) ==
    LET valid == IF kind = "access" THEN DecodeAccessToken(n) ELSE DecodeRefreshToken(n)
        call  == [pc |-> "idle", tok |-> n, kind |-> kind, res |-> "none"]
    IN
    /\ verify.pc = "idle"
    /\ signs[n].pc # "sign_failed"
    /\ \E o \in VerifyOutcomes :
          /\ verify' =
               IF ~valid THEN [call EXCEPT !.res = "invalid"]
               ELSE IF o = "error" THEN [call EXCEPT !.res = "invalid_claims"]
               ELSE IF TokenKey(n, kind) \in blacklist
                    THEN [call EXCEPT !.res = "blacklist"]
                    ELSE [call EXCEPT !.pc = "whitelist"]
          /\ Failed(IF valid THEN o ELSE "ok")
    /\ UNCHANGED <<tokens, blacklist, limits, now, signs>>

\* VerifyToken reads IsExistToken for the claims' user and ID.
VerifyTokenWhitelist ==
    /\ verify.pc = "whitelist"
    /\ \E o \in VerifyOutcomes :
          /\ verify' = [verify EXCEPT !.pc = "idle",
                        !.res = IF o = "error" THEN "invalid_claims"
                                ELSE IF TokenKey(verify.tok, verify.kind) \in
                                          StoredKeys(tokens[signs[verify.tok].user])
                                     THEN "ok" ELSE "whitelist"]
          /\ Failed(o)
    /\ UNCHANGED <<tokens, blacklist, limits, now, signs>>

Tick ==
    /\ now < MaxTime
    /\ now' = now + 1
    /\ UNCHANGED <<tokens, blacklist, limits, signs, verify, failures>>

\* Every step of the goroutine started by SignToken n.
TaskStep(n) ==
    \/ CheckLoginLimitUnlimited(n)
    \/ CheckLoginLimitRead(n)
    \/ CheckLoginLimitAddBlacklist(n)
    \/ CheckLoginLimitAddLimit(n)
    \/ DeleteExpireTokensRead(n)
    \/ DeleteExpireTokensDelete(n)

Next ==
    \/ \E u \in Users, p \in Platforms : SignToken(u, p)
    \/ \E n \in 1..Len(signs) : RequestReturn(n)
    \/ \E n \in 1..Len(signs) : CheckLoginLimitUnlimited(n)
    \/ \E n \in 1..Len(signs) : CheckLoginLimitRead(n)
    \/ \E n \in 1..Len(signs) : CheckLoginLimitAddBlacklist(n)
    \/ \E n \in 1..Len(signs) : CheckLoginLimitAddLimit(n)
    \/ \E n \in 1..Len(signs) : DeleteExpireTokensRead(n)
    \/ \E n \in 1..Len(signs) : DeleteExpireTokensDelete(n)
    \/ \E n \in 1..Len(signs), kind \in VerifiedKinds : VerifyTokenBlacklist(n, kind)
    \/ VerifyTokenWhitelist
    \/ Tick

\* The Go scheduler runs every started goroutine and every store call
\* returns; a request handler returns after SignToken does.
\* Fault variant of Fairness: the goroutine SignToken hands to GoSafe is
\* never run.
FairnessGoroutineNotRun ==
    \A n \in SignIds : WF_vars(n <= Len(signs) /\ RequestReturn(n))

Fairness ==
    \A n \in SignIds :
        /\ WF_vars(n <= Len(signs) /\ TaskStep(n))
        /\ WF_vars(n <= Len(signs) /\ RequestReturn(n))

Spec == Init /\ [][Next]_vars /\ Fairness

-----------------------------------------------------------------------------
(* Properties.                                                             *)

TypeOK ==
    /\ tokens \in [Users -> SUBSET Items]
    /\ blacklist \subseteq Keys
    /\ limits \subseteq Items
    /\ now \in 0..MaxTime
    /\ Len(signs) <= MaxSigns
    /\ \A n \in 1..Len(signs) :
          /\ signs[n].user \in Users /\ signs[n].platform \in Platforms
          /\ signs[n].pc \in TaskPcs /\ signs[n].ctxDone \in BOOLEAN
          /\ signs[n].blist \subseteq Items /\ signs[n].llist \subseteq Items
          /\ signs[n].expireList \subseteq Items
          /\ signs[n].limitCall \in {"none", "pending", "ok", "error", "ctx_canceled"}
    /\ verify.pc \in {"idle", "whitelist"} /\ verify.kind \in TokenKinds
    /\ failures \in 0..MaxStoreFailures

\* Sign n returned tokens to its caller.
Saved(n) == n \in 1..Len(signs) /\ signs[n].pc # "sign_failed"

\* The sessions view of the store: issued sessions, the ones whose access
\* token is still in the token set, and the blacklisted ones.
SavedIds == {n \in 1..Len(signs) : Saved(n)}

Sessions == INSTANCE LoginSessions WITH
    SessionIds <- SignIds,
    Expiries   <- Times,
    sessions   <- [n \in SavedIds |->
                     [user |-> signs[n].user, platform |-> signs[n].platform,
                      exp |-> signs[n].exp]],
    live       <- {n \in SavedIds : AccessKey(n) \in StoredKeys(tokens[signs[n].user])},
    revoked    <- {n \in SavedIds : AccessKey(n) \in blacklist}

\* authRepo implements LoginSessions: every SignToken, goroutine step and
\* verification is a Login, a Revoke of policy-conflicting sessions, a
\* Forget of expired sessions, or leaves the sessions view unchanged.
ImplementsLoginSessions == Sessions!Spec

\* Sessions n and m of one account may not both stay logged in.
Conflicts(n, m) ==
    /\ signs[n].user = signs[m].user
    /\ \/ LoginLimit[signs[n].user] = ONLY_ONE
       \/ LoginLimit[signs[n].user] = PLATFORM_ONE /\ signs[n].platform = signs[m].platform

\* Token kind of sign n decodes and passes VerifyToken now.
Usable(n, kind) ==
    /\ Saved(n)
    /\ IF kind = "access" THEN DecodeAccessToken(n) ELSE DecodeRefreshToken(n)
    /\ TokenKey(n, kind) \notin blacklist
    /\ TokenKey(n, kind) \in StoredKeys(tokens[signs[n].user])

\* Access token n passes the hook's parse and VerifyToken now.
Accepted(n) == Usable(n, "access")

\* No background task of an account is still running.
Settled(u) == \A n \in 1..Len(signs) :
                 signs[n].user = u => signs[n].pc \in {"sign_failed", "done"}

\* Once every goroutine started by SignToken for an account has finished,
\* no two sessions the account's LoginLimit forbids together are both
\* accepted by VerifyToken (checkLoginLimit reads a snapshot that may be
\* stale by the time it writes the blacklist).
SettledWithinLimit ==
    \A u \in Users : Settled(u) =>
        \A n, m \in 1..Len(signs) :
            (n # m /\ signs[n].user = u /\ Accepted(n) /\ Accepted(m))
                => ~Conflicts(n, m)

\* Spec 2 and 8: the verifier checks the revocation of refresh tokens too,
\* and a second sign-in of an ONLY_ONE account revokes the first token and
\* its refresh sibling. Once every goroutine of an account has finished, no
\* two sessions its LoginLimit forbids together both hold a token, access
\* or refresh, that decodes and passes VerifyToken (checkLoginLimit reaches
\* a refresh item only through its access item in the snapshot).
SettledWithinLimitAnyToken ==
    \A u \in Users : Settled(u) =>
        \A n, m \in 1..Len(signs) :
            (/\ n # m /\ signs[n].user = u
             /\ \E k \in TokenKinds : Usable(n, k)
             /\ \E k \in TokenKinds : Usable(m, k))
                => ~Conflicts(n, m)

\* checkLoginLimit blacklists a token (access or refresh) only when another
\* session of the same account conflicts with it under the account's
\* LoginLimit: no token is revoked without a policy reason.
RevokedOnlyByPolicy ==
    \A k \in blacklist : \E n, m \in 1..Len(signs) :
        /\ k \in {AccessKey(n), RefreshKey(n)}
        /\ Saved(n) /\ Saved(m) /\ n # m
        /\ Conflicts(n, m)

\* When checkLoginLimit revokes an access token it revokes the refresh
\* token of the same pair in the same AddBlacklist call (spec 8: "the
\* first access token and its refresh sibling are both in the blacklist").
SiblingRevokedTogether ==
    \A n \in 1..Len(signs) :
        AccessKey(n) \in blacklist => RefreshKey(n) \in blacklist

\* Pruning never removes a stored token, access or refresh, that jwt would
\* still accept: deleteExpireTokens' whole-second test ExpiredAt <= nowUnix
\* (line 180), made on a clock read taken in an earlier step, agrees with
\* claims.Valid's now < exp at the moment the item disappears.
PrunesOnlyUndecodable ==
    [][\A n \in 1..Len(signs), k \in TokenKinds :
          (/\ Saved(n)
           /\ TokenKey(n, k) \in StoredKeys(tokens[signs[n].user])
           /\ TokenKey(n, k) \notin StoredKeys(tokens'[signs[n].user]))
            => ~IF k = "access" THEN DecodeAccessToken(n)
                                ELSE DecodeRefreshToken(n)]_tokens

\* Every earlier session that conflicts with session n is revoked or gone.
Enforced(n) ==
    n <= Len(signs) /\
    \A m \in 1..(n - 1) :
        (Saved(m) /\ Conflicts(n, m)) =>
            \/ AccessKey(m) \in blacklist
            \/ AccessKey(m) \notin StoredKeys(tokens[signs[m].user])

\* After a successful SignToken, the login limit is eventually enforced
\* against every earlier conflicting session of the account (the
\* asynchronous checkLoginLimit eventually takes effect).
LimitEventuallyEnforced ==
    \A n \in SignIds : (n <= Len(signs) /\ Saved(n)) ~> Enforced(n)

\* Spec 8: after a second sign-in VerifyToken still accepts the newest
\* session; the newest session of an account is never blacklisted.
NewestSessionSurvives ==
    \A u \in Users :
        LET mine == {n \in 1..Len(signs) : Saved(n) /\ signs[n].user = u}
        IN mine # {} => AccessKey(Max(mine)) \notin blacklist

\* Spec 4.2: the blacklist and the login-limit writes are both attempted
\* even if one fails; a finished check that found violations has called
\* AddLoginLimit.
LimitWriteAttempted ==
    \A n \in 1..Len(signs) :
        signs[n].pc = "done" => signs[n].limitCall # "pending"

=============================================================================
