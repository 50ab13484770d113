------------------------------ MODULE ErrorMeta ------------------------------
(***************************************************************************)
(* The error meta chain of src/error/error.meta.pkg.go (NewErrorMetaInfo,  *)
(* analyse, Leaf, ClearMeta, errorChain, with MetaFromError of            *)
(* error.meta.info.pkg.go) and its use by the four logging middlewares:    *)
(* ServerLog and ClientLog of src/app/app_logging.pkg.go, Server and       *)
(* ClientLogging of src/middleware/middleware_logging.pkg.go.              *)
(*                                                                         *)
(* An error value is its Unwrap chain, outermost level first; <<>> is nil. *)
(* Each level is one of the kinds below; errors.As(e, &se) finds the first *)
(* *errors.Error level at or below e.  The metadata strings are abstracted *)
(* away: a MetaInfo is the index of the level it was built from.          *)
(***************************************************************************)
EXTENDS Naturals, Sequences, SequencesExt

CONSTANTS
    MaxDepth,     \* longest Unwrap chain a handler returns
    HandlerErrors \* the chains the handlers may return (a subset of Errors)

KRATOS == "kratos"  \* *errors.Error whose Metadata has no MetaDataKey
META   == "meta"    \* *errors.Error whose Metadata has MetaDataKey
WRAP   == "wrap"    \* another error with a cause (fmt.Errorf with %w)
PLAIN  == "plain"   \* another error without a cause
STATUS == "status"  \* a gRPC status error whose metadata has BizCodeKey
Kinds  == {KRATOS, META, WRAP, PLAIN, STATUS}

\* Only a WRAP or an *errors.Error has a cause.
WellFormed(c) ==
    \A i \in 1..Len(c) :
        /\ c[i] = WRAP => i < Len(c)
        /\ c[i] \in {PLAIN, STATUS} => i = Len(c)

Errors == {c \in SeqOf(Kinds, MaxDepth) : WellFormed(c)}

ASSUME MaxDepth \in Nat /\ HandlerErrors \subseteq Errors

-----------------------------------------------------------------------------
(* errors.As, IsEmptyError and errors.FromError over chains.               *)

IsSe(k) == k \in {KRATOS, META}

\* errors.As(level i and below, &se): the level found, 0 when none is.
AsFrom(c, i) == SelectInSubSeq(c, i, Len(c), IsSe)

IsEmptyError(c) == c = <<>>

\* errors.FromError of an error with no *errors.Error in its chain keeps
\* the BizCodeKey metadata of a gRPC status.
HasBizStatus(c) == \E i \in 1..Len(c) : c[i] = STATUS

\* MetaFromError(level i): the MetaInfo of the first *errors.Error at or
\* below i, else of a gRPC status with a BizCodeKey, else nil (0).
MetaFromError(c, i) ==
    CASE AsFrom(c, i) # 0 -> AsFrom(c, i)
      [] HasBizStatus(SubSeq(c, i, Len(c))) -> Len(c)
      [] OTHER -> 0

-----------------------------------------------------------------------------
(* ErrorMetaInfo.analyse                                                   *)

\* Fault variant of AnalyseFrom: the level found below a meta cause is
\* examined itself instead of being skipped to its cause.
RECURSIVE AnalyseFromEveryLevel(_, _)
AnalyseFromEveryLevel(c, se) ==
    LET deepSe == AsFrom(c, se + 1)
    IN  IF se + 1 > Len(c) THEN <<se>>
        ELSE IF deepSe = 0 THEN <<>>
        ELSE (IF c[deepSe] = META THEN <<deepSe>> ELSE <<>>)
                 \o AnalyseFromEveryLevel(c, deepSe)

\* Fault variant of AnalyseFrom: at the end of the chain the nil cause
\* below se is added instead of se.
RECURSIVE AnalyseFromAddsNilCause(_, _)
AnalyseFromAddsNilCause(c, se) ==
    LET deepSe == AsFrom(c, se + 1)
        next   == AsFrom(c, deepSe + 1)
    IN  IF se + 1 > Len(c) THEN <<se + 1>>
        ELSE IF deepSe = 0 THEN <<>>
        ELSE (IF c[deepSe] = META THEN <<deepSe>> ELSE <<>>)
                 \o (IF next = 0 THEN <<>> ELSE AnalyseFromAddsNilCause(c, next))

\* The loop of analyse from the *errors.Error at level se: the levels it
\* appends to WrapperStack.  se.Unwrap() is level se+1; when its first
\* *errors.Error deepSe is a meta error it is added, and the loop goes on
\* from the first *errors.Error below deepSe.  (The metadata copied between
\* se and deepSe at lines 120-124 changes no level's kind.)
RECURSIVE AnalyseFrom(_, _)
AnalyseFrom(c, se) ==
    LET deepSe == AsFrom(c, se + 1)
        next   == AsFrom(c, deepSe + 1)
    IN  IF se + 1 > Len(c) THEN <<se>>
        ELSE IF deepSe = 0 THEN <<>>
        ELSE (IF c[deepSe] = META THEN <<deepSe>> ELSE <<>>)
                 \o (IF next = 0 THEN <<>> ELSE AnalyseFrom(c, next))

\* analyse: without an *errors.Error only a client-side status with a
\* BizCodeKey is accepted; otherwise the loop runs from the first one.
\* ok is "analyse returned nil", stack the WrapperStack, outermost first.
Analyse(c) ==
    IF AsFrom(c, 1) = 0
    THEN IF HasBizStatus(c) THEN [ok |-> TRUE, stack |-> <<MetaFromError(c, 1)>>]
         ELSE [ok |-> FALSE, stack |-> <<>>]
    ELSE [ok |-> TRUE, stack |-> AnalyseFrom(c, AsFrom(c, 1))]

\* NewErrorMetaInfo rejects a nil error, else returns analyse's result.
NewErrorMetaInfo(c) ==
    IF IsEmptyError(c) THEN [ok |-> FALSE, stack |-> <<>>] ELSE Analyse(c)

\* Leaf: the last WrapperStack entry, 0 (nil) when the stack is empty.
Leaf(stack) == IF stack = <<>> THEN 0 ELSE Last(stack)

-----------------------------------------------------------------------------
(* ClearMeta and errorChain build new errors from the levels of c: a value *)
(* is the sequence of the levels of c it consists of, outermost first.     *)

Levels(c) == [i \in 1..Len(c) |-> i]

\* errors.As over a value built from levels of c.
AsIn(c, e) == SelectInSeq(e, LAMBDA l : IsSe(c[l]))

\* Fault variant of ClearMeta: the cause is replaced by its own cause
\* whether or not it is a meta error.
RECURSIVE ClearMetaSkipsEveryCause(_, _)
ClearMetaSkipsEveryCause(c, e) ==
    LET k     == AsIn(c, e)
        inner == SubSeq(e, k + 1, Len(e))
        j     == AsIn(c, inner)
    IN  IF e = <<>> \/ k = 0 THEN e
        ELSE IF j = 0 THEN SubSeq(e, k, Len(e))
        ELSE <<e[k]>> \o
               ClearMetaSkipsEveryCause(c,
                   ClearMetaSkipsEveryCause(c, SubSeq(inner, j + 1, Len(inner))))

\* ClearMeta: from the first *errors.Error err, a new error err.WithCause
\* whose cause is the cleared cause; a meta cause is replaced by its own
\* cause, which is cleared twice.  Without an *errors.Error below err,
\* err is returned with its cause as it is.
RECURSIVE ClearMeta(_, _)
ClearMeta(c, e) ==
    LET k     == AsIn(c, e)
        inner == SubSeq(e, k + 1, Len(e))
        j     == AsIn(c, inner)
    IN  IF e = <<>> \/ k = 0 THEN e
        ELSE IF j = 0 THEN SubSeq(e, k, Len(e))
        ELSE <<e[k]>> \o
               ClearMeta(c, IF c[inner[j]] = META
                            THEN ClearMeta(c, SubSeq(inner, j + 1, Len(inner)))
                            ELSE inner)

\* The loop of errorChain over the cleared error: one entry per
\* *errors.Error (the level toError finds), then one for the first other
\* error (the level toErr returns), outermost first.
RECURSIVE ChainFrom(_, _)
ChainFrom(c, e) ==
    LET k == AsIn(c, e)
    IN  IF e = <<>> THEN <<>>
        ELSE IF k = 0 THEN <<[level |-> e[1], isError |-> FALSE]>>
        ELSE <<[level |-> e[k], isError |-> TRUE]>> \o ChainFrom(c, SubSeq(e, k + 1, Len(e)))

\* errorChain (and so ErrorMetaInfo.Error): the entries innermost first.
ErrorChain(c) == Reverse(ChainFrom(c, ClearMeta(c, Levels(c))))

-----------------------------------------------------------------------------
(* ServerLog of src/app/app_logging.pkg.go: each request's handler returns *)
(* an error and the middleware logs it.                                    *)

VARIABLES
    err,     \* the error the last handler returned
    via,     \* the logging middleware that handled it
    logged   \* what that middleware recorded for it

vars == <<err, via, logged>>

\* kind: "none" (no error), "meta" (fields from the Leaf), "undefined"
\* (NewErrorMetaInfo failed), "nil_leaf" (leaf.Code on a nil Leaf panics).
NoLog == [kind |-> "none", leaf |-> 0, msg |-> <<>>]

\* NewErrorMetaInfo(err) and the message info.Error() builds from it, for
\* each error a handler may return (evaluated once per error).
Info    == [c \in HandlerErrors |-> NewErrorMetaInfo(c)]
Message == [c \in HandlerErrors |-> ErrorChain(c)]

\* Before the request: no handler has returned yet.
Init ==
    /\ err = <<>>
    /\ via = "none"
    /\ logged = NoLog

\* The handler returned nil: only the request fields are logged.
ServerLogNoError(c) ==
    /\ IsEmptyError(c)
    /\ err' = c
    /\ via' = "app_server"
    /\ logged' = NoLog

\* NewErrorMetaInfo succeeded: code, reason and biz code from the Leaf,
\* the message from info.Error().
ServerLogMeta(c) ==
    LET info == Info[c]
    IN  /\ ~IsEmptyError(c)
        /\ info.ok
        /\ err' = c
        /\ via' = "app_server"
        /\ logged' = IF Leaf(info.stack) = 0
                     THEN [kind |-> "nil_leaf", leaf |-> 0, msg |-> <<>>]
                     ELSE [kind |-> "meta", leaf |-> Leaf(info.stack), msg |-> Message[c]]

\* A websocket request: only the request fields are logged, whatever the
\* handler returned.
ServerLogWebsocket(c) ==
    /\ err' = c
    /\ via' = "app_server"
    /\ logged' = NoLog

\* NewErrorMetaInfo failed: the error is logged as undefined.
ServerLogUndefined(c) ==
    /\ ~IsEmptyError(c)
    /\ ~Info[c].ok
    /\ err' = c
    /\ via' = "app_server"
    /\ logged' = [kind |-> "undefined", leaf |-> 0, msg |-> <<>>]

\* The other loggers read code, reason and biz code from the Leaf whenever
\* NewErrorMetaInfo(err) succeeds, with no IsEmptyError test first (a nil
\* error fails NewErrorMetaInfo); otherwise they log the error's %+v text.
LeafFields(c) ==
    LET info == Info[c]
    IN  CASE info.ok /\ Leaf(info.stack) = 0 -> [kind |-> "nil_leaf", leaf |-> 0, msg |-> <<>>]
          [] info.ok -> [kind |-> "meta", leaf |-> Leaf(info.stack), msg |-> <<>>]
          [] c = <<>> -> NoLog
          [] OTHER   -> [kind |-> "undefined", leaf |-> 0, msg |-> <<>>]

\* middlewarepkg.Server.
MiddlewareServerLog(c) ==
    /\ err' = c /\ via' = "mw_server" /\ logged' = LeafFields(c)

\* middlewarepkg.ClientLogging (which also takes the level from the Leaf).
MiddlewareClientLog(c) ==
    /\ err' = c /\ via' = "mw_client" /\ logged' = LeafFields(c)

\* apppkg.ClientLog.
ClientLog(c) ==
    /\ err' = c /\ via' = "app_client" /\ logged' = LeafFields(c)

\* ErrorMetaInfo.ToClientError, called by the server on the info of a
\* handler error: the client error takes code and reason from the Leaf,
\* the message from info.Error(), and the Leaf's metadata without the
\* stack and meta keys.
ToClientError(c) ==
    LET info == Info[c]
    IN  /\ info.ok
        /\ err' = c
        /\ via' = "to_client"
        /\ logged' = IF Leaf(info.stack) = 0
                     THEN [kind |-> "nil_leaf", leaf |-> 0, msg |-> <<>>]
                     ELSE [kind |-> "meta", leaf |-> Leaf(info.stack), msg |-> Message[c]]

\* The middlewares keep nothing from one request to the next, so a
\* behaviour is one request: its handler's error and one logger's record.
Next ==
    /\ via = "none"
    /\ \E c \in HandlerErrors :
           \/ ServerLogNoError(c)
           \/ ServerLogWebsocket(c)
           \/ ServerLogMeta(c)
           \/ ServerLogUndefined(c)
           \/ MiddlewareServerLog(c)
           \/ MiddlewareClientLog(c)
           \/ ClientLog(c)
           \/ ToClientError(c)

Spec == Init /\ [][Next]_vars

-----------------------------------------------------------------------------
(* Properties.                                                             *)

TypeOK ==
    /\ err \in Errors
    /\ via \in {"none", "app_server", "mw_server", "mw_client", "app_client", "to_client"}
    /\ logged \in [kind : {"none", "meta", "undefined", "nil_leaf"},
                   leaf : 0..MaxDepth,
                   msg  : Seq([level : 1..MaxDepth, isError : BOOLEAN])]

\* The *errors.Error levels of c, outermost first.
SeLevels(c) == SelectSeq(Levels(c), LAMBDA i : IsSe(c[i]))

\* The shape analyse is written for: business errors whose causes are
\* meta errors whose causes are business errors, and so on (other
\* wrappers may sit between them), ending in an *errors.Error.
MetaChain(c) ==
    LET S == SeLevels(c)
    IN  /\ S # <<>>
        /\ Last(S) = Len(c)
        /\ \A p \in 1..Len(S) : c[S[p]] = IF p % 2 = 1 THEN KRATOS ELSE META

\* On an error of that shape, analyse's two-levels-per-iteration walk puts
\* every meta level on WrapperStack, outermost first, and ends with the
\* deepest *errors.Error, which Leaf returns ("find most deep se").
AnalyseFollowsMetaChain ==
    MetaChain(err) =>
        NewErrorMetaInfo(err) =
            [ok |-> TRUE,
             stack |-> SelectSeq(SeLevels(err),
                                 LAMBDA i : err[i] = META \/ i = Len(err))]

\* The message ServerLog records (info.Error(), built by errorChain over
\* ClearMeta) still names every business error of the chain and, when the
\* chain ends in another error, the root cause below the last one.
MessageKeepsEveryError ==
    LET ch == ToSet(ErrorChain(err))
        L  == SelectLastInSeq(err, IsSe)
    IN  /\ \A i \in 1..Len(err) : err[i] = KRATOS => [level |-> i, isError |-> TRUE] \in ch
        /\ L < Len(err) => [level |-> L + 1, isError |-> FALSE] \in ch

\* Every logging middleware reads leaf.Code whenever NewErrorMetaInfo
\* returned no error: the Leaf is never nil then.
NoNilLeafDereference == logged.kind # "nil_leaf"

=============================================================================
