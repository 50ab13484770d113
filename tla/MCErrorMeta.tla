----------------------------- MODULE MCErrorMeta -----------------------------
(* Every error chain up to MaxDepth levels is a handler result.            *)
EXTENDS ErrorMeta

AllErrors == Errors

=============================================================================
