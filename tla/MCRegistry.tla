----------------------------- MODULE MCRegistry -----------------------------
(* One configured server, s1, which is also the name the application       *)
(* registers under and the service its resolver watches.                   *)
EXTENDS Registry
=============================================================================
